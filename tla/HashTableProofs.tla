-------------------------- MODULE HashTableProofs ---------------------------
(***************************************************************************)
(* Proofs about HashTable, for any set of keys, any finite memory, tables  *)
(* of every size and any number of growths.                                *)
(*                                                                         *)
(* A list in memory is described by the sequence of its nodes (`Path'),    *)
(* and a walk along the links returns it (`WalkOfPath').  The invariant    *)
(* gives every chain and the order list such a sequence.                   *)
(***************************************************************************)
EXTENDS HashTable, InductionFacts, FiniteSetTheorems, SequenceTheorems

-----------------------------------------------------------------------------
(* Keys.                                                                   *)

\* What lgx_str_cmp makes of two keys: it returns 0 for equal ones only.
LEMMA ComparesRight ==
  ASSUME NEW k \in Keys, NEW l \in Keys
  PROVE  lgx_str_cmp(k, l) = 0 <=> k = l
<1> USE HashTableAssumption
<1>1. k \in Seq(0 .. 127) /\ l \in Seq(0 .. 127) OBVIOUS
<1>2. /\ Len(k) \in Nat /\ k \in [1 .. Len(k) -> 0 .. 127]
      /\ Len(l) \in Nat /\ l \in [1 .. Len(l) -> 0 .. 127]
  BY <1>1, LenProperties
<1>3. CASE Differences(k, l) # {}
  <2>1. Differences(k, l) \subseteq Nat BY <1>2 DEF Differences
  <2>2. PICK d \in Differences(k, l) : \A j \in Differences(k, l) : d <= j
    BY <1>3, <2>1, LeastNumber
  <2> DEFINE first == CHOOSE i \in Differences(k, l) : \A j \in Differences(k, l) : i <= j
  <2>3. first \in Differences(k, l) BY <2>2
  <2> HIDE DEF first
  <2>4. first \in 1 .. Len(k) /\ first \in 1 .. Len(l) /\ k[first] # l[first]
    BY <2>3, <1>2 DEF Differences
  <2>5. k[first] \in 0 .. 127 /\ l[first] \in 0 .. 127 BY <2>4, <1>2
  <2>6. k[first] - l[first] # 0
    <3>1. ASSUME NEW a \in 0 .. 127, NEW b \in 0 .. 127, a # b PROVE a - b # 0 BY <3>1
    <3> QED BY <2>4, <2>5, <3>1
  <2>7. lgx_str_cmp(k, l) = k[first] - l[first]
    BY <1>3 DEF lgx_str_cmp, FirstDifference, first
  <2>8. k # l BY <2>4
  <2> QED BY <2>6, <2>7, <2>8
<1>4. CASE Differences(k, l) = {}
  <2>1. lgx_str_cmp(k, l) = Beyond(k, l) BY <1>4 DEF lgx_str_cmp
  <2>2. CASE Len(k) = Len(l)
    <3>1. \A i \in 1 .. Len(k) : k[i] = l[i] BY <1>2, <1>4, <2>2 DEF Differences
    <3>2. k = l BY <1>1, <2>2, <3>1, SeqEqual
    <3>3. Beyond(k, l) = 0 BY <1>2, <2>2 DEF Beyond
    <3> QED BY <2>1, <3>2, <3>3
  <2>3. CASE Len(k) # Len(l)
    <3>1. Beyond(k, l) # 0 BY <1>4, <2>3
    <3> QED BY <2>1, <2>3, <3>1
  <2> QED BY <2>2, <2>3
<1> QED BY <1>3, <1>4

\* The hash is an unsigned integer.
LEMMA HashType ==
  ASSUME NEW k \in Keys \cup {FREE}
  PROVE  ht_bkdr(k) \in Nat
<1>1. k \in Seq(0 .. 127)
  <2>1. CASE k \in Keys BY <2>1, HashTableAssumption
  <2>2. CASE k = <<>> BY <2>2
  <2> QED BY <2>1, <2>2 DEF FREE
<1>2. Len(k) \in Nat /\ \A i \in 1 .. Len(k) : k[i] \in Nat
  <2>1. Len(k) \in Nat /\ k \in [1 .. Len(k) -> 0 .. 127] BY <1>1, LenProperties
  <2>2. \A i \in 1 .. Len(k) : k[i] \in 0 .. 127 BY <2>1
  <2>3. \A b \in 0 .. 127 : b \in Nat OBVIOUS
  <2>4. ASSUME NEW i \in 1 .. Len(k) PROVE k[i] \in Nat BY <2>2, <2>3
  <2> QED BY <2>1, <2>4
<1>3. \A r, b \in Nat : (31 * r + b) % UINTS \in Nat BY HashTableAssumption
<1> DEFINE F == [i \in 1 .. Len(k) |-> [r \in Nat |-> (31 * r + k[i]) % UINTS]]
           Defines(ret) ==
             ret = [i \in 0 .. Len(k) |-> IF i = 0 THEN 0 ELSE (31 * ret[i - 1] + k[i]) % UINTS]
<1>4. F \in [1 .. Len(k) -> [Nat -> Nat]]
  <2> SUFFICES ASSUME NEW i \in 1 .. Len(k), NEW r \in Nat
               PROVE  (31 * r + k[i]) % UINTS \in Nat
    OBVIOUS
  <2> QED BY <1>2, <1>3
<1>5. \E ret : Defines(ret)
  <2> HIDE DEF F
  <2>1. PICK N \in Nat : N = Len(k) BY <1>2
  <2>2. PICK G \in [1 .. N -> [Nat -> Nat]] : G = F BY <1>4, <2>1
  <2>3. Steps(N, Nat, 0, G) BY DEF Steps
  <2>4. PICK f : Iterates(f, N, Nat, 0, G) BY <2>3, Recursion
  <2>5. f \in [0 .. N -> Nat] /\ f[0] = 0 /\ \A i \in 1 .. N : f[i] = G[i][f[i - 1]]
    BY <2>4 DEF Iterates
  <2>6. ASSUME NEW i \in 1 .. Len(k) PROVE f[i] = (31 * f[i - 1] + k[i]) % UINTS
    <3>1. i \in 1 .. N /\ i - 1 \in 0 .. N BY <2>1
    <3>2. f[i - 1] \in Nat BY <2>5, <3>1
    <3>3. f[i] = F[i][f[i - 1]] BY <2>2, <2>5, <3>1
    <3> QED BY <3>2, <3>3 DEF F
  <2>7. \A i \in 0 .. Len(k) :
          f[i] = IF i = 0 THEN 0 ELSE (31 * f[i - 1] + k[i]) % UINTS
    BY <1>2, <2>5, <2>6
  <2>8. f = [i \in 0 .. Len(k) |-> f[i]] BY <2>1, <2>5
  <2>9. Defines(f) BY <2>7, <2>8
  <2> QED BY <2>9
<1> DEFINE ret == CHOOSE ret : Defines(ret)
<1>6. Defines(ret) BY <1>5
<1>7. ht_bkdr(k) = ret[Len(k)] BY DEF ht_bkdr
<1> HIDE DEF ret
<1> DEFINE P == {i \in 0 .. Len(k) : ret[i] \in Nat}
<1>8. ret[0] = 0 /\ \A i \in 1 .. Len(k) : ret[i] = (31 * ret[i - 1] + k[i]) % UINTS
  BY <1>2, <1>6
<1>9. 0 \in P BY <1>2, <1>8
<1>10. ASSUME NEW i \in 1 .. Len(k), i - 1 \in P PROVE i \in P
  <2>1. ret[i - 1] \in Nat /\ k[i] \in Nat BY <1>2, <1>10
  <2>2. ret[i] \in Nat BY <1>3, <1>8, <2>1
  <2> QED BY <1>2, <2>2
<1> HIDE DEF P
<1>11. \A i \in 1 .. Len(k) : i - 1 \in P => i \in P BY <1>10
<1>12. \A i \in 0 .. Len(k) : i \in P BY <1>2, <1>9, <1>11, UpTo
<1>13. Len(k) \in P BY <1>2, <1>12
<1> QED BY <1>7, <1>13 DEF P

LEMMA BucketType ==
  ASSUME NEW h, h.size \in Nat \ {0}, NEW k \in Keys \cup {FREE}
  PROVE  Bucket(h, k) \in 0 .. h.size - 1
<1>1. PICK x \in Nat : x = ht_bkdr(k) BY HashType
<1>2. PICK s \in Nat \ {0} : s = h.size OBVIOUS
<1>3. x % s \in 0 .. s - 1 BY <1>2
<1> QED BY <1>1, <1>2, <1>3 DEF Bucket

-----------------------------------------------------------------------------
(* Lists in memory.                                                        *)

\* The node at place i of a list, and NULL behind its end.
At(s, i) == IF i \in 1 .. Len(s) THEN s[i] ELSE NULL

\* The links lead from `from' through the nodes of s to NULL.
Path(link, from, s) ==
  from = At(s, 1) /\ \A i \in 1 .. Len(s) : link[s[i]] = At(s, i + 1)

Distinct(s) == \A i, j \in 1 .. Len(s) : s[i] = s[j] => i = j

\* Distinct nodes are no more than there are.
LEMMA DistinctFit ==
  ASSUME NEW s \in Seq(Nodes), Distinct(s)
  PROVE  Len(s) <= Cardinality(Nodes) /\ Cardinality(Nodes) \in Nat /\ IsInjective(s)
<1>1. Len(s) \in Nat /\ s \in [1 .. Len(s) -> Nodes] OBVIOUS
<1>2. IsInjective(s) BY <1>1 DEF IsInjective, Distinct
<1>3. s \in Injection(1 .. Len(s), Nodes) BY <1>1 DEF Injection, IsInjective, Distinct
<1>4. IsFiniteSet(Nodes) BY HashTableAssumption
<1>5. Cardinality(1 .. Len(s)) <= Cardinality(Nodes) BY <1>3, <1>4, FS_Injection
<1>6. Cardinality(1 .. Len(s)) = Len(s) BY <1>1, FS_Interval, SMTT(30)
<1>7. Cardinality(Nodes) \in Nat BY <1>4, FS_CardinalityType
<1> QED BY <1>2, <1>5, <1>6, <1>7

\* A list: its nodes, in order and each once.
List(link, from, s) == s \in Seq(Nodes) /\ Distinct(s) /\ Path(link, from, s)

LEMMA RestOfSeq ==
  ASSUME NEW s \in Seq(Nodes), NEW i \in 1 .. Len(s)
  PROVE  <<s[i]>> \o SubSeq(s, i + 1, Len(s)) = SubSeq(s, i, Len(s))
<1>1. Len(s) \in Nat /\ s[i] \in Nodes OBVIOUS
<1>2. <<s[i]>> \in Seq(Nodes) /\ SubSeq(s, i + 1, Len(s)) \in Seq(Nodes) BY <1>1
<1> QED BY <1>1, <1>2

\* A walk along the links of a list returns the list.
LEMMA WalkOfPath ==
  ASSUME NEW link \in [Nodes -> Pointers], NEW from, NEW s, List(link, from, s)
  PROVE  Walk(link, from) = s
<1>0. s \in Seq(Nodes) /\ Distinct(s) /\ Path(link, from, s) BY DEF List
<1>1. Len(s) \in Nat /\ \A i \in 1 .. Len(s) : s[i] \in Nodes BY <1>0
<1>2. NULL \notin Nodes BY HashTableAssumption
<1>3. PICK N \in Nat : N = Cardinality(Nodes) + 1 BY <1>0, DistinctFit
<1>4. Len(s) <= N BY <1>0, <1>1, <1>3, DistinctFit
<1> DEFINE Value(left, rest) ==
             [n \in Pointers |-> IF n = NULL \/ left = 0 THEN <<>> ELSE <<n>> \o rest[link[n]]]
           Defines(path) ==
             path = [left \in 0 .. Cardinality(Nodes) + 1 |->
                       [n \in Pointers |-> IF n = NULL \/ left = 0 THEN <<>>
                                          ELSE <<n>> \o path[left - 1][link[n]]]]
           Walks == [Pointers -> Seq(Nodes)]
           none == [n \in Pointers |-> <<>>]
           F == [left \in 1 .. N |-> [rest \in Walks |-> Value(left, rest)]]
<1>5. \E path : Defines(path)
  <2>1. none \in Walks OBVIOUS
  <2>2. ASSUME NEW left \in 1 .. N, NEW rest \in Walks PROVE Value(left, rest) \in Walks
    <3>1. ASSUME NEW n \in Pointers, n # NULL PROVE <<n>> \o rest[link[n]] \in Seq(Nodes)
      <4>1. n \in Nodes /\ link[n] \in Pointers BY <3>1 DEF Pointers
      <4>2. rest[link[n]] \in Seq(Nodes) BY <4>1
      <4> QED BY <4>1, <4>2
    <3>2. ASSUME NEW n \in Pointers
          PROVE  (IF n = NULL \/ left = 0 THEN <<>> ELSE <<n>> \o rest[link[n]]) \in Seq(Nodes)
      BY <3>1
    <3> QED BY <3>2
  <2>3. F \in [1 .. N -> [Walks -> Walks]]
    <3> HIDE DEF Walks, Value
    <3> QED BY <2>2
  <2>4. PICK G : G = F OBVIOUS
  <2>5. PICK W : W = Walks OBVIOUS
  <2>6. PICK z : z = none OBVIOUS
  <2>7. Steps(N, W, z, G)
    <3> HIDE DEF Walks, none, F
    <3> QED BY <2>1, <2>3, <2>4, <2>5, <2>6 DEF Steps
  <2>8. PICK f : Iterates(f, N, W, z, G) BY <2>7, Recursion
  <2>9. f \in [0 .. N -> W] /\ f[0] = z /\ \A i \in 1 .. N : f[i] = G[i][f[i - 1]]
    BY <2>8 DEF Iterates
  <2>10. ASSUME NEW left \in 1 .. N PROVE f[left] = Value(left, f[left - 1])
    <3> HIDE DEF Walks, Value
    <3>1. left - 1 \in 0 .. N OBVIOUS
    <3>2. f[left - 1] \in Walks BY <2>9, <2>5, <3>1
    <3>3. f[left] = F[left][f[left - 1]] BY <2>4, <2>9
    <3> QED BY <3>2, <3>3
  <2>11. f[0] = [n \in Pointers |-> IF n = NULL \/ 0 = 0 THEN <<>> ELSE <<n>> \o f[0 - 1][link[n]]]
    BY <2>9, <2>6
  <2>12. ASSUME NEW left \in 0 .. N
         PROVE  f[left] = [n \in Pointers |-> IF n = NULL \/ left = 0 THEN <<>>
                                             ELSE <<n>> \o f[left - 1][link[n]]]
    <3>1. CASE left = 0 BY <2>11, <3>1
    <3>2. CASE left # 0
      <4>1. left \in 1 .. N BY <3>2
      <4> QED BY <2>10, <4>1
    <3> QED BY <3>1, <3>2
  <2>13. f = [left \in 0 .. N |-> f[left]] BY <2>9
  <2>14. Defines(f) BY <2>12, <2>13, <1>3
  <2> QED BY <2>14
<1> DEFINE path == CHOOSE path : Defines(path)
<1>6. Defines(path) BY <1>5
<1>7. Walk(link, from) = path[Cardinality(Nodes) + 1][from] BY DEF Walk
<1> HIDE DEF path
<1>8. ASSUME NEW left \in 0 .. N, NEW n \in Pointers
      PROVE  path[left][n] = IF n = NULL \/ left = 0 THEN <<>>
                             ELSE <<n>> \o path[left - 1][link[n]]
  <2>1. path[left] = [m \in Pointers |-> IF m = NULL \/ left = 0 THEN <<>>
                                        ELSE <<m>> \o path[left - 1][link[m]]]
    BY <1>3, <1>6
  <2> HIDE DEF Defines
  <2> QED BY <2>1
<1> DEFINE P == {left \in 0 .. N : \A i \in 1 .. Len(s) + 1 :
                   Len(s) + 1 - i <= left => path[left][At(s, i)] = SubSeq(s, i, Len(s))}
<1> HIDE DEF Defines
<1>9. ASSUME NEW left \in 0 .. N PROVE path[left][NULL] = <<>>
  <2>1. NULL \in Pointers BY DEF Pointers
  <2> QED BY <1>8, <2>1
<1>10. ASSUME NEW i, i = Len(s) + 1 PROVE At(s, i) = NULL /\ SubSeq(s, i, Len(s)) = <<>>
  BY <1>0, <1>1, <1>10 DEF At
<1>11. 0 \in P
  <2> SUFFICES ASSUME NEW i \in 1 .. Len(s) + 1, Len(s) + 1 - i <= 0
               PROVE  path[0][At(s, i)] = SubSeq(s, i, Len(s))
    OBVIOUS
  <2>1. i = Len(s) + 1 BY <1>1
  <2>2. At(s, i) = NULL /\ SubSeq(s, i, Len(s)) = <<>> BY <1>10, <2>1
  <2>3. path[0][NULL] = <<>> BY <1>9
  <2> QED BY <2>2, <2>3
<1>12. ASSUME NEW left \in 1 .. N, left - 1 \in P PROVE left \in P
  <2> SUFFICES ASSUME NEW i \in 1 .. Len(s) + 1, Len(s) + 1 - i <= left
               PROVE  path[left][At(s, i)] = SubSeq(s, i, Len(s))
    OBVIOUS
  <2>1. CASE i = Len(s) + 1
    <3>1. At(s, i) = NULL /\ SubSeq(s, i, Len(s)) = <<>> BY <1>10, <2>1
    <3>2. path[left][NULL] = <<>> BY <1>9
    <3> QED BY <3>1, <3>2
  <2>2. CASE i # Len(s) + 1
    <3>1. i \in 1 .. Len(s) /\ i + 1 \in 1 .. Len(s) + 1 BY <1>1, <2>2
    <3>2. s[i] \in Nodes /\ s[i] \in Pointers /\ s[i] # NULL BY <1>1, <1>2, <3>1 DEF Pointers
    <3>3. At(s, i) = s[i] BY <3>1 DEF At
    <3>4. link[s[i]] = At(s, i + 1) BY <1>0, <3>1 DEF Path
    <3>5. path[left][s[i]] = <<s[i]>> \o path[left - 1][link[s[i]]]
      <4>1. left \in 0 .. N /\ left # 0 OBVIOUS
      <4> QED BY <1>8, <3>2, <4>1
    <3>6. Len(s) + 1 - (i + 1) <= left - 1 BY <1>1, <3>1
    <3>7. path[left - 1][At(s, i + 1)] = SubSeq(s, i + 1, Len(s)) BY <1>12, <3>1, <3>6
    <3> QED BY <1>0, <3>1, <3>3, <3>4, <3>5, <3>7, RestOfSeq
  <2> QED BY <2>1, <2>2
<1>13. \A left \in 1 .. N : left - 1 \in P => left \in P BY <1>12
<1> HIDE DEF P
<1>14. \A left \in 0 .. N : left \in P BY <1>11, <1>13, UpTo
<1>15. N \in P BY <1>14
<1>16. from = At(s, 1) BY <1>0 DEF Path
<1>17. 1 \in 1 .. Len(s) + 1 /\ Len(s) + 1 - 1 <= N BY <1>1, <1>4
<1>18. path[N][At(s, 1)] = SubSeq(s, 1, Len(s)) BY <1>15, <1>17 DEF P
<1>19. SubSeq(s, 1, Len(s)) = s BY <1>0, <1>1
<1> QED BY <1>3, <1>7, <1>16, <1>18, <1>19

\* A write to a node that is not in a list leaves the list alone.
LEMMA WriteElsewhere ==
  ASSUME NEW link \in [Nodes -> Pointers], NEW from, NEW s, List(link, from, s),
         NEW n \in Nodes, n \notin ToSet(s), NEW x \in Pointers
  PROVE  List([link EXCEPT ![n] = x], from, s)
<1>1. s \in Seq(Nodes) /\ Distinct(s) /\ Path(link, from, s) BY DEF List
<1>2. ASSUME NEW i \in 1 .. Len(s) PROVE [link EXCEPT ![n] = x][s[i]] = At(s, i + 1)
  <2>1. s[i] \in Nodes /\ s[i] # n BY <1>1 DEF ToSet
  <2> QED BY <1>1, <2>1 DEF Path
<1>3. Path([link EXCEPT ![n] = x], from, s) BY <1>1, <1>2 DEF Path
<1> QED BY <1>1, <1>3 DEF List

\* A node in front of a list.
LEMMA PushFront ==
  ASSUME NEW link \in [Nodes -> Pointers], NEW from, NEW s, List(link, from, s),
         NEW n \in Nodes, n \notin ToSet(s)
  PROVE  \E t : List([link EXCEPT ![n] = from], n, t) /\ ToSet(t) = ToSet(s) \cup {n}
<1>1. s \in Seq(Nodes) /\ Distinct(s) /\ Path(link, from, s) BY DEF List
<1>2. Len(s) \in Nat /\ \A i \in 1 .. Len(s) : s[i] \in Nodes BY <1>1
<1> DEFINE t == [i \in 1 .. Len(s) + 1 |-> IF i = 1 THEN n ELSE s[i - 1]]
<1>3. \A i \in 1 .. Len(s) + 1 : i # 1 => i - 1 \in 1 .. Len(s) BY <1>2
<1>4. t \in [1 .. Len(s) + 1 -> Nodes] BY <1>2, <1>3
<1>5. t \in Seq(Nodes) /\ Len(t) = Len(s) + 1
  <2> HIDE DEF t
  <2>1. PICK N \in Nat : N = Len(s) + 1 BY <1>2
  <2>2. t \in [1 .. N -> Nodes] BY <1>4, <2>1
  <2>3. t \in Seq(Nodes) /\ Len(t) = N BY <2>2
  <2> QED BY <2>1, <2>3
<1>6. t[1] = n /\ \A i \in 1 .. Len(s) : t[i + 1] = s[i]
  <2>1. 1 \in 1 .. Len(s) + 1 BY <1>2
  <2>2. ASSUME NEW i \in 1 .. Len(s) PROVE t[i + 1] = s[i]
    <3>1. i + 1 \in 1 .. Len(s) + 1 /\ i + 1 # 1 /\ (i + 1) - 1 = i BY <1>2
    <3> QED BY <3>1
  <2> QED BY <2>1, <2>2
<1> HIDE DEF t
<1>7. \A i \in 1 .. Len(t) : i = 1 \/ (i - 1 \in 1 .. Len(s) /\ t[i] = s[i - 1])
  <2> SUFFICES ASSUME NEW i \in 1 .. Len(t), i # 1 PROVE i - 1 \in 1 .. Len(s) /\ t[i] = s[i - 1]
    OBVIOUS
  <2>1. i - 1 \in 1 .. Len(s) /\ (i - 1) + 1 = i BY <1>2, <1>5
  <2> QED BY <1>6, <2>1
<1>8. \A i \in 1 .. Len(s) : s[i] # n BY DEF ToSet
<1>9. ToSet(t) = ToSet(s) \cup {n}
  <2>1. ASSUME NEW m \in ToSet(t) PROVE m \in ToSet(s) \cup {n}
    <3>1. PICK i \in 1 .. Len(t) : m = t[i] BY <1>5 DEF ToSet
    <3> QED BY <1>6, <1>7, <3>1, <1>1 DEF ToSet
  <2>2. 1 \in 1 .. Len(t) BY <1>2, <1>5
  <2>3. n \in ToSet(t) BY <1>5, <1>6, <2>2 DEF ToSet
  <2>4. ASSUME NEW m \in ToSet(s) PROVE m \in ToSet(t)
    <3>1. PICK i \in 1 .. Len(s) : m = s[i] BY <1>1 DEF ToSet
    <3>2. i + 1 \in 1 .. Len(t) /\ t[i + 1] = m BY <1>2, <1>5, <1>6, <3>1
    <3> QED BY <1>5, <3>2 DEF ToSet
  <2> QED BY <2>1, <2>3, <2>4
<1>10. Distinct(t)
  <2> SUFFICES ASSUME NEW i \in 1 .. Len(t), NEW j \in 1 .. Len(t), t[i] = t[j] PROVE i = j
    BY DEF Distinct
  <2>1. CASE i = 1 /\ j = 1 BY <2>1
  <2>2. CASE i = 1 /\ j # 1 BY <1>6, <1>7, <1>8, <2>2
  <2>3. CASE i # 1 /\ j = 1 BY <1>6, <1>7, <1>8, <2>3
  <2>4. CASE i # 1 /\ j # 1
    <3>1. i - 1 = j - 1 BY <1>1, <1>7, <2>4 DEF Distinct
    <3> QED BY <1>2, <1>5, <3>1
  <2> QED BY <2>1, <2>2, <2>3, <2>4
<1>11. \A i \in 1 .. Len(s) + 1 : At(t, i + 1) = At(s, i)
  <2> SUFFICES ASSUME NEW i \in 1 .. Len(s) + 1 PROVE At(t, i + 1) = At(s, i) OBVIOUS
  <2>1. CASE i = Len(s) + 1
    <3>1. i \notin 1 .. Len(s) /\ i + 1 \notin 1 .. Len(t) BY <1>2, <1>5, <2>1
    <3> QED BY <3>1 DEF At
  <2>2. CASE i # Len(s) + 1
    <3>1. i \in 1 .. Len(s) /\ i + 1 \in 1 .. Len(t) BY <1>2, <1>5, <2>2
    <3> QED BY <1>6, <3>1 DEF At
  <2> QED BY <2>1, <2>2
<1>12. Path([link EXCEPT ![n] = from], n, t)
  <2>1. 1 \in 1 .. Len(t) /\ n = At(t, 1) BY <1>2, <1>5, <1>6 DEF At
  <2>2. ASSUME NEW i \in 1 .. Len(t) PROVE [link EXCEPT ![n] = from][t[i]] = At(t, i + 1)
    <3>1. CASE i = 1
      <4>1. At(t, 2) = At(s, 1)
        <5>1. 1 \in 1 .. Len(s) + 1 BY <1>2
        <5> QED BY <1>11, <5>1
      <4>2. from = At(s, 1) BY <1>1 DEF Path
      <4> QED BY <1>6, <3>1, <4>1, <4>2
    <3>2. CASE i # 1
      <4>1. i - 1 \in 1 .. Len(s) /\ t[i] = s[i - 1] /\ (i - 1) + 1 = i BY <1>7, <3>2
      <4>2. link[s[i - 1]] = At(s, i) BY <1>1, <4>1 DEF Path
      <4>3. s[i - 1] \in Nodes /\ s[i - 1] # n BY <1>2, <1>8, <4>1
      <4>4. i \in 1 .. Len(s) + 1 BY <1>2, <4>1
      <4>5. At(t, i + 1) = At(s, i) BY <1>11, <4>4
      <4> QED BY <4>1, <4>2, <4>3, <4>5
    <3> QED BY <3>1, <3>2
  <2> QED BY <2>1, <2>2 DEF Path
<1>13. List([link EXCEPT ![n] = from], n, t) BY <1>5, <1>10, <1>12 DEF List
<1> QED BY <1>9, <1>13

\* A place of a list holds a node, and the one behind its end NULL.
LEMMA AtPlace ==
  ASSUME NEW s \in Seq(Nodes), Distinct(s), NEW p \in 1 .. Len(s), NEW i \in 1 .. Len(s) + 1
  PROVE  At(s, i) = s[p] <=> i = p
<1>1. Len(s) \in Nat /\ \A j \in 1 .. Len(s) : s[j] \in Nodes OBVIOUS
<1>2. CASE i \in 1 .. Len(s) BY <1>2 DEF At, Distinct
<1>3. CASE i \notin 1 .. Len(s)
  <2>1. At(s, i) = NULL /\ i # p BY <1>3 DEF At
  <2> QED BY <1>1, <2>1, HashTableAssumption
<1> QED BY <1>2, <1>3

\* A node is taken out of a list.
LEMMA TakeOut ==
  ASSUME NEW link \in [Nodes -> Pointers], NEW from, NEW s, List(link, from, s),
         NEW n \in ToSet(s)
  PROVE  \E t : /\ List(Bypassed(n, link), IF from = n THEN link[n] ELSE from, t)
                /\ ToSet(t) = ToSet(s) \ {n}
<1>1. s \in Seq(Nodes) /\ Distinct(s) /\ Path(link, from, s) BY DEF List
<1>2. Len(s) \in Nat /\ \A i \in 1 .. Len(s) : s[i] \in Nodes BY <1>1
<1>3. PICK p \in 1 .. Len(s) : s[p] = n BY <1>1 DEF ToSet
<1> DEFINE t == [i \in 1 .. Len(s) - 1 |-> IF i < p THEN s[i] ELSE s[i + 1]]
<1>4. t \in [1 .. Len(s) - 1 -> Nodes]
  <2> SUFFICES ASSUME NEW i \in 1 .. Len(s) - 1 PROVE s[i] \in Nodes /\ s[i + 1] \in Nodes
    OBVIOUS
  <2>1. i \in 1 .. Len(s) /\ i + 1 \in 1 .. Len(s) BY <1>2
  <2> QED BY <1>2, <2>1
<1>5. t \in Seq(Nodes) /\ Len(t) = Len(s) - 1
  <2> HIDE DEF t
  <2>1. PICK N \in Nat : N = Len(s) - 1 BY <1>2, <1>3
  <2>2. t \in [1 .. N -> Nodes] BY <1>4, <2>1
  <2>3. t \in Seq(Nodes) /\ Len(t) = N BY <2>2
  <2> QED BY <2>1, <2>3
<1>6. \A i \in 1 .. Len(t) : t[i] = IF i < p THEN s[i] ELSE s[i + 1] BY <1>5
<1> HIDE DEF t
<1>7. \A i \in 1 .. Len(t) : i \in 1 .. Len(s) /\ i + 1 \in 1 .. Len(s) BY <1>2, <1>5
<1>8. \A i \in 1 .. Len(s) + 1 : At(s, i) = n <=> i = p BY <1>1, <1>3, AtPlace
<1>9. \A i \in 1 .. Len(s) : At(t, i) = IF i < p THEN At(s, i) ELSE At(s, i + 1)
  <2> SUFFICES ASSUME NEW i \in 1 .. Len(s)
               PROVE  At(t, i) = IF i < p THEN At(s, i) ELSE At(s, i + 1)
    OBVIOUS
  <2>1. CASE i = Len(s)
    <3>1. i \notin 1 .. Len(t) /\ ~(i < p) /\ i + 1 \notin 1 .. Len(s) BY <1>2, <1>3, <1>5, <2>1
    <3> QED BY <3>1 DEF At
  <2>2. CASE i # Len(s)
    <3>1. i \in 1 .. Len(t) BY <1>2, <1>5, <2>2
    <3> QED BY <1>6, <1>7, <3>1 DEF At
  <2> QED BY <2>1, <2>2
<1>10. ToSet(t) = ToSet(s) \ {n}
  <2>1. ASSUME NEW m \in ToSet(t) PROVE m \in ToSet(s) /\ m # n
    <3>1. PICK i \in 1 .. Len(t) : m = t[i] BY <1>5 DEF ToSet
    <3>2. i \in 1 .. Len(s) /\ i + 1 \in 1 .. Len(s) BY <1>7
    <3>3. CASE i < p
      <4>1. m = s[i] /\ i # p BY <1>6, <3>1, <3>3, <1>3
      <4> QED BY <1>1, <1>3, <3>2, <4>1 DEF Distinct, ToSet
    <3>4. CASE ~(i < p)
      <4>1. m = s[i + 1] /\ i + 1 # p BY <1>2, <1>6, <3>1, <3>4, <1>3
      <4> QED BY <1>1, <1>3, <3>2, <4>1 DEF Distinct, ToSet
    <3> QED BY <3>3, <3>4
  <2>2. ASSUME NEW m \in ToSet(s), m # n PROVE m \in ToSet(t)
    <3>1. PICK i \in 1 .. Len(s) : m = s[i] BY <1>1 DEF ToSet
    <3>2. i # p BY <1>3, <2>2, <3>1
    <3>3. CASE i < p
      <4>1. i \in 1 .. Len(t) /\ t[i] = m BY <1>2, <1>5, <1>6, <1>3, <3>1, <3>3
      <4> QED BY <1>5, <4>1 DEF ToSet
    <3>4. CASE ~(i < p)
      <4>1. i - 1 \in 1 .. Len(t) /\ ~(i - 1 < p) /\ (i - 1) + 1 = i
        BY <1>2, <1>5, <1>3, <3>2, <3>4
      <4>2. t[i - 1] = m BY <1>6, <3>1, <4>1
      <4> QED BY <1>5, <4>1, <4>2 DEF ToSet
    <3> QED BY <3>3, <3>4
  <2> QED BY <2>1, <2>2
<1>11. Distinct(t)
  <2> SUFFICES ASSUME NEW i \in 1 .. Len(t), NEW j \in 1 .. Len(t), t[i] = t[j] PROVE i = j
    BY DEF Distinct
  <2>1. /\ i \in 1 .. Len(s) /\ i + 1 \in 1 .. Len(s)
        /\ j \in 1 .. Len(s) /\ j + 1 \in 1 .. Len(s)
    BY <1>7
  <2>2. (IF i < p THEN s[i] ELSE s[i + 1]) = (IF j < p THEN s[j] ELSE s[j + 1]) BY <1>6
  <2>3. CASE i < p /\ j < p BY <1>1, <2>1, <2>2, <2>3 DEF Distinct
  <2>4. CASE i < p /\ ~(j < p)
    <3>1. i = j + 1 BY <1>1, <2>1, <2>2, <2>4 DEF Distinct
    <3> QED BY <2>4, <3>1
  <2>5. CASE ~(i < p) /\ j < p
    <3>1. i + 1 = j BY <1>1, <2>1, <2>2, <2>5 DEF Distinct
    <3> QED BY <2>5, <3>1
  <2>6. CASE ~(i < p) /\ ~(j < p)
    <3>1. i + 1 = j + 1 BY <1>1, <2>1, <2>2, <2>6 DEF Distinct
    <3> QED BY <1>2, <2>1, <3>1
  <2> QED BY <2>3, <2>4, <2>5, <2>6
<1>12. link[n] = At(s, p + 1) BY <1>1, <1>3 DEF Path
<1>13. (IF from = n THEN link[n] ELSE from) = At(t, 1)
  <2>1. 1 \in 1 .. Len(s) /\ 1 \in 1 .. Len(s) + 1 BY <1>2, <1>3
  <2>2. from = At(s, 1) BY <1>1 DEF Path
  <2>3. CASE p = 1
    <3>1. from = n BY <1>8, <2>1, <2>2, <2>3
    <3>2. At(t, 1) = At(s, 1 + 1) BY <1>9, <2>1, <2>3
    <3> QED BY <1>12, <2>3, <3>1, <3>2
  <2>4. CASE p # 1
    <3>1. from # n BY <1>8, <2>1, <2>2, <2>4
    <3>2. At(t, 1) = At(s, 1) BY <1>9, <1>2, <2>1, <2>4
    <3> QED BY <2>2, <3>1, <3>2
  <2> QED BY <2>3, <2>4
<1>14. ASSUME NEW i \in 1 .. Len(t) PROVE Bypassed(n, link)[t[i]] = At(t, i + 1)
  <2>1. i \in 1 .. Len(s) /\ i + 1 \in 1 .. Len(s) BY <1>7
  <2>2. \A m \in Nodes : Bypassed(n, link)[m] = IF link[m] = n THEN link[n] ELSE link[m]
    BY DEF Bypassed
  <2>3. CASE i < p
    <3>1. t[i] = s[i] /\ s[i] \in Nodes BY <1>2, <1>6, <2>1, <2>3
    <3>2. link[s[i]] = At(s, i + 1) BY <1>1, <2>1 DEF Path
    <3>3. CASE i + 1 = p
      <4>1. link[s[i]] = n BY <1>8, <2>1, <3>2, <3>3
      <4>2. At(t, i + 1) = At(s, p + 1) BY <1>9, <2>1, <3>3
      <4> QED BY <1>12, <2>2, <3>1, <4>1, <4>2
    <3>4. CASE i + 1 # p
      <4>1. link[s[i]] # n BY <1>8, <1>2, <2>1, <3>2, <3>4
      <4>2. At(t, i + 1) = At(s, i + 1) BY <1>9, <2>1, <2>3, <3>4
      <4> QED BY <2>2, <3>1, <3>2, <4>1, <4>2
    <3> QED BY <3>3, <3>4
  <2>4. CASE ~(i < p)
    <3>1. t[i] = s[i + 1] /\ s[i + 1] \in Nodes BY <1>2, <1>6, <2>1, <2>4
    <3>2. link[s[i + 1]] = At(s, (i + 1) + 1) BY <1>1, <2>1 DEF Path
    <3>3. (i + 1) + 1 \in 1 .. Len(s) + 1 /\ (i + 1) + 1 # p /\ ~(i + 1 < p)
      BY <1>2, <1>3, <2>1, <2>4
    <3>4. link[s[i + 1]] # n BY <1>8, <3>2, <3>3
    <3>5. At(t, i + 1) = At(s, (i + 1) + 1) BY <1>9, <2>1, <3>3
    <3> QED BY <2>2, <3>1, <3>2, <3>4, <3>5
  <2> QED BY <2>3, <2>4
<1>15. Path(Bypassed(n, link), IF from = n THEN link[n] ELSE from, t)
  BY <1>13, <1>14 DEF Path
<1>16. List(Bypassed(n, link), IF from = n THEN link[n] ELSE from, t)
  BY <1>5, <1>11, <1>15 DEF List
<1> QED BY <1>10, <1>16

\* Taking a node out of its list leaves the other lists alone.
LEMMA TakeOutElsewhere ==
  ASSUME NEW link \in [Nodes -> Pointers], NEW from, NEW s, List(link, from, s),
         NEW n \in Nodes, n \notin ToSet(s)
  PROVE  List(Bypassed(n, link), from, s)
<1>1. s \in Seq(Nodes) /\ Distinct(s) /\ Path(link, from, s) BY DEF List
<1>2. Len(s) \in Nat /\ \A i \in 1 .. Len(s) : s[i] \in Nodes BY <1>1
<1>3. \A i \in 1 .. Len(s) + 1 : At(s, i) # n BY <1>1, HashTableAssumption DEF At, ToSet
<1>4. ASSUME NEW i \in 1 .. Len(s) PROVE Bypassed(n, link)[s[i]] = At(s, i + 1)
  <2>1. link[s[i]] = At(s, i + 1) BY <1>1 DEF Path
  <2>2. i + 1 \in 1 .. Len(s) + 1 BY <1>2
  <2>3. link[s[i]] # n /\ s[i] \in Nodes BY <1>2, <1>3, <2>1, <2>2
  <2> QED BY <2>1, <2>3 DEF Bypassed
<1> QED BY <1>1, <1>4 DEF List, Path

-----------------------------------------------------------------------------
(* Tables.                                                                 *)

Tables ==
  [table : UNION {[0 .. s - 1 -> Pointers] : s \in Nat}, size : Nat, length : Nat,
   head : Pointers, tail : Pointers,
   k : [Nodes -> Keys \cup {FREE}], next : [Nodes -> Pointers], order : [Nodes -> Pointers]]

Typed(h) == h \in Tables /\ h.table \in [0 .. h.size - 1 -> Pointers]

\* Each bucket has a list of the nodes of S whose keys belong there.
Chained(h, S) ==
  \A b \in 0 .. h.size - 1 :
    \E s : /\ List(h.next, h.table[b], s)
           /\ ToSet(s) = {n \in S : Bucket(h, h.k[n]) = b}

\* The table as far as it is filled: with the nodes of o, in this order.  The
\* last of them may still be linked to others.
Filled(h, o) ==
  /\ Typed(h) /\ h.size # 0
  /\ o \in Seq(Nodes) /\ Distinct(o)
  /\ h.head = At(o, 1) /\ h.tail = At(o, Len(o)) /\ h.length = Len(o)
  /\ \A i \in 1 .. Len(o) - 1 : h.order[o[i]] = o[i + 1]
  /\ Chained(h, ToSet(o))

\* What ht_set does to a table.
LEMMA InsertFields ==
  ASSUME NEW h, Typed(h), h.size # 0, NEW n \in Nodes
  PROVE  LET b == Bucket(h, h.k[n])
             g == Insert(h, n)
         IN  /\ b \in 0 .. h.size - 1
             /\ Typed(g) /\ g.size = h.size /\ g.k = h.k
             /\ g.table = [h.table EXCEPT ![b] = n]
             /\ g.next = [h.next EXCEPT ![n] = h.table[b]]
             /\ g.length = h.length + 1
             /\ g.tail = n
             /\ g.head = IF h.tail = NULL THEN n ELSE h.head
             /\ g.order = IF h.tail = NULL THEN h.order ELSE [h.order EXCEPT ![h.tail] = n]
<1>1. /\ h \in Tables /\ h.size \in Nat \ {0} /\ h.length \in Nat
      /\ h.table \in [0 .. h.size - 1 -> Pointers]
      /\ h.head \in Pointers /\ h.tail \in Pointers /\ h.k \in [Nodes -> Keys \cup {FREE}]
      /\ h.next \in [Nodes -> Pointers] /\ h.order \in [Nodes -> Pointers]
  BY DEF Typed, Tables
<1>2. PICK b : b = Bucket(h, h.k[n]) OBVIOUS
<1>3. b \in 0 .. h.size - 1
  <2>1. h.k[n] \in Keys \cup {FREE} BY <1>1
  <2> QED BY <1>1, <1>2, <2>1, BucketType
<1>4. PICK g : g = Insert(h, n) OBVIOUS
<1>5. g = IF h.tail = NULL
          THEN [h EXCEPT !.table = [@ EXCEPT ![b] = n], !.next = [@ EXCEPT ![n] = h.table[b]],
                         !.length = @ + 1, !.tail = n, !.head = n]
          ELSE [h EXCEPT !.table = [@ EXCEPT ![b] = n], !.next = [@ EXCEPT ![n] = h.table[b]],
                         !.length = @ + 1, !.tail = n, !.order = [@ EXCEPT ![h.tail] = n]]
  BY <1>1, <1>2, <1>4 DEF Insert, Tables
<1>6. /\ g.size = h.size /\ g.k = h.k
      /\ g.table = [h.table EXCEPT ![b] = n]
      /\ g.next = [h.next EXCEPT ![n] = h.table[b]]
      /\ g.length = h.length + 1
      /\ g.tail = n
      /\ g.head = IF h.tail = NULL THEN n ELSE h.head
      /\ g.order = IF h.tail = NULL THEN h.order ELSE [h.order EXCEPT ![h.tail] = n]
  BY <1>1, <1>5 DEF Tables
<1>7. /\ g.size \in Nat /\ g.length \in Nat /\ g.head \in Pointers /\ g.tail \in Pointers
      /\ g.k \in [Nodes -> Keys \cup {FREE}]
      /\ g.table \in [0 .. h.size - 1 -> Pointers]
      /\ g.next \in [Nodes -> Pointers] /\ g.order \in [Nodes -> Pointers]
  <2>1. n \in Pointers /\ h.table[b] \in Pointers BY <1>1, <1>3 DEF Pointers
  <2>2. g.size \in Nat /\ g.length \in Nat BY <1>1, <1>6
  <2>3. g.head \in Pointers /\ g.tail \in Pointers /\ g.k \in [Nodes -> Keys \cup {FREE}]
    BY <1>1, <1>6, <2>1
  <2>4. g.table \in [0 .. h.size - 1 -> Pointers] BY <1>1, <1>6, <2>1, ZenonT(60)
  <2>5. g.next \in [Nodes -> Pointers] BY <1>1, <1>6, <2>1
  <2>6. g.order \in [Nodes -> Pointers]
    <3>1. CASE h.tail = NULL BY <1>1, <1>6, <3>1
    <3>2. CASE h.tail # NULL
      <4>1. g.order = [h.order EXCEPT ![h.tail] = n] BY <1>6, <3>2
      <4> QED BY <1>1, <2>1, <4>1
    <3> QED BY <3>1, <3>2
  <2> QED BY <2>2, <2>3, <2>4, <2>5, <2>6
<1>8. g \in Tables
  <2>1. g.table \in UNION {[0 .. s - 1 -> Pointers] : s \in Nat} BY <1>1, <1>7
  <2>2. g = [table |-> g.table, size |-> g.size, length |-> g.length, head |-> g.head,
             tail |-> g.tail, k |-> g.k, next |-> g.next, order |-> g.order]
    BY <1>1, <1>5 DEF Tables
  <2> QED BY <1>7, <2>1, <2>2 DEF Tables
<1>9. Typed(g) BY <1>6, <1>7, <1>8 DEF Typed
<1> QED BY <1>2, <1>3, <1>4, <1>6, <1>9

LEMMA AppendFacts ==
  ASSUME NEW o \in Seq(Nodes), Distinct(o), NEW n \in Nodes, n \notin ToSet(o)
  PROVE  /\ Append(o, n) \in Seq(Nodes) /\ Distinct(Append(o, n))
         /\ Len(Append(o, n)) = Len(o) + 1 /\ Append(o, n)[Len(o) + 1] = n
         /\ \A i \in 1 .. Len(o) : Append(o, n)[i] = o[i]
         /\ ToSet(Append(o, n)) = ToSet(o) \cup {n}
<1>1. Len(o) \in Nat /\ \A i \in 1 .. Len(o) : o[i] \in Nodes /\ o[i] # n BY DEF ToSet
<1>2. PICK t : t = Append(o, n) OBVIOUS
<1>3. /\ t \in Seq(Nodes) /\ Len(t) = Len(o) + 1 /\ t[Len(o) + 1] = n
      /\ \A i \in 1 .. Len(o) : t[i] = o[i]
  BY <1>2
<1>4. \A i \in 1 .. Len(t) : i \in 1 .. Len(o) \/ i = Len(o) + 1 BY <1>1, <1>3
<1>5. Distinct(t) BY <1>1, <1>3, <1>4 DEF Distinct
<1>6. ToSet(t) = ToSet(o) \cup {n}
  <2>1. ASSUME NEW m \in ToSet(t) PROVE m \in ToSet(o) \cup {n}
    <3>1. PICK i \in 1 .. Len(t) : m = t[i] BY <1>3 DEF ToSet
    <3> QED BY <1>3, <1>4, <3>1 DEF ToSet
  <2>2. Len(o) + 1 \in 1 .. Len(t) /\ \A i \in 1 .. Len(o) : i \in 1 .. Len(t) BY <1>1, <1>3
  <2>3. n \in ToSet(t) BY <1>3, <2>2 DEF ToSet
  <2>4. ASSUME NEW m \in ToSet(o) PROVE m \in ToSet(t)
    <3>1. PICK i \in 1 .. Len(o) : m = o[i] BY DEF ToSet
    <3> QED BY <1>3, <2>2, <3>1 DEF ToSet
  <2> QED BY <2>1, <2>3, <2>4
<1> QED BY <1>2, <1>3, <1>5, <1>6

\* ht_set puts a node in front of its chain and behind the others.
LEMMA InsertKeeps ==
  ASSUME NEW h, NEW o, Filled(h, o), NEW n \in Nodes, n \notin ToSet(o)
  PROVE  Filled(Insert(h, n), Append(o, n))
<1>1. /\ Typed(h) /\ h.size # 0
      /\ o \in Seq(Nodes) /\ Distinct(o)
      /\ h.head = At(o, 1) /\ h.tail = At(o, Len(o)) /\ h.length = Len(o)
      /\ \A i \in 1 .. Len(o) - 1 : h.order[o[i]] = o[i + 1]
      /\ Chained(h, ToSet(o))
  BY DEF Filled
<1>2. /\ h.size \in Nat \ {0} /\ h.table \in [0 .. h.size - 1 -> Pointers]
      /\ h.next \in [Nodes -> Pointers] /\ h.order \in [Nodes -> Pointers]
  BY <1>1 DEF Typed, Tables
<1>3. PICK b : b = Bucket(h, h.k[n]) OBVIOUS
<1>4. PICK g : g = Insert(h, n) OBVIOUS
<1>5. /\ b \in 0 .. h.size - 1
      /\ Typed(g) /\ g.size = h.size /\ g.k = h.k
      /\ g.table = [h.table EXCEPT ![b] = n]
      /\ g.next = [h.next EXCEPT ![n] = h.table[b]]
      /\ g.length = h.length + 1
      /\ g.tail = n
      /\ g.head = IF h.tail = NULL THEN n ELSE h.head
      /\ g.order = IF h.tail = NULL THEN h.order ELSE [h.order EXCEPT ![h.tail] = n]
  BY <1>1, <1>3, <1>4, InsertFields, ZenonT(60)
<1>6. PICK t : t = Append(o, n) OBVIOUS
<1>7. /\ t \in Seq(Nodes) /\ Distinct(t)
      /\ Len(t) = Len(o) + 1 /\ t[Len(o) + 1] = n
      /\ \A i \in 1 .. Len(o) : t[i] = o[i]
      /\ ToSet(t) = ToSet(o) \cup {n}
  BY <1>1, <1>6, AppendFacts
<1>8. Len(o) \in Nat /\ \A i \in 1 .. Len(o) : o[i] \in Nodes BY <1>1
<1>9. h.tail = NULL <=> Len(o) = 0
  <2>1. CASE Len(o) = 0 BY <1>1, <2>1 DEF At
  <2>2. CASE Len(o) > 0
    <3>1. Len(o) \in 1 .. Len(o) BY <1>8, <2>2
    <3>2. h.tail = o[Len(o)] /\ o[Len(o)] \in Nodes BY <1>1, <1>8, <3>1 DEF At
    <3> QED BY <3>2, <2>2, HashTableAssumption
  <2> QED BY <1>8, <2>1, <2>2
<1>10. \A m : Bucket(g, m) = Bucket(h, m) BY <1>5 DEF Bucket
<1>11. Chained(g, ToSet(t))
  <2> SUFFICES ASSUME NEW c \in 0 .. h.size - 1
               PROVE  \E s : /\ List(g.next, g.table[c], s)
                             /\ ToSet(s) = {m \in ToSet(t) : Bucket(h, h.k[m]) = c}
    BY <1>5, <1>10 DEF Chained
  <2>1. PICK s : /\ List(h.next, h.table[c], s)
                 /\ ToSet(s) = {m \in ToSet(o) : Bucket(h, h.k[m]) = c}
    BY <1>1 DEF Chained
  <2>2. n \notin ToSet(s) BY <2>1
  <2>3. CASE c = b
    <3>1. PICK u : List([h.next EXCEPT ![n] = h.table[c]], n, u) /\ ToSet(u) = ToSet(s) \cup {n}
      BY <1>2, <2>1, <2>2, PushFront
    <3>2. g.table[c] = n /\ g.next = [h.next EXCEPT ![n] = h.table[c]] BY <1>2, <1>5, <2>3
    <3>3. ToSet(u) = {m \in ToSet(t) : Bucket(h, h.k[m]) = c} BY <1>3, <1>7, <2>1, <2>3, <3>1
    <3> QED BY <3>1, <3>2, <3>3
  <2>4. CASE c # b
    <3>1. h.table[b] \in Pointers BY <1>2, <1>5
    <3>2. List([h.next EXCEPT ![n] = h.table[b]], h.table[c], s)
      BY <1>2, <2>1, <2>2, <3>1, WriteElsewhere
    <3>3. g.table[c] = h.table[c] BY <1>2, <1>5, <2>4
    <3>4. ToSet(s) = {m \in ToSet(t) : Bucket(h, h.k[m]) = c} BY <1>3, <1>7, <2>1, <2>4
    <3> QED BY <1>5, <3>2, <3>3, <3>4
  <2> QED BY <2>3, <2>4
<1>12. g.head = At(t, 1)
  <2>1. 1 \in 1 .. Len(t) BY <1>7, <1>8
  <2>2. CASE Len(o) = 0 BY <1>5, <1>7, <1>9, <2>1, <2>2 DEF At
  <2>3. CASE Len(o) > 0
    <3>1. 1 \in 1 .. Len(o) BY <1>8, <2>3
    <3>2. h.head = o[1] BY <1>1, <3>1 DEF At
    <3>3. At(t, 1) = o[1] BY <1>7, <2>1, <3>1 DEF At
    <3>4. h.tail # NULL BY <1>8, <1>9, <2>3
    <3> QED BY <1>5, <3>2, <3>3, <3>4
  <2> QED BY <1>8, <2>2, <2>3
<1>13. g.tail = At(t, Len(t))
  <2>1. Len(t) \in 1 .. Len(t) BY <1>7, <1>8
  <2> QED BY <1>5, <1>7, <2>1 DEF At
<1>14. g.length = Len(t) BY <1>1, <1>5, <1>7
<1>15. ASSUME NEW i \in 1 .. Len(t) - 1 PROVE g.order[t[i]] = t[i + 1]
  <2>1. i \in 1 .. Len(o) /\ Len(o) > 0 BY <1>7, <1>8
  <2>2. Len(o) \in 1 .. Len(o) BY <1>8, <2>1
  <2>3. h.tail = o[Len(o)] /\ h.tail # NULL BY <1>1, <1>8, <1>9, <2>1, <2>2 DEF At
  <2>4. g.order = [h.order EXCEPT ![o[Len(o)]] = n] BY <1>5, <2>3
  <2>5. t[i] = o[i] /\ o[i] \in Nodes BY <1>7, <1>8, <2>1
  <2>6. CASE i = Len(o)
    <3>1. g.order[t[i]] = n BY <1>2, <2>4, <2>5, <2>6
    <3> QED BY <1>7, <2>6, <3>1
  <2>7. CASE i # Len(o)
    <3>1. i \in 1 .. Len(o) - 1 /\ i + 1 \in 1 .. Len(o) BY <1>8, <2>1, <2>7
    <3>2. o[i] # o[Len(o)] BY <1>1, <2>1, <2>2, <2>7 DEF Distinct
    <3>3. g.order[t[i]] = h.order[o[i]] BY <1>2, <2>4, <2>5, <3>2
    <3> QED BY <1>1, <1>7, <3>1, <3>3
  <2> QED BY <2>6, <2>7
<1>16. g.size # 0 BY <1>1, <1>5
<1>17. Filled(g, t) BY <1>5, <1>7, <1>11, <1>12, <1>13, <1>14, <1>15, <1>16 DEF Filled
<1> QED BY <1>4, <1>6, <1>17

\* A table that is asked for has at least the minimal number of buckets.
LEMMA InitialSize ==
  ASSUME NEW x \in Nat, NEW size \in InitialSizes(x)
  PROVE  size \in Nat /\ size >= MIN_SIZE /\ size # 0
<1>1. \A i \in Nat : 2 ^ i \in Int BY SMT
<1>2. PICK s \in Align(x) : size = IF s < MIN_SIZE THEN MIN_SIZE ELSE s BY DEF InitialSizes
<1>3. s \in Int
  <2>1. MaxShift \in Nat BY HashTableAssumption
  <2>2. CASE x = 0 BY <1>2, <2>2 DEF Align
  <2>3. CASE x = 1
    <3>1. s = 0 \/ \E i \in 0 .. MaxShift : s = 2 ^ i BY <1>2, <2>3 DEF Align
    <3> QED BY <1>1, <2>1, <3>1
  <2>4. CASE x # 0 /\ x # 1
    <3>1. \E i \in 0 .. 30 : s = 2 ^ i BY <1>2, <2>4 DEF Align
    <3> QED BY <1>1, <3>1
  <2> QED BY <2>2, <2>3, <2>4
<1>4. MIN_SIZE \in Nat \ {0} BY HashTableAssumption
<1> QED BY <1>2, <1>3, <1>4

\* An empty table.
LEMMA EmptyFields ==
  ASSUME NEW h, Typed(h), NEW size \in Nat
  PROVE  LET e == Empty(size, h)
         IN  /\ Typed(e) /\ e.size = size /\ e.length = 0
             /\ e.head = NULL /\ e.tail = NULL
             /\ e.table = [b \in 0 .. size - 1 |-> NULL]
             /\ e.k = h.k /\ e.next = h.next /\ e.order = h.order
             /\ Chained(e, {})
<1>1. h \in Tables BY DEF Typed
<1>2. PICK e : e = Empty(size, h) OBVIOUS
<1>3. /\ e.size = size /\ e.length = 0
      /\ e.head = NULL /\ e.tail = NULL
      /\ e.table = [b \in 0 .. size - 1 |-> NULL]
      /\ e.k = h.k /\ e.next = h.next /\ e.order = h.order
      /\ e = [table |-> e.table, size |-> e.size, length |-> e.length, head |-> e.head,
              tail |-> e.tail, k |-> e.k, next |-> e.next, order |-> e.order]
  BY <1>1, <1>2 DEF Empty, Tables
<1>4. NULL \in Pointers BY DEF Pointers
<1>5. e.table \in [0 .. size - 1 -> Pointers] BY <1>3, <1>4
<1>6. e.table \in UNION {[0 .. s - 1 -> Pointers] : s \in Nat} BY <1>5
<1>7. e.length \in Nat /\ e.k \in [Nodes -> Keys \cup {FREE}]
      /\ e.next \in [Nodes -> Pointers] /\ e.order \in [Nodes -> Pointers]
  BY <1>1, <1>3 DEF Tables
<1>8. e \in Tables BY <1>3, <1>4, <1>6, <1>7 DEF Tables
<1>9. Typed(e) BY <1>3, <1>5, <1>8 DEF Typed
<1>10. Chained(e, {})
  <2> SUFFICES ASSUME NEW b \in 0 .. size - 1
               PROVE  \E s : List(e.next, e.table[b], s) /\ ToSet(s) = {}
    BY <1>3 DEF Chained
  <2>1. e.table[b] = NULL BY <1>3
  <2>2. <<>> \in Seq(Nodes) /\ Len(<<>>) = 0 /\ \A i \in 1 .. 0 : FALSE OBVIOUS
  <2>3. List(e.next, e.table[b], <<>>) BY <2>1, <2>2 DEF List, Distinct, Path, At
  <2>4. ToSet(<<>>) = {} BY DEF ToSet
  <2> QED BY <2>3, <2>4
<1> QED BY <1>2, <1>3, <1>9, <1>10

\* ht_resize: the nodes are moved one after the other, and none is lost.
LEMMA ResizedKeeps ==
  ASSUME NEW h, NEW o, Filled(h, o), List(h.order, h.head, o), NEW r \in Resized(h)
  PROVE  Filled(r, o) /\ r.k = h.k /\ r.order = h.order /\ r.size >= MIN_SIZE
<1>1. /\ Typed(h) /\ h.size # 0
      /\ o \in Seq(Nodes) /\ Distinct(o)
      /\ \A i \in 1 .. Len(o) - 1 : h.order[o[i]] = o[i + 1]
  BY DEF Filled
<1>2. h.size \in Nat /\ h.order \in [Nodes -> Pointers] BY <1>1 DEF Typed, Tables
<1>3. Order(h) = o BY <1>2, WalkOfPath DEF Order
<1>4. PICK N \in Nat : N = Len(o) BY <1>1
<1>5. \A i \in 1 .. N : o[i] \in Nodes BY <1>1, <1>4
<1>6. PICK Start : Start = {Empty(size, h) : size \in InitialSizes(h.size * 2)} OBVIOUS
<1>7. ASSUME NEW e \in Start
      PROVE  Filled(e, <<>>) /\ e.k = h.k /\ e.order = h.order /\ e.size >= MIN_SIZE
  <2>1. PICK size \in InitialSizes(h.size * 2) : e = Empty(size, h) BY <1>6
  <2>2. h.size * 2 \in Nat BY <1>2
  <2>3. size \in Nat /\ size >= MIN_SIZE /\ size # 0 BY <2>2, InitialSize
  <2>4. /\ Typed(e) /\ e.size = size /\ e.length = 0
        /\ e.head = NULL /\ e.tail = NULL
        /\ e.k = h.k /\ e.next = h.next /\ e.order = h.order
        /\ Chained(e, {})
    BY <1>1, <2>1, <2>3, EmptyFields
  <2>5. PICK z : z = <<>> OBVIOUS
  <2>6. z \in Seq(Nodes) /\ Len(z) = 0 /\ ToSet(z) = {} BY <2>5 DEF ToSet
  <2>7. Distinct(z) /\ At(z, 1) = NULL /\ At(z, Len(z)) = NULL /\ 1 .. Len(z) - 1 = {}
    BY <2>6 DEF Distinct, At
  <2>8. Filled(e, z) BY <2>3, <2>4, <2>6, <2>7 DEF Filled
  <2> QED BY <2>3, <2>4, <2>5, <2>8
<1> DEFINE Ready == {t \in Tables : Typed(t) /\ t.size # 0}
           Sets == SUBSET Ready
           Into(i, X) == {Insert(g, o[i]) : g \in X}
           F == [i \in 1 .. N |-> [X \in Sets |-> Into(i, X)]]
           Defines(resize) ==
             resize = [i \in 0 .. Len(o) |->
                         IF i = 0 THEN {Empty(size, h) : size \in InitialSizes(h.size * 2)}
                         ELSE {Insert(g, o[i]) : g \in resize[i - 1]}]
<1>8. \E resize : Defines(resize)
  <2>1. Start \in Sets
    <3> SUFFICES ASSUME NEW e \in Start PROVE e \in Ready OBVIOUS
    <3>1. Filled(e, <<>>) BY <1>7
    <3> QED BY <3>1 DEF Filled, Typed
  <2>2. ASSUME NEW i \in 1 .. N, NEW X \in Sets PROVE Into(i, X) \in Sets
    <3> SUFFICES ASSUME NEW g \in Ready PROVE Insert(g, o[i]) \in Ready OBVIOUS
    <3>1. Typed(g) /\ g.size # 0 /\ o[i] \in Nodes BY <1>5
    <3>2. Typed(Insert(g, o[i])) /\ Insert(g, o[i]).size = g.size BY <3>1, InsertFields
    <3> QED BY <3>1, <3>2 DEF Typed
  <2>3. F \in [1 .. N -> [Sets -> Sets]]
    <3> HIDE DEF Sets, Into
    <3> QED BY <2>2
  <2>4. PICK G : G = F OBVIOUS
  <2>5. PICK T : T = Sets OBVIOUS
  <2>6. Steps(N, T, Start, G)
    <3> HIDE DEF Sets, F
    <3> QED BY <2>1, <2>3, <2>4, <2>5 DEF Steps
  <2>7. PICK f : Iterates(f, N, T, Start, G) BY <2>6, Recursion
  <2>8. f \in [0 .. N -> T] /\ f[0] = Start /\ \A i \in 1 .. N : f[i] = G[i][f[i - 1]]
    BY <2>7 DEF Iterates
  <2>9. ASSUME NEW i \in 1 .. N PROVE f[i] = Into(i, f[i - 1])
    <3> HIDE DEF Sets, Into
    <3>1. i - 1 \in 0 .. N OBVIOUS
    <3>2. f[i - 1] \in Sets BY <2>5, <2>8, <3>1
    <3>3. f[i] = F[i][f[i - 1]] BY <2>4, <2>8
    <3> QED BY <3>2, <3>3
  <2>10. ASSUME NEW i \in 0 .. N
         PROVE  f[i] = IF i = 0 THEN {Empty(size, h) : size \in InitialSizes(h.size * 2)}
                       ELSE {Insert(g, o[i]) : g \in f[i - 1]}
    <3>1. CASE i = 0 BY <1>6, <2>8, <3>1
    <3>2. CASE i # 0
      <4>1. i \in 1 .. N BY <3>2
      <4>2. f[i] = {Insert(g, o[i]) : g \in f[i - 1]} BY <2>9, <4>1
      <4> QED BY <3>2, <4>2
    <3> QED BY <3>1, <3>2
  <2>11. f = [i \in 0 .. N |-> f[i]] BY <2>8
  <2>12. Defines(f) BY <1>4, <2>10, <2>11
  <2> QED BY <2>12
<1> DEFINE resize == CHOOSE resize : Defines(resize)
<1>9. Defines(resize) BY <1>8
<1>10. Resized(h) = resize[Len(o)] BY <1>3 DEF Resized
<1> HIDE DEF resize
<1>11. resize[0] = Start /\ \A i \in 1 .. N : resize[i] = {Insert(g, o[i]) : g \in resize[i - 1]}
  <2>1. 0 \in 0 .. Len(o) BY <1>4
  <2>2. resize[0] = Start BY <1>6, <1>9, <2>1
  <2>3. ASSUME NEW i \in 1 .. N PROVE resize[i] = {Insert(g, o[i]) : g \in resize[i - 1]}
    <3>1. i \in 0 .. Len(o) /\ i # 0 BY <1>4
    <3> QED BY <1>9, <3>1
  <2> QED BY <2>2, <2>3
<1> DEFINE Fine(g, i) == /\ Filled(g, SubSeq(o, 1, i)) /\ g.k = h.k
                         /\ g.order = h.order /\ g.size >= MIN_SIZE
           P == {i \in 0 .. N : \A g \in resize[i] : Fine(g, i)}
<1>12. 0 \in P
  <2>1. SubSeq(o, 1, 0) = <<>> BY <1>1
  <2>2. ASSUME NEW e \in resize[0] PROVE Fine(e, 0)
    <3>1. e \in Start BY <1>11
    <3> QED BY <1>7, <2>1, <3>1
  <2> QED BY <2>2
<1>13. ASSUME NEW i \in 1 .. N, i - 1 \in P PROVE i \in P
  <2> SUFFICES ASSUME NEW g \in resize[i] PROVE Fine(g, i) OBVIOUS
  <2>1. PICK f \in resize[i - 1] : g = Insert(f, o[i]) BY <1>11
  <2>2. PICK s : s = SubSeq(o, 1, i - 1) OBVIOUS
  <2>3. Filled(f, s) /\ f.k = h.k /\ f.order = h.order /\ f.size >= MIN_SIZE BY <1>13, <2>1, <2>2
  <2>4. i \in 1 .. Len(o) /\ i - 1 \in 0 .. Len(o) /\ o[i] \in Nodes BY <1>4, <1>5
  <2>5. s \in Seq(Nodes) /\ Len(s) = i - 1 /\ \A j \in 1 .. i - 1 : s[j] = o[j] BY <1>1, <2>2, <2>4
  <2>6. o[i] \notin ToSet(s)
    <3> SUFFICES ASSUME NEW j \in 1 .. i - 1, o[i] = s[j] PROVE FALSE BY <2>5 DEF ToSet
    <3>1. j \in 1 .. Len(o) /\ o[j] = o[i] /\ j # i BY <2>4, <2>5
    <3> QED BY <1>1, <2>4, <3>1 DEF Distinct
  <2>7. Append(s, o[i]) = SubSeq(o, 1, i) BY <1>1, <2>2, <2>4
  <2>8. Filled(g, SubSeq(o, 1, i)) BY <2>1, <2>3, <2>4, <2>6, <2>7, InsertKeeps
  <2>9. Typed(f) /\ f.size # 0 /\ f.tail = At(s, Len(s)) BY <2>3 DEF Filled
  <2>10. /\ g.size = f.size /\ g.k = f.k
         /\ g.order = IF f.tail = NULL THEN f.order ELSE [f.order EXCEPT ![f.tail] = o[i]]
    BY <2>1, <2>4, <2>9, InsertFields
  <2>11. g.order = h.order
    <3>1. CASE i = 1
      <4>1. f.tail = NULL BY <2>5, <2>9, <3>1 DEF At
      <4> QED BY <2>3, <2>10, <4>1
    <3>2. CASE i # 1
      <4>1. i - 1 \in 1 .. Len(o) - 1 /\ i - 1 \in 1 .. Len(s) /\ (i - 1) + 1 = i BY <2>4, <2>5, <3>2
      <4>2. f.tail = o[i - 1] BY <2>5, <2>9, <4>1 DEF At
      <4>3. h.order[o[i - 1]] = o[i] BY <1>1, <4>1
      <4>4. o[i - 1] \in Nodes BY <1>1, <4>1
      <4>5. [h.order EXCEPT ![o[i - 1]] = o[i]] = h.order BY <1>2, <4>3, <4>4
      <4> QED BY <2>3, <2>10, <4>2, <4>5
    <3> QED BY <3>1, <3>2
  <2> QED BY <2>3, <2>8, <2>10, <2>11
<1>14. \A i \in 1 .. N : i - 1 \in P => i \in P BY <1>13
<1> HIDE DEF P
<1>15. \A i \in 0 .. N : i \in P BY <1>12, <1>14, UpTo
<1>16. N \in P BY <1>15
<1>17. SubSeq(o, 1, Len(o)) = o BY <1>1
<1> QED BY <1>4, <1>10, <1>16, <1>17 DEF P

-----------------------------------------------------------------------------
(* The invariant.                                                          *)

NodesInUse(h) == {n \in Nodes : h.k[n] # FREE}

\* The order list holds the nodes in use, and only them until one is deleted.
Ordered(h, unbroken) ==
  \E o : /\ List(h.order, h.head, o)
         /\ NodesInUse(h) \subseteq ToSet(o)
         /\ unbroken = TRUE => /\ ToSet(o) = NodesInUse(h)
                               /\ h.length = Len(o) /\ h.tail = At(o, Len(o))

KeysDiffer(h) == \A m, n \in NodesInUse(h) : h.k[m] = h.k[n] => m = n

Sound(h, unbroken) ==
  /\ Typed(h) /\ unbroken \in BOOLEAN
  /\ h.size # 0 => h.size >= MIN_SIZE
  /\ h.size = 0 => NodesInUse(h) = {} /\ h.head = NULL /\ h.tail = NULL /\ h.length = 0
  /\ Chained(h, NodesInUse(h))
  /\ KeysDiffer(h)
  /\ Ordered(h, unbroken)

Inv == Sound(ht, intact)

\* A table without nodes in use is sound.
LEMMA EmptyIsSound ==
  ASSUME NEW h, Typed(h), Chained(h, {}), NodesInUse(h) = {}, NEW unbroken \in BOOLEAN,
         h.size # 0 => h.size >= MIN_SIZE,
         h.head = NULL, h.tail = NULL, h.length = 0
  PROVE  Sound(h, unbroken)
<1>1. PICK z : z = <<>> OBVIOUS
<1>2. z \in Seq(Nodes) /\ Len(z) = 0 /\ ToSet(z) = {} BY <1>1 DEF ToSet
<1>3. Distinct(z) /\ At(z, 1) = NULL /\ At(z, Len(z)) = NULL /\ 1 .. Len(z) = {}
  BY <1>2 DEF Distinct, At
<1>4. List(h.order, h.head, z) BY <1>2, <1>3 DEF List, Path
<1>5. Ordered(h, unbroken) BY <1>2, <1>3, <1>4 DEF Ordered
<1>6. KeysDiffer(h) BY DEF KeysDiffer
<1> QED BY <1>5, <1>6 DEF Sound

\* The loop of lgx_ht_get finds the node with the key wherever it is.
LEMMA FindIsRight ==
  ASSUME NEW h, NEW unbroken, Sound(h, unbroken), h.size # 0, NEW k \in Keys
  PROVE  /\ Bucket(h, k) \in 0 .. h.size - 1
         /\ Find(h, k) = {n \in NodesInUse(h) : h.k[n] = k}
<1>1. /\ h.size \in Nat \ {0} /\ h.k \in [Nodes -> Keys \cup {FREE}]
      /\ h.next \in [Nodes -> Pointers] /\ Chained(h, NodesInUse(h)) /\ KeysDiffer(h)
  BY DEF Sound, Typed, Tables
<1>2. PICK b \in 0 .. h.size - 1 : b = Bucket(h, k) BY <1>1, BucketType
<1>3. PICK s : /\ List(h.next, h.table[b], s)
               /\ ToSet(s) = {n \in NodesInUse(h) : Bucket(h, h.k[n]) = b}
  BY <1>1 DEF Chained
<1>4. Chain(h, b) = s BY <1>1, <1>3, WalkOfPath DEF Chain
<1>5. s \in Seq(Nodes) /\ Distinct(s) BY <1>3 DEF List
<1>6. PICK matches : matches = {i \in 1 .. Len(s) : lgx_str_cmp(h.k[s[i]], k) = 0} OBVIOUS
<1>7. ASSUME NEW i \in 1 .. Len(s)
      PROVE  /\ s[i] \in NodesInUse(h) /\ h.k[s[i]] \in Keys
             /\ i \in matches <=> h.k[s[i]] = k
  <2>1. s[i] \in ToSet(s) BY <1>5 DEF ToSet
  <2>2. s[i] \in Nodes /\ s[i] \in NodesInUse(h) BY <1>3, <2>1 DEF NodesInUse
  <2>3. h.k[s[i]] \in Keys BY <1>1, <2>2 DEF NodesInUse
  <2>4. lgx_str_cmp(h.k[s[i]], k) = 0 <=> h.k[s[i]] = k BY <2>3, ComparesRight
  <2> QED BY <1>6, <2>2, <2>3, <2>4
<1>8. Find(h, k) = {s[i] : i \in {i \in matches : \A j \in matches : i <= j}}
  BY <1>2, <1>4, <1>6 DEF Find
<1>9. ASSUME NEW n \in Find(h, k) PROVE n \in NodesInUse(h) /\ h.k[n] = k
  <2>1. PICK i \in matches : n = s[i] BY <1>8
  <2>2. i \in 1 .. Len(s) BY <1>6
  <2> QED BY <1>7, <2>1, <2>2
<1>10. ASSUME NEW n \in NodesInUse(h), h.k[n] = k PROVE n \in Find(h, k)
  <2>1. n \in ToSet(s) BY <1>2, <1>3, <1>10
  <2>2. PICK i \in 1 .. Len(s) : s[i] = n BY <1>5, <2>1 DEF ToSet
  <2>3. i \in matches BY <1>7, <1>10, <2>2
  <2>4. ASSUME NEW j \in matches PROVE i <= j
    <3>1. j \in 1 .. Len(s) BY <1>6
    <3>2. h.k[s[j]] = h.k[n] /\ s[j] \in NodesInUse(h) BY <1>7, <1>10, <3>1
    <3>3. s[j] = s[i] BY <1>1, <2>2, <3>2 DEF KeysDiffer
    <3>4. j = i BY <1>5, <3>1, <3>3 DEF Distinct
    <3> QED BY <1>5, <3>4
  <2> QED BY <1>8, <2>2, <2>3, <2>4
<1> QED BY <1>2, <1>9, <1>10

\* The table with a new node, not yet inserted.
Prepared(h, n, k) == [h EXCEPT !.k[n] = k, !.next[n] = NULL, !.order[n] = NULL]

LEMMA PreparedFields ==
  ASSUME NEW h, Typed(h), NEW n \in Nodes, NEW k \in Keys
  PROVE  LET w == Prepared(h, n, k)
         IN  /\ Typed(w) /\ w.size = h.size /\ w.length = h.length /\ w.table = h.table
             /\ w.head = h.head /\ w.tail = h.tail
             /\ w.k = [h.k EXCEPT ![n] = k]
             /\ w.next = [h.next EXCEPT ![n] = NULL]
             /\ w.order = [h.order EXCEPT ![n] = NULL]
<1>1. h \in Tables /\ h.table \in [0 .. h.size - 1 -> Pointers] BY DEF Typed
<1>2. PICK w : w = Prepared(h, n, k) OBVIOUS
<1>3. /\ w.size = h.size /\ w.length = h.length /\ w.table = h.table
      /\ w.head = h.head /\ w.tail = h.tail
      /\ w.k = [h.k EXCEPT ![n] = k]
      /\ w.next = [h.next EXCEPT ![n] = NULL]
      /\ w.order = [h.order EXCEPT ![n] = NULL]
      /\ w = [table |-> w.table, size |-> w.size, length |-> w.length, head |-> w.head,
              tail |-> w.tail, k |-> w.k, next |-> w.next, order |-> w.order]
  BY <1>1, <1>2 DEF Prepared, Tables
<1>4. NULL \in Pointers BY DEF Pointers
<1>5. /\ h.k \in [Nodes -> Keys \cup {FREE}]
      /\ h.next \in [Nodes -> Pointers] /\ h.order \in [Nodes -> Pointers]
  BY <1>1 DEF Tables
<1>6. w.k \in [Nodes -> Keys \cup {FREE}] BY <1>3, <1>5
<1>7. w.next \in [Nodes -> Pointers] BY <1>3, <1>4, <1>5
<1>8. w.order \in [Nodes -> Pointers] BY <1>3, <1>4, <1>5
<1>9. w \in Tables BY <1>1, <1>3, <1>6, <1>7, <1>8 DEF Tables
<1>10. Typed(w) BY <1>1, <1>3, <1>9 DEF Typed
<1> QED BY <1>2, <1>3, <1>10

\* lgx_ht_set, with or without a growth of the table.
LEMMA SetKeeps ==
  ASSUME NEW h, NEW unbroken, unbroken = TRUE, Sound(h, unbroken), h.size # 0,
         NEW k \in Keys, Find(h, k) = {}, NEW n \in Nodes, h.k[n] = FREE,
         NEW g \in {Insert(Prepared(h, n, k), n)} \cup Resized(Insert(Prepared(h, n, k), n))
  PROVE  /\ Sound(g, unbroken)
         /\ g.k = [h.k EXCEPT ![n] = k]
         /\ \E o : /\ List(h.order, h.head, o) /\ ToSet(o) = NodesInUse(h)
                   /\ List(g.order, g.head, Append(o, n))
<1>1. /\ Typed(h) /\ h.size >= MIN_SIZE /\ Chained(h, NodesInUse(h)) /\ KeysDiffer(h)
      /\ Ordered(h, unbroken)
  BY DEF Sound
<1>2. /\ h.size \in Nat \ {0} /\ h.k \in [Nodes -> Keys \cup {FREE}]
      /\ h.table \in [0 .. h.size - 1 -> Pointers]
      /\ h.next \in [Nodes -> Pointers] /\ h.order \in [Nodes -> Pointers]
  BY <1>1 DEF Typed, Tables
<1>3. PICK o : /\ List(h.order, h.head, o) /\ ToSet(o) = NodesInUse(h)
               /\ h.length = Len(o) /\ h.tail = At(o, Len(o))
  BY <1>1 DEF Ordered
<1>4. /\ o \in Seq(Nodes) /\ Distinct(o)
      /\ h.head = At(o, 1) /\ \A i \in 1 .. Len(o) : h.order[o[i]] = At(o, i + 1)
  BY <1>3 DEF List, Path
<1>5. Len(o) \in Nat /\ \A i \in 1 .. Len(o) : o[i] \in Nodes /\ o[i] \in ToSet(o)
  BY <1>4 DEF ToSet
<1>6. n \notin ToSet(o) BY <1>3 DEF NodesInUse
<1>7. PICK w : w = Prepared(h, n, k) OBVIOUS
<1>8. /\ Typed(w) /\ w.size = h.size /\ w.length = h.length /\ w.table = h.table
      /\ w.head = h.head /\ w.tail = h.tail
      /\ w.k = [h.k EXCEPT ![n] = k]
      /\ w.next = [h.next EXCEPT ![n] = NULL]
      /\ w.order = [h.order EXCEPT ![n] = NULL]
  BY <1>1, <1>7, PreparedFields
<1>9. Filled(w, o)
  <2>1. ASSUME NEW i \in 1 .. Len(o) - 1 PROVE w.order[o[i]] = o[i + 1]
    <3>1. i \in 1 .. Len(o) /\ i + 1 \in 1 .. Len(o) BY <1>5
    <3>2. o[i] # n /\ o[i] \in Nodes BY <1>5, <1>6, <3>1
    <3>3. h.order[o[i]] = o[i + 1] BY <1>4, <3>1 DEF At
    <3> QED BY <1>2, <1>8, <3>2, <3>3
  <2>2. \A m \in ToSet(o) : w.k[m] = h.k[m] BY <1>2, <1>3, <1>6, <1>8 DEF NodesInUse
  <2>3. \A x : Bucket(w, x) = Bucket(h, x) BY <1>8 DEF Bucket
  <2>4. Chained(w, ToSet(o))
    <3> SUFFICES ASSUME NEW b \in 0 .. h.size - 1
                 PROVE  \E s : /\ List(w.next, w.table[b], s)
                               /\ ToSet(s) = {m \in ToSet(o) : Bucket(w, w.k[m]) = b}
      BY <1>8 DEF Chained
    <3>1. PICK s : /\ List(h.next, h.table[b], s)
                   /\ ToSet(s) = {m \in ToSet(o) : Bucket(h, h.k[m]) = b}
      BY <1>1, <1>3 DEF Chained
    <3>2. n \notin ToSet(s) BY <1>6, <3>1
    <3>3. NULL \in Pointers BY DEF Pointers
    <3>4. List([h.next EXCEPT ![n] = NULL], h.table[b], s)
      BY <1>2, <3>1, <3>2, <3>3, WriteElsewhere
    <3>5. ToSet(s) = {m \in ToSet(o) : Bucket(w, w.k[m]) = b} BY <2>2, <2>3, <3>1
    <3> QED BY <1>8, <3>4, <3>5
  <2>5. /\ w.head = At(o, 1) /\ w.tail = At(o, Len(o)) /\ w.length = Len(o) /\ w.size # 0
    BY <1>3, <1>4, <1>8
  <2> QED BY <1>4, <1>8, <2>1, <2>4, <2>5 DEF Filled
<1>10. PICK f : f = Insert(w, n) OBVIOUS
<1>11. PICK t : t = Append(o, n) OBVIOUS
<1>12. Filled(f, t) BY <1>6, <1>9, <1>10, <1>11, InsertKeeps
<1>13. /\ t \in Seq(Nodes) /\ Distinct(t)
       /\ Len(t) = Len(o) + 1 /\ t[Len(o) + 1] = n
       /\ \A i \in 1 .. Len(o) : t[i] = o[i]
       /\ ToSet(t) = ToSet(o) \cup {n}
  BY <1>4, <1>6, <1>11, AppendFacts
<1>14. /\ f.size = w.size /\ f.k = w.k
       /\ f.order = IF w.tail = NULL THEN w.order ELSE [w.order EXCEPT ![w.tail] = n]
  <2>1. Typed(w) /\ w.size # 0 BY <1>2, <1>8
  <2> QED BY <1>10, <2>1, InsertFields
<1>15. f.order[n] = NULL
  <2>1. w.order[n] = NULL BY <1>2, <1>8
  <2>2. w.tail # n
    <3>1. CASE Len(o) \in 1 .. Len(o) BY <1>3, <1>5, <1>6, <1>8, <3>1 DEF At
    <3>2. CASE Len(o) \notin 1 .. Len(o) BY <1>3, <1>8, <3>2, HashTableAssumption DEF At
    <3> QED BY <3>1, <3>2
  <2>3. w.order \in [Nodes -> Pointers] BY <1>8 DEF Typed, Tables
  <2> QED BY <1>14, <2>1, <2>2, <2>3
<1>16. List(f.order, f.head, t)
  <2>1. f.head = At(t, 1) /\ \A i \in 1 .. Len(t) - 1 : f.order[t[i]] = t[i + 1] BY <1>12 DEF Filled
  <2>2. ASSUME NEW i \in 1 .. Len(t) PROVE f.order[t[i]] = At(t, i + 1)
    <3>1. CASE i = Len(t)
      <4>1. t[i] = n /\ i + 1 \notin 1 .. Len(t) BY <1>5, <1>13, <3>1
      <4> QED BY <1>15, <4>1 DEF At
    <3>2. CASE i # Len(t)
      <4>1. i \in 1 .. Len(t) - 1 /\ i + 1 \in 1 .. Len(t) BY <1>5, <1>13, <3>2
      <4> QED BY <2>1, <4>1 DEF At
    <3> QED BY <3>1, <3>2
  <2> QED BY <1>13, <2>1, <2>2 DEF List, Path
<1>17. Filled(g, t) /\ g.k = f.k /\ g.order = f.order /\ g.size >= MIN_SIZE
  <2>1. CASE g = f BY <1>1, <1>8, <1>12, <1>14, <2>1
  <2>2. CASE g \in Resized(f) BY <1>12, <1>16, <2>2, ResizedKeeps
  <2> QED BY <1>7, <1>10, <2>1, <2>2
<1>18. g.k = [h.k EXCEPT ![n] = k] BY <1>8, <1>14, <1>17
<1>19. /\ Typed(g) /\ g.size # 0 /\ g.head = At(t, 1) /\ g.tail = At(t, Len(t))
       /\ g.length = Len(t) /\ Chained(g, ToSet(t))
  BY <1>17 DEF Filled
<1>20. List(g.order, g.head, t)
  <2>1. f.head = At(t, 1) BY <1>12 DEF Filled
  <2> QED BY <1>16, <1>17, <1>19, <2>1
<1>21. NodesInUse(g) = ToSet(t)
  <2>1. k # FREE BY HashTableAssumption DEF FREE
  <2>2. ASSUME NEW m \in Nodes PROVE g.k[m] # FREE <=> m = n \/ h.k[m] # FREE
    BY <1>2, <1>18, <2>1
  <2>3. ToSet(t) = NodesInUse(h) \cup {n} BY <1>3, <1>13
  <2> QED BY <2>2, <2>3 DEF NodesInUse
<1>22. KeysDiffer(g)
  <2>1. \A m \in NodesInUse(h) : h.k[m] # k
    <3>1. Find(h, k) = {m \in NodesInUse(h) : h.k[m] = k} BY FindIsRight
    <3> QED BY <3>1
  <2>2. NodesInUse(g) = NodesInUse(h) \cup {n} /\ n \notin NodesInUse(h) /\ NodesInUse(h) \subseteq Nodes
    BY <1>3, <1>6, <1>13, <1>21 DEF NodesInUse
  <2>3. g.k[n] = k /\ \A m \in NodesInUse(h) : g.k[m] = h.k[m] BY <1>2, <1>18, <2>2
  <2> QED BY <1>1, <2>1, <2>2, <2>3 DEF KeysDiffer
<1>23. Ordered(g, unbroken) BY <1>19, <1>20, <1>21 DEF Ordered
<1>24. Sound(g, unbroken) BY <1>17, <1>19, <1>21, <1>22, <1>23 DEF Sound
<1> QED BY <1>3, <1>11, <1>18, <1>20, <1>24

\* The table without the node n.
Without(h, n, b) ==
  [h EXCEPT !.k[n] = FREE, !.table[b] = IF @ = n THEN h.next[n] ELSE @, !.next = Bypassed(n, @)]

LEMMA WithoutFields ==
  ASSUME NEW h, Typed(h), NEW n \in Nodes, NEW b \in 0 .. h.size - 1
  PROVE  LET g == Without(h, n, b)
         IN  /\ Typed(g) /\ g.size = h.size /\ g.length = h.length
             /\ g.head = h.head /\ g.tail = h.tail /\ g.order = h.order
             /\ g.k = [h.k EXCEPT ![n] = FREE]
             /\ g.table = [h.table EXCEPT ![b] = IF h.table[b] = n THEN h.next[n] ELSE h.table[b]]
             /\ g.next = Bypassed(n, h.next)
<1>1. h \in Tables /\ h.table \in [0 .. h.size - 1 -> Pointers] /\ h.size \in Nat BY DEF Typed, Tables
<1>2. PICK g : g = Without(h, n, b) OBVIOUS
<1>3. /\ g.size = h.size /\ g.length = h.length
      /\ g.head = h.head /\ g.tail = h.tail /\ g.order = h.order
      /\ g.k = [h.k EXCEPT ![n] = FREE]
      /\ g.table = [h.table EXCEPT ![b] = IF h.table[b] = n THEN h.next[n] ELSE h.table[b]]
      /\ g.next = Bypassed(n, h.next)
      /\ g = [table |-> g.table, size |-> g.size, length |-> g.length, head |-> g.head,
              tail |-> g.tail, k |-> g.k, next |-> g.next, order |-> g.order]
  BY <1>1, <1>2 DEF Without, Tables
<1>4. h.k \in [Nodes -> Keys \cup {FREE}] /\ h.next \in [Nodes -> Pointers] BY <1>1 DEF Tables
<1>5. g.k \in [Nodes -> Keys \cup {FREE}] BY <1>3, <1>4
<1>6. g.next \in [Nodes -> Pointers] BY <1>3, <1>4 DEF Bypassed
<1>7. g.table \in [0 .. h.size - 1 -> Pointers] BY <1>1, <1>3, <1>4
<1>8. g.table \in UNION {[0 .. s - 1 -> Pointers] : s \in Nat} BY <1>1, <1>7
<1>9. g \in Tables BY <1>1, <1>3, <1>5, <1>6, <1>8 DEF Tables
<1>10. Typed(g) BY <1>3, <1>7, <1>9 DEF Typed
<1> QED BY <1>2, <1>3, <1>10

\* The node that lgx_ht_del takes out, and what it leaves alone.
LEMMA DelFields ==
  ASSUME NEW h, NEW unbroken, Sound(h, unbroken), h.size # 0, NEW k \in Keys,
         NEW n \in Find(h, k)
  PROVE  LET b == Bucket(h, k)
             g == Without(h, n, b)
         IN  /\ b \in 0 .. h.size - 1
             /\ n \in NodesInUse(h) /\ h.k[n] = k
             /\ Typed(g) /\ g.size = h.size /\ g.length = h.length
             /\ g.head = h.head /\ g.tail = h.tail /\ g.order = h.order
             /\ g.k = [h.k EXCEPT ![n] = FREE]
             /\ g.table = [h.table EXCEPT ![b] = IF h.table[b] = n THEN h.next[n] ELSE h.table[b]]
             /\ g.next = Bypassed(n, h.next)
<1>1. Typed(h) BY DEF Sound
<1>2. Bucket(h, k) \in 0 .. h.size - 1 /\ Find(h, k) = {m \in NodesInUse(h) : h.k[m] = k}
  BY FindIsRight
<1>3. n \in NodesInUse(h) /\ n \in Nodes /\ h.k[n] = k BY <1>2 DEF NodesInUse
<1> QED BY <1>1, <1>2, <1>3, WithoutFields

\* What the order list and the keys are after that.
TakenOut(h, n, k, g) ==
  /\ n \in NodesInUse(h) /\ h.k[n] = k
  /\ g.k = [h.k EXCEPT ![n] = FREE]
  /\ g.order = h.order /\ g.head = h.head

LEMMA DelTakesOut ==
  ASSUME NEW h, NEW unbroken, Sound(h, unbroken), h.size # 0, NEW k \in Keys,
         NEW n \in Find(h, k), NEW g, g = Without(h, n, Bucket(h, k))
  PROVE  TakenOut(h, n, k, g)
<1>1. PICK b : b = Bucket(h, k) OBVIOUS
<1>2. /\ b \in 0 .. h.size - 1
      /\ n \in NodesInUse(h) /\ h.k[n] = k
      /\ Typed(g) /\ g.size = h.size /\ g.length = h.length
      /\ g.head = h.head /\ g.tail = h.tail /\ g.order = h.order
      /\ g.k = [h.k EXCEPT ![n] = FREE]
      /\ g.table = [h.table EXCEPT ![b] = IF h.table[b] = n THEN h.next[n] ELSE h.table[b]]
      /\ g.next = Bypassed(n, h.next)
  BY <1>1, DelFields
<1> QED BY <1>2 DEF TakenOut

\* lgx_ht_del takes its node out of its chain and no other.
LEMMA DelKeeps ==
  ASSUME NEW h, NEW unbroken, Sound(h, unbroken), h.size # 0, NEW k \in Keys,
         NEW n \in Find(h, k), NEW g, g = Without(h, n, Bucket(h, k)), NEW no, no = FALSE
  PROVE  Sound(g, no)
<1>1. /\ Typed(h) /\ h.size >= MIN_SIZE /\ Chained(h, NodesInUse(h)) /\ KeysDiffer(h)
      /\ Ordered(h, unbroken)
  BY DEF Sound
<1>2. /\ h.size \in Nat \ {0} /\ h.k \in [Nodes -> Keys \cup {FREE}]
      /\ h.table \in [0 .. h.size - 1 -> Pointers]
      /\ h.next \in [Nodes -> Pointers] /\ h.order \in [Nodes -> Pointers]
  BY <1>1 DEF Typed, Tables
<1>3. PICK b : b = Bucket(h, k) OBVIOUS
<1>4. /\ b \in 0 .. h.size - 1
      /\ n \in NodesInUse(h) /\ h.k[n] = k
      /\ Typed(g) /\ g.size = h.size /\ g.length = h.length
      /\ g.head = h.head /\ g.tail = h.tail /\ g.order = h.order
      /\ g.k = [h.k EXCEPT ![n] = FREE]
      /\ g.table = [h.table EXCEPT ![b] = IF h.table[b] = n THEN h.next[n] ELSE h.table[b]]
      /\ g.next = Bypassed(n, h.next)
  BY <1>3, DelFields
<1>5. n \in NodesInUse(h) /\ n \in Nodes /\ h.k[n] = k BY <1>4 DEF NodesInUse
<1>6. /\ Typed(g) /\ g.size = h.size /\ g.length = h.length
      /\ g.head = h.head /\ g.tail = h.tail /\ g.order = h.order
      /\ g.k = [h.k EXCEPT ![n] = FREE]
      /\ g.table = [h.table EXCEPT ![b] = IF h.table[b] = n THEN h.next[n] ELSE h.table[b]]
      /\ g.next = Bypassed(n, h.next)
  BY <1>4
<1>7. NodesInUse(g) = NodesInUse(h) \ {n}
  <2>1. ASSUME NEW m \in Nodes PROVE g.k[m] # FREE <=> m # n /\ h.k[m] # FREE BY <1>2, <1>5, <1>6
  <2> QED BY <2>1 DEF NodesInUse
<1>8. \A m \in NodesInUse(g) : g.k[m] = h.k[m] BY <1>2, <1>6, <1>7 DEF NodesInUse
<1>9. \A x : Bucket(g, x) = Bucket(h, x) BY <1>6 DEF Bucket
<1>10. Chained(g, NodesInUse(g))
  <2> SUFFICES ASSUME NEW c \in 0 .. h.size - 1
               PROVE  \E s : /\ List(g.next, g.table[c], s)
                             /\ ToSet(s) = {m \in NodesInUse(g) : Bucket(g, g.k[m]) = c}
    BY <1>6 DEF Chained
  <2>1. PICK s : /\ List(h.next, h.table[c], s)
                 /\ ToSet(s) = {m \in NodesInUse(h) : Bucket(h, h.k[m]) = c}
    BY <1>1 DEF Chained
  <2>2. {m \in NodesInUse(g) : Bucket(g, g.k[m]) = c} = ToSet(s) \ {n}
    BY <1>7, <1>8, <1>9, <2>1
  <2>3. CASE c = b
    <3>1. n \in ToSet(s) BY <1>3, <1>5, <2>1, <2>3
    <3>2. PICK t : /\ List(Bypassed(n, h.next), IF h.table[c] = n THEN h.next[n] ELSE h.table[c], t)
                   /\ ToSet(t) = ToSet(s) \ {n}
      BY <1>2, <2>1, <3>1, TakeOut
    <3>3. g.table[c] = IF h.table[c] = n THEN h.next[n] ELSE h.table[c] BY <1>2, <1>6, <2>3
    <3> QED BY <1>6, <2>2, <3>2, <3>3
  <2>4. CASE c # b
    <3>1. n \notin ToSet(s) BY <1>3, <1>5, <2>1, <2>4
    <3>2. List(Bypassed(n, h.next), h.table[c], s) BY <1>2, <1>5, <2>1, <3>1, TakeOutElsewhere
    <3>3. g.table[c] = h.table[c] BY <1>2, <1>6, <2>4
    <3>4. ToSet(s) \ {n} = ToSet(s) BY <3>1
    <3> QED BY <1>6, <2>2, <3>2, <3>3, <3>4
  <2> QED BY <2>3, <2>4
<1>11. KeysDiffer(g) BY <1>1, <1>7, <1>8 DEF KeysDiffer
<1>12. Ordered(g, no)
  <2>1. PICK o : List(h.order, h.head, o) /\ NodesInUse(h) \subseteq ToSet(o) BY <1>1 DEF Ordered
  <2> QED BY <1>6, <1>7, <2>1 DEF Ordered
<1>13. g.size # 0 /\ g.size >= MIN_SIZE BY <1>1, <1>2, <1>6
<1>14. Sound(g, no) BY <1>6, <1>10, <1>11, <1>12, <1>13 DEF Sound
<1> QED BY <1>14

\* lgx_ht_cleanup frees every node.
Cleaned(h) ==
  LET left == NodesInUse(h) \ UNION {ToSet(Chain(h, b)) : b \in 0 .. h.size - 1}
  IN  [Empty(0, h) EXCEPT !.k = [n \in Nodes |-> IF n \in left THEN @[n] ELSE FREE],
                          !.next = [n \in Nodes |-> NULL],
                          !.order = [n \in Nodes |-> NULL]]

LEMMA CleanupKeeps ==
  ASSUME NEW h, NEW unbroken, Sound(h, unbroken), NEW g, g = Cleaned(h)
  PROVE  Sound(g, unbroken) /\ g.head = NULL
<1>1. /\ Typed(h) /\ Chained(h, NodesInUse(h)) /\ unbroken \in BOOLEAN
      /\ h.size = 0 => NodesInUse(h) = {}
  BY DEF Sound
<1>2. /\ h.size \in Nat /\ h.next \in [Nodes -> Pointers] /\ h.k \in [Nodes -> Keys \cup {FREE}]
  BY <1>1 DEF Typed, Tables
<1>3. ASSUME NEW n \in NodesInUse(h) PROVE \E b \in 0 .. h.size - 1 : n \in ToSet(Chain(h, b))
  <2>1. h.k[n] \in Keys \cup {FREE} /\ h.size \in Nat \ {0} BY <1>1, <1>2 DEF NodesInUse
  <2>2. PICK b \in 0 .. h.size - 1 : b = Bucket(h, h.k[n]) BY <2>1, BucketType
  <2>3. PICK s : /\ List(h.next, h.table[b], s)
                 /\ ToSet(s) = {m \in NodesInUse(h) : Bucket(h, h.k[m]) = b}
    BY <1>1 DEF Chained
  <2>4. Chain(h, b) = s BY <1>2, <2>3, WalkOfPath DEF Chain
  <2> QED BY <2>2, <2>3, <2>4
<1>4. NodesInUse(h) \ UNION {ToSet(Chain(h, b)) : b \in 0 .. h.size - 1} = {}
  BY <1>3
<1>5. PICK e : e = Empty(0, h) OBVIOUS
<1>6. /\ Typed(e) /\ e.size = 0 /\ e.length = 0
      /\ e.head = NULL /\ e.tail = NULL
      /\ e.k = h.k /\ e.next = h.next /\ e.order = h.order
  <2>1. PICK z \in Nat : z = 0 OBVIOUS
  <2> QED BY <1>1, <1>5, <2>1, EmptyFields
<1>7. e \in Tables BY <1>6 DEF Typed
<1>8. g = [e EXCEPT !.k = [n \in Nodes |-> FREE],
                    !.next = [n \in Nodes |-> NULL], !.order = [n \in Nodes |-> NULL]]
  BY <1>4, <1>5, <1>7 DEF Cleaned, Tables
<1>9. /\ g.size = 0 /\ g.length = 0 /\ g.head = NULL /\ g.tail = NULL /\ g.table = e.table
      /\ g.k = [n \in Nodes |-> FREE]
      /\ g.next = [n \in Nodes |-> NULL] /\ g.order = [n \in Nodes |-> NULL]
      /\ g = [table |-> g.table, size |-> g.size, length |-> g.length, head |-> g.head,
              tail |-> g.tail, k |-> g.k, next |-> g.next, order |-> g.order]
  BY <1>6, <1>7, <1>8 DEF Tables
<1>10. NULL \in Pointers BY DEF Pointers
<1>11. g \in Tables
  <2>1. g.table \in UNION {[0 .. s - 1 -> Pointers] : s \in Nat} BY <1>7, <1>9 DEF Tables
  <2> QED BY <1>9, <1>10, <2>1 DEF Tables
<1>12. Typed(g) BY <1>6, <1>9, <1>11 DEF Typed
<1>13. NodesInUse(g) = {} BY <1>9 DEF NodesInUse
<1>14. Chained(g, {})
  <2>1. 0 .. g.size - 1 = {} BY <1>9
  <2> QED BY <2>1 DEF Chained
<1>15. Sound(g, unbroken) BY <1>1, <1>9, <1>12, <1>13, <1>14, EmptyIsSound
<1> QED BY <1>9, <1>15

-----------------------------------------------------------------------------
(* The steps.                                                              *)

LEMMA InitIsSound == Init => Inv
<1> SUFFICES ASSUME Init PROVE Inv OBVIOUS
<1>1. PICK h : h = ht OBVIOUS
<1>2. PICK i : i = intact OBVIOUS
<1>3. /\ h = [table |-> <<>>, size |-> 0, length |-> 0, head |-> NULL, tail |-> NULL,
              k |-> [n \in Nodes |-> FREE],
              next |-> [n \in Nodes |-> NULL],
              order |-> [n \in Nodes |-> NULL]]
      /\ i \in BOOLEAN
  BY <1>1, <1>2 DEF Init
<1>4. NULL \in Pointers BY DEF Pointers
<1>5. <<>> \in [0 .. 0 - 1 -> Pointers]
  <2>1. <<>> \in [1 .. 0 -> Pointers] OBVIOUS
  <2>2. 0 .. 0 - 1 = 1 .. 0 OBVIOUS
  <2> QED BY <2>1, <2>2
<1>6. h.table \in UNION {[0 .. s - 1 -> Pointers] : s \in Nat} BY <1>3, <1>5
<1>7. h \in Tables BY <1>3, <1>4, <1>6 DEF Tables
<1>8. Typed(h) BY <1>3, <1>5, <1>7 DEF Typed
<1>9. NodesInUse(h) = {} BY <1>3 DEF NodesInUse
<1>10. Chained(h, {})
  <2>1. 0 .. h.size - 1 = {} BY <1>3
  <2> QED BY <2>1 DEF Chained
<1>11. h.size = 0 /\ h.head = NULL /\ h.tail = NULL /\ h.length = 0 BY <1>3
<1>12. Sound(h, i) BY <1>3, <1>8, <1>9, <1>10, <1>11, EmptyIsSound
<1> QED BY <1>1, <1>2, <1>12 DEF Inv

LEMMA SpecIsSound == Spec => []Inv
<1>1. ASSUME Inv, [Next]_vars PROVE Inv'
  <2>0. PICK h : h = ht OBVIOUS
  <2>1. PICK i : i = intact OBVIOUS
  <2>2. PICK g : g = ht' OBVIOUS
  <2>3. PICK j : j = intact' OBVIOUS
  <2>4. Sound(h, i) BY <1>1, <2>0, <2>1 DEF Inv
  <2>5. SUFFICES Sound(g, j) BY <2>2, <2>3 DEF Inv
  <2>6. CASE UNCHANGED vars BY <2>0, <2>1, <2>2, <2>3, <2>4, <2>6 DEF vars
  <2>7. ASSUME NEW x \in Requests, ~InUse, lgx_ht_init(x) PROVE Sound(g, j)
    <3>1. h.size = 0 BY <2>0, <2>7 DEF InUse
    <3>2. j = TRUE BY <2>3, <2>7 DEF lgx_ht_init
    <3>3. g \in {h} \cup {Empty(size, h) : size \in InitialSizes(x)}
      BY <2>0, <2>2, <2>7 DEF lgx_ht_init
    <3>4. Typed(h) /\ NodesInUse(h) = {} /\ Chained(h, {}) /\ h.head = NULL /\ h.tail = NULL /\ h.length = 0
      BY <2>4, <3>1 DEF Sound
    <3>5. CASE g = h BY <3>1, <3>2, <3>4, <3>5, EmptyIsSound
    <3>6. CASE g # h
      <4>1. PICK size \in InitialSizes(x) : g = Empty(size, h) BY <3>3, <3>6
      <4>2. x \in Nat BY HashTableAssumption
      <4>3. size \in Nat /\ size >= MIN_SIZE /\ size # 0 BY <4>2, InitialSize
      <4>4. /\ Typed(g) /\ g.size = size /\ g.length = 0 /\ g.head = NULL /\ g.tail = NULL
            /\ g.k = h.k /\ Chained(g, {})
        <5>1. PICK s \in Nat : s = size BY <4>3
        <5>2. g = Empty(s, h) BY <4>1, <5>1
        <5>3. /\ Typed(g) /\ g.size = s /\ g.length = 0 /\ g.head = NULL /\ g.tail = NULL
              /\ g.k = h.k /\ Chained(g, {})
          BY <3>4, <5>2, EmptyFields, ZenonT(60)
        <5> QED BY <5>1, <5>3
      <4>5. NodesInUse(g) = {} BY <3>4, <4>4 DEF NodesInUse
      <4>6. g.size # 0 => g.size >= MIN_SIZE BY <4>3, <4>4
      <4> QED BY <3>2, <4>4, <4>5, <4>6, EmptyIsSound
    <3> QED BY <3>5, <3>6
  <2>8. ASSUME NEW k \in Keys, InUse, lgx_ht_set(k) PROVE Sound(g, j)
    <3>1. h.size # 0 BY <2>0, <2>8 DEF InUse
    <3>2. i = TRUE /\ j = TRUE
      <4>1. i \in BOOLEAN BY <2>4 DEF Sound
      <4> QED BY <2>1, <2>3, <2>8, <4>1 DEF lgx_ht_set
    <3>3. CASE g = h BY <2>4, <3>2, <3>3
    <3>4. CASE g # h
      <4>1. PICK n \in Free : LET f == Insert(WithNode(n, k), n)
                              IN  ht' \in {f} \cup (IF f.size < f.length * 2 THEN Resized(f) ELSE {})
        BY <2>0, <2>2, <2>8, <3>4 DEF lgx_ht_set
      <4>2. Find(h, k) = {} BY <2>0, <2>2, <2>8, <3>4 DEF lgx_ht_set
      <4>3. n \in Nodes /\ h.k[n] = FREE BY <2>0 DEF Free
      <4>4. WithNode(n, k) = Prepared(h, n, k) BY <2>0 DEF WithNode, Prepared
      <4>5. g \in {Insert(Prepared(h, n, k), n)} \cup Resized(Insert(Prepared(h, n, k), n))
        BY <2>2, <4>1, <4>4
      <4> QED BY <2>4, <3>1, <3>2, <4>2, <4>3, <4>5, SetKeeps
    <3> QED BY <3>3, <3>4
  <2>9. ASSUME NEW k \in Keys, InUse, lgx_ht_get(k) PROVE Sound(g, j)
    BY <2>0, <2>1, <2>2, <2>3, <2>4, <2>9 DEF lgx_ht_get
  <2>10. ASSUME NEW k \in Keys, InUse, lgx_ht_del(k) PROVE Sound(g, j)
    <3>1. h.size # 0 BY <2>0, <2>10 DEF InUse
    <3>2. j = FALSE BY <2>3, <2>10 DEF lgx_ht_del
    <3>3. PICK n \in Find(h, k) : g = Without(h, n, Bucket(h, k))
      BY <2>0, <2>2, <2>10 DEF lgx_ht_del, Without
    <3> QED BY <2>4, <3>1, <3>2, <3>3, DelKeeps
  <2>11. ASSUME lgx_ht_cleanup PROVE Sound(g, j)
    <3>1. g = Cleaned(h)
      <4>1. Live = NodesInUse(h) BY <2>0 DEF Live, Free, NodesInUse
      <4> QED BY <2>0, <2>2, <2>11, <4>1 DEF lgx_ht_cleanup, Cleaned
    <3>2. j = i BY <2>1, <2>3, <2>11 DEF lgx_ht_cleanup
    <3> QED BY <2>4, <3>1, <3>2, CleanupKeeps
  <2> QED BY <1>1, <2>6, <2>7, <2>8, <2>9, <2>10, <2>11 DEF Next
<1> QED BY <1>1, InitIsSound, PTL DEF Spec

-----------------------------------------------------------------------------
(* The safety properties.                                                  *)

\* The table and its nodes have their types, and a table in use is never
\* smaller than the minimum.
THEOREM TypeCorrect == Spec => []TypeOK
<1>1. Inv => TypeOK
  <2> SUFFICES ASSUME Inv PROVE TypeOK OBVIOUS
  <2>1. /\ ht \in Tables /\ ht.table \in [0 .. ht.size - 1 -> Pointers]
        /\ ht.size # 0 => ht.size >= MIN_SIZE
    BY DEF Inv, Sound, Typed
  <2> QED BY <2>1 DEF TypeOK, InUse, Tables
<1> QED BY <1>1, SpecIsSound, PTL

\* Every node in use is in the chain of its key, once: through growths,
\* failed growths and deletions, so that the clean-up frees them all.
THEOREM ChainsAreRight == Spec => []ChainsHoldAll
<1>1. Inv => ChainsHoldAll
  <2> SUFFICES ASSUME Inv PROVE ChainsHoldAll OBVIOUS
  <2>1. /\ ht \in Tables /\ (ht.size = 0 => NodesInUse(ht) = {}) /\ Chained(ht, NodesInUse(ht))
    BY DEF Inv, Sound, Typed
  <2>2. Live = NodesInUse(ht) BY DEF Live, Free, NodesInUse
  <2>3. ASSUME NEW b \in 0 .. ht.size - 1
        PROVE  /\ IsInjective(Chain(ht, b))
               /\ ToSet(Chain(ht, b)) = {n \in Live : Bucket(ht, ht.k[n]) = b}
    <3>1. PICK s : /\ List(ht.next, ht.table[b], s)
                   /\ ToSet(s) = {m \in NodesInUse(ht) : Bucket(ht, ht.k[m]) = b}
      BY <2>1 DEF Chained
    <3>2. Chain(ht, b) = s BY <2>1, <3>1, WalkOfPath DEF Chain, Tables
    <3>3. IsInjective(s) BY <3>1, DistinctFit DEF List
    <3> QED BY <2>2, <3>1, <3>2, <3>3
  <2> QED BY <2>1, <2>2, <2>3 DEF ChainsHoldAll, InUse
<1> QED BY <1>1, SpecIsSound, PTL

\* Until an entry is deleted the traversal visits each node in use once, and
\* tail and length tell where it ends and how long it is.
THEOREM TraversalIsRight == Spec => []TraversalIsComplete
<1>1. Inv => TraversalIsComplete
  <2> SUFFICES ASSUME Inv, intact
               PROVE  /\ IsInjective(Order(ht))
                      /\ ToSet(Order(ht)) = Live
                      /\ Len(Order(ht)) = ht.length
                      /\ ht.tail = IF Live = {} THEN NULL ELSE Last(Order(ht))
    BY DEF TraversalIsComplete
  <2>1. ht \in Tables /\ intact \in BOOLEAN /\ Ordered(ht, intact) BY DEF Inv, Sound, Typed
  <2>2. PICK o : /\ List(ht.order, ht.head, o) /\ ToSet(o) = NodesInUse(ht)
                 /\ ht.length = Len(o) /\ ht.tail = At(o, Len(o))
    BY <2>1 DEF Ordered
  <2>3. Order(ht) = o BY <2>1, <2>2, WalkOfPath DEF Order, Tables
  <2>4. o \in Seq(Nodes) /\ IsInjective(o) BY <2>2, DistinctFit DEF List
  <2>5. Live = ToSet(o) BY <2>2 DEF Live, Free, NodesInUse
  <2>6. ht.tail = IF Live = {} THEN NULL ELSE Last(o)
    <3>1. CASE Len(o) = 0
      <4>1. ToSet(o) = {} BY <2>4, <3>1 DEF ToSet
      <4> QED BY <2>2, <2>5, <3>1, <4>1 DEF At
    <3>2. CASE Len(o) > 0
      <4>1. Len(o) \in 1 .. Len(o) BY <2>4, <3>2
      <4>2. o[Len(o)] \in ToSet(o) BY <2>4, <4>1 DEF ToSet
      <4> QED BY <2>2, <2>5, <4>1, <4>2 DEF At, Last
    <3>3. Len(o) \in Nat BY <2>4
    <3> QED BY <3>1, <3>2, <3>3
  <2> QED BY <2>2, <2>3, <2>4, <2>5, <2>6
<1> QED BY <1>1, SpecIsSound, PTL

-----------------------------------------------------------------------------
(* The entries.                                                            *)

\* f collects the keys along o, the nodes that are free left out.
Collects(f, h, o) ==
  /\ f \in [0 .. Len(o) -> Seq(Keys)]
  /\ f[0] = <<>>
  /\ \A i \in 1 .. Len(o) :
       f[i] = IF h.k[o[i]] # FREE THEN Append(f[i - 1], h.k[o[i]]) ELSE f[i - 1]

LEMMA EntriesAlong ==
  ASSUME NEW h, Typed(h), NEW o, List(h.order, h.head, o)
  PROVE  \E f : Collects(f, h, o) /\ Entries(h) = f[Len(o)]
<1>1. /\ h.k \in [Nodes -> Keys \cup {FREE}] /\ h.order \in [Nodes -> Pointers]
      /\ o \in Seq(Nodes)
  BY DEF Typed, Tables, List
<1>2. Order(h) = o BY <1>1, WalkOfPath DEF Order
<1>3. PICK N \in Nat : N = Len(o) BY <1>1
<1>4. \A i \in 1 .. N : h.k[o[i]] # FREE => h.k[o[i]] \in Keys
  <2> TAKE i \in 1 .. N
  <2>1. o[i] \in Nodes BY <1>1, <1>3
  <2> QED BY <1>1, <2>1
<1> DEFINE Lists == Seq(Keys)
           Longer(i, e) == IF h.k[o[i]] # FREE THEN Append(e, h.k[o[i]]) ELSE e
           F == [i \in 1 .. N |-> [e \in Lists |-> Longer(i, e)]]
           Defines(keys) ==
             keys = [i \in 0 .. Len(o) |->
                       IF i = 0 THEN <<>>
                       ELSE IF h.k[o[i]] # FREE THEN Append(keys[i - 1], h.k[o[i]]) ELSE keys[i - 1]]
<1>5. ASSUME NEW i \in 1 .. N, NEW e \in Lists PROVE Longer(i, e) \in Lists
  <2>1. CASE h.k[o[i]] # FREE
    <3>1. h.k[o[i]] \in Keys BY <1>4, <2>1
    <3>2. Append(e, h.k[o[i]]) \in Seq(Keys) BY <3>1
    <3> QED BY <2>1, <3>2
  <2>2. CASE h.k[o[i]] = FREE BY <2>2
  <2> QED BY <2>1, <2>2
<1>6. \E keys : Defines(keys)
  <2>1. F \in [1 .. N -> [Lists -> Lists]]
    <3> HIDE DEF Lists, Longer
    <3> QED BY <1>5
  <2>2. PICK G : G = F OBVIOUS
  <2>3. PICK S : S = Lists OBVIOUS
  <2>4. PICK z \in S : z = <<>>
    <3>1. <<>> \in Seq(Keys) OBVIOUS
    <3> QED BY <2>3, <3>1
  <2>5. Steps(N, S, z, G)
    <3> HIDE DEF Lists, F
    <3> QED BY <2>1, <2>2, <2>3, <2>4 DEF Steps
  <2>6. PICK f : Iterates(f, N, S, z, G) BY <2>5, Recursion
  <2>7. f \in [0 .. N -> S] /\ f[0] = z /\ \A i \in 1 .. N : f[i] = G[i][f[i - 1]]
    BY <2>6 DEF Iterates
  <2>8. ASSUME NEW i \in 1 .. N PROVE f[i] = Longer(i, f[i - 1])
    <3> HIDE DEF Lists, Longer
    <3>1. i - 1 \in 0 .. N OBVIOUS
    <3>2. f[i - 1] \in Lists BY <2>3, <2>7, <3>1
    <3>3. f[i] = F[i][f[i - 1]] BY <2>2, <2>7
    <3> QED BY <3>2, <3>3
  <2>9. ASSUME NEW i \in 0 .. N
        PROVE  f[i] = IF i = 0 THEN <<>>
                      ELSE IF h.k[o[i]] # FREE THEN Append(f[i - 1], h.k[o[i]]) ELSE f[i - 1]
    <3>1. CASE i = 0 BY <2>4, <2>7, <3>1
    <3>2. CASE i # 0
      <4>1. i \in 1 .. N BY <3>2
      <4>2. f[i] = IF h.k[o[i]] # FREE THEN Append(f[i - 1], h.k[o[i]]) ELSE f[i - 1]
        BY <2>8, <4>1
      <4> QED BY <3>2, <4>2
    <3> QED BY <3>1, <3>2
  <2>10. f = [i \in 0 .. N |-> f[i]] BY <2>7
  <2>11. Defines(f) BY <1>3, <2>9, <2>10
  <2> QED BY <2>11
<1> DEFINE keys == CHOOSE keys : Defines(keys)
<1>7. Defines(keys) BY <1>6
<1>8. Entries(h) = keys[Len(o)] BY <1>2 DEF Entries
<1> HIDE DEF keys
<1>9. keys[0] = <<>> /\ \A i \in 1 .. N : keys[i] = Longer(i, keys[i - 1])
  <2>1. 0 \in 0 .. Len(o) BY <1>3
  <2>2. keys[0] = <<>> BY <1>7, <2>1
  <2>3. ASSUME NEW i \in 1 .. N PROVE keys[i] = Longer(i, keys[i - 1])
    <3>1. i \in 0 .. Len(o) /\ i # 0 BY <1>3
    <3> QED BY <1>7, <3>1
  <2> QED BY <2>2, <2>3
<1> DEFINE P == {i \in 0 .. N : keys[i] \in Lists}
<1>10. 0 \in P
  <2>1. <<>> \in Seq(Keys) OBVIOUS
  <2>2. keys[0] = <<>> BY <1>9
  <2>3. keys[0] \in Lists BY <2>1, <2>2
  <2> HIDE DEF Lists
  <2> QED BY <2>3
<1>11. ASSUME NEW i \in 1 .. N, i - 1 \in P PROVE i \in P
  <2> HIDE DEF Longer, Lists
  <2> QED BY <1>5, <1>9, <1>11
<1>12. \A i \in 1 .. N : i - 1 \in P => i \in P BY <1>11
<1> HIDE DEF P
<1>13. \A i \in 0 .. N : i \in P BY <1>10, <1>12, UpTo
<1>14. \A i \in 0 .. N : keys[i] \in Lists BY <1>13 DEF P
<1>15. keys \in [0 .. N -> Lists]
  <2>1. keys = [i \in 0 .. N |-> keys[i]] BY <1>3, <1>7
  <2> HIDE DEF Lists
  <2> QED BY <1>14, <2>1
<1>16. Collects(keys, h, o) BY <1>3, <1>9, <1>15 DEF Collects
<1> QED BY <1>8, <1>16

\* There are no entries where the order list is empty.
LEMMA NoEntries ==
  ASSUME NEW h, Typed(h), h.head = NULL
  PROVE  Entries(h) = <<>>
<1>1. PICK z : z = <<>> OBVIOUS
<1>2. z \in Seq(Nodes) /\ Len(z) = 0 BY <1>1
<1>3. Distinct(z) /\ At(z, 1) = NULL /\ 1 .. Len(z) = {} BY <1>2 DEF Distinct, At
<1>4. List(h.order, h.head, z) BY <1>2, <1>3 DEF List, Path
<1>5. PICK f : Collects(f, h, z) /\ Entries(h) = f[Len(z)] BY <1>4, EntriesAlong
<1> QED BY <1>2, <1>5 DEF Collects

\* The entries are the keys of the nodes in use.
LEMMA EntriesAreKeys ==
  ASSUME NEW h, NEW unbroken, Sound(h, unbroken)
  PROVE  /\ Entries(h) \in Seq(Keys)
         /\ {Entries(h)[i] : i \in 1 .. Len(Entries(h))} = {h.k[n] : n \in NodesInUse(h)}
<1>1. Typed(h) /\ Ordered(h, unbroken) BY DEF Sound
<1>2. PICK o : List(h.order, h.head, o) /\ NodesInUse(h) \subseteq ToSet(o) BY <1>1 DEF Ordered
<1>3. PICK f : Collects(f, h, o) /\ Entries(h) = f[Len(o)] BY <1>1, <1>2, EntriesAlong
<1>4. o \in Seq(Nodes) BY <1>2 DEF List
<1>5. PICK N \in Nat : N = Len(o) BY <1>4
<1>6. /\ \A i \in 0 .. N : f[i] \in Seq(Keys)
      /\ f[0] = <<>>
      /\ \A i \in 1 .. N :
           f[i] = IF h.k[o[i]] # FREE THEN Append(f[i - 1], h.k[o[i]]) ELSE f[i - 1]
  BY <1>3, <1>5 DEF Collects
<1> DEFINE Has(s, x) == \E j \in 1 .. Len(s) : s[j] = x
           Passed(i, x) == \E j \in 1 .. i : h.k[o[j]] # FREE /\ h.k[o[j]] = x
           P == {i \in 0 .. N : \A x : Has(f[i], x) <=> Passed(i, x)}
<1>7. 0 \in P
  <2>1. Len(f[0]) = 0 BY <1>6
  <2> QED BY <2>1
<1>8. ASSUME NEW i \in 1 .. N, i - 1 \in P PROVE i \in P
  <2> SUFFICES ASSUME NEW x PROVE Has(f[i], x) <=> Passed(i, x) OBVIOUS
  <2>1. Has(f[i - 1], x) <=> Passed(i - 1, x) BY <1>8
  <2>2. Passed(i, x) <=> Passed(i - 1, x) \/ (h.k[o[i]] # FREE /\ h.k[o[i]] = x)
    <3>1. \A j \in 1 .. i : j \in 1 .. i - 1 \/ j = i OBVIOUS
    <3>2. i \in 1 .. i /\ \A j \in 1 .. i - 1 : j \in 1 .. i OBVIOUS
    <3> QED BY <3>1, <3>2
  <2>3. PICK s \in Seq(Keys) : s = f[i - 1]
    <3>1. i - 1 \in 0 .. N OBVIOUS
    <3> QED BY <1>6, <3>1
  <2>4. CASE h.k[o[i]] = FREE
    <3>1. f[i] = f[i - 1] BY <1>6, <2>4
    <3> QED BY <2>1, <2>2, <2>4, <3>1
  <2>5. CASE h.k[o[i]] # FREE
    <3>1. PICK y : y = h.k[o[i]] OBVIOUS
    <3>2. PICK t : t = f[i] OBVIOUS
    <3>3. t = Append(s, y) BY <1>6, <2>3, <2>5, <3>1, <3>2
    <3>4. /\ Len(s) \in Nat /\ Len(t) = Len(s) + 1 /\ t[Len(s) + 1] = y
          /\ \A j \in 1 .. Len(s) : t[j] = s[j]
      BY <2>3, <3>3
    <3>5. \A j \in 1 .. Len(t) : j \in 1 .. Len(s) \/ j = Len(s) + 1 BY <3>4
    <3>6. Len(s) + 1 \in 1 .. Len(t) /\ \A j \in 1 .. Len(s) : j \in 1 .. Len(t) BY <3>4
    <3>7. Has(t, x) <=> Has(s, x) \/ y = x BY <3>4, <3>5, <3>6
    <3> HIDE DEF Has, Passed
    <3> QED BY <2>1, <2>2, <2>3, <2>5, <3>1, <3>2, <3>7
  <2> QED BY <2>4, <2>5
<1>9. \A i \in 1 .. N : i - 1 \in P => i \in P BY <1>8
<1> HIDE DEF P
<1>10. \A i \in 0 .. N : i \in P BY <1>7, <1>9, UpTo
<1>11. N \in P BY <1>10
<1>12. \A x : Has(f[N], x) <=> Passed(N, x) BY <1>11 DEF P
<1>13. ASSUME NEW x PROVE Passed(N, x) <=> \E n \in NodesInUse(h) : h.k[n] = x
  <2>1. ASSUME NEW j \in 1 .. N, h.k[o[j]] # FREE PROVE o[j] \in NodesInUse(h)
    BY <1>4, <1>5, <2>1 DEF NodesInUse
  <2>2. ASSUME NEW n \in NodesInUse(h) PROVE \E j \in 1 .. N : o[j] = n /\ h.k[o[j]] # FREE
    <3>1. n \in ToSet(o) /\ h.k[n] # FREE BY <1>2 DEF NodesInUse
    <3>2. PICK j \in 1 .. Len(o) : o[j] = n BY <1>4, <3>1 DEF ToSet
    <3> QED BY <1>5, <3>1, <3>2
  <2> QED BY <2>1, <2>2
<1>14. Entries(h) = f[N] BY <1>3, <1>5
<1>15. f[N] \in Seq(Keys) BY <1>6
<1>16. {f[N][i] : i \in 1 .. Len(f[N])} = {h.k[n] : n \in NodesInUse(h)}
  <2>1. ASSUME NEW x PROVE x \in {f[N][i] : i \in 1 .. Len(f[N])} <=> Has(f[N], x) OBVIOUS
  <2>2. ASSUME NEW x
        PROVE  x \in {h.k[n] : n \in NodesInUse(h)} <=> \E n \in NodesInUse(h) : h.k[n] = x
    OBVIOUS
  <2>3. ASSUME NEW x PROVE x \in {f[N][i] : i \in 1 .. Len(f[N])} <=> x \in {h.k[n] : n \in NodesInUse(h)}
    <3> HIDE DEF Has, Passed
    <3> QED BY <1>12, <1>13, <2>1, <2>2
  <2> QED BY <2>3
<1> QED BY <1>14, <1>15, <1>16

\* Up to place M two order lists hold the same nodes with the same keys.
Agree(M, h, o, g, t) ==
  /\ M \in Nat /\ M <= Len(o) /\ M <= Len(t) /\ Len(o) \in Nat /\ Len(t) \in Nat
  /\ \A i \in 1 .. M : t[i] = o[i] /\ g.k[o[i]] = h.k[o[i]]

\* Where they agree, the same keys are collected.
LEMMA SameBeginning ==
  ASSUME NEW f, NEW h, NEW o, Collects(f, h, o),
         NEW e, NEW g, NEW t, Collects(e, g, t),
         NEW M, Agree(M, h, o, g, t)
  PROVE  \A i \in 0 .. M : e[i] = f[i]
<1> USE DEF Agree
<1>1. /\ f[0] = <<>>
      /\ \A i \in 1 .. M :
           f[i] = IF h.k[o[i]] # FREE THEN Append(f[i - 1], h.k[o[i]]) ELSE f[i - 1]
  BY DEF Collects
<1>2. /\ e[0] = <<>>
      /\ \A i \in 1 .. M :
           e[i] = IF g.k[t[i]] # FREE THEN Append(e[i - 1], g.k[t[i]]) ELSE e[i - 1]
  BY DEF Collects
<1> DEFINE P == {i \in 0 .. M : e[i] = f[i]}
<1>3. 0 \in P BY <1>1, <1>2
<1>4. ASSUME NEW i \in 1 .. M, i - 1 \in P PROVE i \in P BY <1>1, <1>2, <1>4
<1>5. \A i \in 1 .. M : i - 1 \in P => i \in P BY <1>4
<1> HIDE DEF P
<1>6. \A i \in 0 .. M : i \in P BY <1>3, <1>5, UpTo
<1> QED BY <1>6 DEF P

\* A new node at the end of the order list is a new entry at the end.
LEMMA EntryAppended ==
  ASSUME NEW h, Typed(h), NEW g, Typed(g), NEW o, List(h.order, h.head, o),
         NEW n \in Nodes, n \notin ToSet(o), List(g.order, g.head, Append(o, n)),
         NEW k \in Keys, g.k = [h.k EXCEPT ![n] = k]
  PROVE  Entries(g) = Append(Entries(h), k)
<1>1. PICK f : Collects(f, h, o) /\ Entries(h) = f[Len(o)] BY EntriesAlong
<1>2. PICK t : t = Append(o, n) OBVIOUS
<1>3. PICK e : Collects(e, g, t) /\ Entries(g) = e[Len(t)] BY <1>2, EntriesAlong
<1>4. o \in Seq(Nodes) /\ Distinct(o) /\ h.k \in [Nodes -> Keys \cup {FREE}] BY DEF List, Typed, Tables
<1>5. /\ t \in Seq(Nodes) /\ Len(t) = Len(o) + 1 /\ t[Len(o) + 1] = n
      /\ \A i \in 1 .. Len(o) : t[i] = o[i]
  BY <1>2, <1>4, AppendFacts
<1>6. PICK M \in Nat : M = Len(o) BY <1>4
<1>7. ASSUME NEW i \in 1 .. M PROVE t[i] = o[i] /\ g.k[o[i]] = h.k[o[i]]
  <2>1. o[i] \in Nodes /\ o[i] # n BY <1>4, <1>6 DEF ToSet
  <2> QED BY <1>4, <1>5, <1>6, <2>1
<1>8. \A i \in 0 .. M : e[i] = f[i]
  <2>1. M <= Len(o) /\ M <= Len(t) /\ Len(o) \in Nat /\ Len(t) \in Nat BY <1>5, <1>6
  <2>2. Agree(M, h, o, g, t) BY <1>7, <2>1 DEF Agree
  <2> QED BY <1>1, <1>3, <2>2, SameBeginning
<1>9. e[M] = f[M] BY <1>8
<1>10. g.k[t[M + 1]] = k /\ k # FREE BY <1>4, <1>5, <1>6, HashTableAssumption DEF FREE
<1>11. e[M + 1] = Append(e[M], k)
  <2>1. M + 1 \in 1 .. Len(t) /\ (M + 1) - 1 = M BY <1>5, <1>6
  <2>2. e[M + 1] = IF g.k[t[M + 1]] # FREE THEN Append(e[(M + 1) - 1], g.k[t[M + 1]]) ELSE e[(M + 1) - 1]
    BY <1>3, <2>1 DEF Collects
  <2> QED BY <1>10, <2>1, <2>2
<1> QED BY <1>1, <1>3, <1>5, <1>6, <1>9, <1>11

LEMMA RemoveLast ==
  ASSUME NEW s \in Seq(Keys), NEW k \in Keys
  PROVE  RemoveAt(Append(s, k), Len(s) + 1) = s
<1>1. PICK t : t = Append(s, k) OBVIOUS
<1>2. t \in Seq(Keys) /\ Len(t) = Len(s) + 1 /\ \A i \in 1 .. Len(s) : t[i] = s[i] BY <1>1
<1>3. SubSeq(t, 1, Len(s)) = s BY <1>2
<1>4. SubSeq(t, Len(s) + 2, Len(s) + 1) = <<>> BY <1>2
<1>5. RemoveAt(t, Len(s) + 1) = s \o <<>>
  <2>1. (Len(s) + 1) - 1 = Len(s) /\ (Len(s) + 1) + 1 = Len(s) + 2 OBVIOUS
  <2> QED BY <1>2, <1>3, <1>4, <2>1 DEF RemoveAt
<1> QED BY <1>1, <1>5

LEMMA RemoveBefore ==
  ASSUME NEW s \in Seq(Keys), NEW k \in Keys, NEW q \in 1 .. Len(s)
  PROVE  RemoveAt(Append(s, k), q) = Append(RemoveAt(s, q), k)
<1>1. PICK t : t = Append(s, k) OBVIOUS
<1>2. /\ t \in Seq(Keys) /\ Len(t) = Len(s) + 1 /\ t[Len(s) + 1] = k
      /\ \A i \in 1 .. Len(s) : t[i] = s[i]
  BY <1>1
<1>3. SubSeq(t, 1, q - 1) = SubSeq(s, 1, q - 1) BY <1>1
<1>4. SubSeq(t, q + 1, Len(t)) = Append(SubSeq(s, q + 1, Len(s)), k)
  <2>1. PICK c : c = SubSeq(t, q + 1, Len(t)) OBVIOUS
  <2>2. PICK d : d = SubSeq(s, q + 1, Len(s)) OBVIOUS
  <2>3. /\ c \in Seq(Keys) /\ Len(c) = Len(s) + 1 - q
        /\ \A i \in 1 .. Len(s) + 1 - q : c[i] = t[q + i]
    BY <1>2, <2>1
  <2>4. /\ d \in Seq(Keys) /\ Len(d) = Len(s) - q
        /\ \A i \in 1 .. Len(s) - q : d[i] = s[q + i]
    BY <2>2
  <2>5. PICK a : a = Append(d, k) OBVIOUS
  <2>6. /\ a \in Seq(Keys) /\ Len(a) = Len(d) + 1 /\ a[Len(d) + 1] = k
        /\ \A i \in 1 .. Len(d) : a[i] = d[i]
    <3>1. d \in Seq(Keys) BY <2>4
    <3> QED BY <2>5, <3>1
  <2>7. ASSUME NEW i \in 1 .. Len(c) PROVE c[i] = a[i]
    <3>1. i \in 1 .. Len(s) + 1 - q BY <2>3
    <3>2. c[i] = t[q + i] BY <2>3, <3>1
    <3>3. CASE i = Len(s) + 1 - q
      <4>1. q + i = Len(s) + 1 /\ i = Len(d) + 1 BY <2>4, <3>3
      <4> QED BY <1>2, <2>6, <3>2, <4>1
    <3>4. CASE i # Len(s) + 1 - q
      <4>1. i \in 1 .. Len(s) - q /\ q + i \in 1 .. Len(s) BY <3>1, <3>4
      <4>2. t[q + i] = s[q + i] /\ a[i] = d[i] /\ d[i] = s[q + i] BY <1>2, <2>4, <2>6, <4>1
      <4> QED BY <3>2, <4>2
    <3> QED BY <3>3, <3>4
  <2>8. Len(c) = Len(a) BY <2>3, <2>4, <2>6
  <2>9. c = a BY <2>3, <2>6, <2>7, <2>8, SeqEqual
  <2> QED BY <2>1, <2>2, <2>5, <2>9
<1>5. SubSeq(s, 1, q - 1) \in Seq(Keys) /\ SubSeq(s, q + 1, Len(s)) \in Seq(Keys) OBVIOUS
<1>6. PICK a \in Seq(Keys) : a = SubSeq(s, 1, q - 1) BY <1>5
<1>7. PICK b \in Seq(Keys) : b = SubSeq(s, q + 1, Len(s)) BY <1>5
<1>8. a \o Append(b, k) = Append(a \o b, k) OBVIOUS
<1> QED BY <1>1, <1>3, <1>4, <1>6, <1>7, <1>8 DEF RemoveAt

\* A node that is freed leaves the entries, and the others keep their order.
LEMMA EntryRemoved ==
  ASSUME NEW h, Typed(h), NEW g, Typed(g), g.order = h.order, g.head = h.head,
         NEW o, List(h.order, h.head, o), NEW n \in ToSet(o),
         NEW k \in Keys, h.k[n] = k, g.k = [h.k EXCEPT ![n] = FREE]
  PROVE  \E q \in 1 .. Len(Entries(h)) : /\ Entries(h)[q] = k
                                         /\ Entries(g) = RemoveAt(Entries(h), q)
<1>1. PICK f : Collects(f, h, o) /\ Entries(h) = f[Len(o)] BY EntriesAlong
<1>2. PICK e : Collects(e, g, o) /\ Entries(g) = e[Len(o)] BY EntriesAlong
<1>3. o \in Seq(Nodes) /\ Distinct(o) /\ h.k \in [Nodes -> Keys \cup {FREE}] BY DEF List, Typed, Tables
<1>4. PICK N \in Nat : N = Len(o) BY <1>3
<1>5. PICK p \in 1 .. N : o[p] = n BY <1>3, <1>4 DEF ToSet
<1>6. /\ \A i \in 0 .. N : f[i] \in Seq(Keys)
      /\ \A i \in 1 .. N :
           f[i] = IF h.k[o[i]] # FREE THEN Append(f[i - 1], h.k[o[i]]) ELSE f[i - 1]
  BY <1>1, <1>4 DEF Collects
<1>7. \A i \in 1 .. N :
        e[i] = IF g.k[o[i]] # FREE THEN Append(e[i - 1], g.k[o[i]]) ELSE e[i - 1]
  BY <1>2, <1>4 DEF Collects
<1>8. ASSUME NEW i \in 1 .. N, i # p PROVE g.k[o[i]] = h.k[o[i]]
  <2>1. o[i] \in Nodes /\ o[i] # n BY <1>3, <1>4, <1>5, <1>8 DEF Distinct
  <2> QED BY <1>3, <2>1
<1>9. g.k[o[p]] = FREE /\ h.k[o[p]] = k /\ k # FREE
  BY <1>3, <1>4, <1>5, HashTableAssumption DEF FREE
<1>10. e[p - 1] = f[p - 1]
  <2>1. PICK M \in Nat : M = p - 1 OBVIOUS
  <2>2. \A i \in 1 .. M : i \in 1 .. N /\ i # p BY <2>1
  <2>3. Agree(M, h, o, g, o) BY <1>3, <1>4, <1>8, <2>1, <2>2 DEF Agree
  <2>4. \A i \in 0 .. M : e[i] = f[i] BY <1>1, <1>2, <2>3, SameBeginning
  <2> QED BY <2>1, <2>4
<1>11. PICK s \in Seq(Keys) : s = f[p - 1]
  <2>1. p - 1 \in 0 .. N OBVIOUS
  <2> QED BY <1>6, <2>1
<1>12. f[p] = Append(s, k) /\ e[p] = s BY <1>6, <1>7, <1>9, <1>10, <1>11
<1>13. PICK q \in Nat : q = Len(s) + 1 BY <1>11
<1> DEFINE Shrunk(i) == q \in 1 .. Len(f[i]) /\ f[i][q] = k /\ e[i] = RemoveAt(f[i], q)
<1>14. Shrunk(p)
  <2>1. PICK t : t = Append(s, k) OBVIOUS
  <2>2. Len(t) = Len(s) + 1 /\ t[Len(s) + 1] = k BY <2>1, <1>11
  <2>3. RemoveAt(t, q) = s BY <1>11, <1>13, <2>1, RemoveLast
  <2> QED BY <1>12, <1>13, <2>1, <2>2, <2>3
<1>15. ASSUME NEW i \in p + 1 .. N, Shrunk(i - 1) PROVE Shrunk(i)
  <2>1. i \in 1 .. N /\ i # p /\ i - 1 \in 0 .. N OBVIOUS
  <2>2. PICK u \in Seq(Keys) : u = f[i - 1] BY <1>6, <2>1
  <2>3. q \in 1 .. Len(u) /\ u[q] = k /\ e[i - 1] = RemoveAt(u, q) BY <1>15, <2>2
  <2>4. PICK x : x = h.k[o[i]] OBVIOUS
  <2>5. g.k[o[i]] = x BY <1>8, <2>1, <2>4
  <2>6. CASE x = FREE
    <3>1. f[i] = u /\ e[i] = e[i - 1] BY <1>6, <1>7, <2>1, <2>2, <2>4, <2>5, <2>6
    <3> QED BY <2>3, <3>1
  <2>7. CASE x # FREE
    <3>1. x \in Keys
      <4>1. o[i] \in Nodes BY <1>3, <1>4, <2>1
      <4> QED BY <1>3, <2>4, <2>7, <4>1
    <3>2. f[i] = Append(u, x) /\ e[i] = Append(e[i - 1], x)
      BY <1>6, <1>7, <2>1, <2>2, <2>4, <2>5, <2>7
    <3>3. RemoveAt(Append(u, x), q) = Append(RemoveAt(u, q), x) BY <2>3, <3>1, RemoveBefore
    <3>4. PICK t : t = Append(u, x) OBVIOUS
    <3>5. q \in 1 .. Len(t) /\ t[q] = k BY <2>3, <3>1, <3>4
    <3> QED BY <2>3, <3>2, <3>3, <3>4, <3>5
  <2> QED BY <2>6, <2>7
<1>16. Shrunk(N)
  <2> DEFINE P == {j \in 0 .. N - p : Shrunk(p + j)}
  <2>1. PICK M \in Nat : M = N - p OBVIOUS
  <2>2. 0 \in P
    <3>1. p + 0 = p /\ 0 \in 0 .. N - p OBVIOUS
    <3> HIDE DEF Shrunk
    <3> QED BY <1>14, <3>1
  <2>3. ASSUME NEW j \in 1 .. M, j - 1 \in P PROVE j \in P
    <3>1. p + j \in p + 1 .. N /\ (p + j) - 1 = p + (j - 1) /\ j \in 0 .. N - p BY <2>1
    <3> HIDE DEF Shrunk
    <3> QED BY <1>15, <2>3, <3>1
  <2>4. \A j \in 1 .. M : j - 1 \in P => j \in P BY <2>3
  <2> HIDE DEF P
  <2>5. \A j \in 0 .. M : j \in P BY <2>2, <2>4, UpTo
  <2>6. M \in P BY <2>5
  <2>7. p + M = N BY <2>1
  <2> HIDE DEF Shrunk
  <2> QED BY <2>6, <2>7 DEF P
<1> QED BY <1>1, <1>2, <1>4, <1>16

-----------------------------------------------------------------------------
(* The hash table implements the ordered map.                              *)

LEMMA StepsOfTheMap ==
  ASSUME Inv, [Next]_vars
  PROVE  [Map!Next]_(Map!mvars)
<1>1. PICK h : h = ht OBVIOUS
<1>2. PICK i : i = intact OBVIOUS
<1>3. PICK g : g = ht' OBVIOUS
<1>4. PICK A : A = Entries(h) OBVIOUS
<1>5. PICK B : B = Entries(g) OBVIOUS
<1>6. Entries(ht) = A /\ Entries(ht)' = B BY <1>1, <1>3, <1>4, <1>5
<1>7. Sound(h, i) BY <1>1, <1>2 DEF Inv
<1>8. Typed(h) BY <1>7 DEF Sound
<1>9. Map!Present = {h.k[n] : n \in NodesInUse(h)}
  <2>1. {Entries(h)[q] : q \in 1 .. Len(Entries(h))} = {h.k[n] : n \in NodesInUse(h)}
    BY <1>7, EntriesAreKeys
  <2> QED BY <1>4, <1>6, <2>1 DEF Map!Present
<1>10. CASE UNCHANGED vars BY <1>1, <1>10 DEF vars, Map!mvars
<1>11. ASSUME NEW x \in Requests, ~InUse, lgx_ht_init(x) PROVE Map!Clear
  <2>1. h.head = NULL
    <3>1. h.size = 0 BY <1>1, <1>11 DEF InUse
    <3> QED BY <1>7, <3>1 DEF Sound
  <2>2. Typed(g) /\ g.head = NULL
    <3>1. CASE g = h BY <1>8, <2>1, <3>1
    <3>2. CASE g # h
      <4>1. PICK size \in InitialSizes(x) : g = Empty(size, h)
        BY <1>1, <1>3, <1>11, <3>2 DEF lgx_ht_init
      <4>2. x \in Nat BY HashTableAssumption
      <4>3. PICK s \in Nat : s = size BY <4>2, InitialSize
      <4>4. Typed(Empty(s, h)) /\ Empty(s, h).head = NULL BY <1>8, EmptyFields
      <4> QED BY <4>1, <4>3, <4>4
    <3> QED BY <3>1, <3>2
  <2>3. B = <<>> BY <1>5, <2>2, NoEntries
  <2>4. answer' = <<"none">> BY <1>11 DEF lgx_ht_init
  <2> QED BY <1>6, <2>3, <2>4 DEF Map!Clear
<1>12. ASSUME NEW k \in Keys, InUse, lgx_ht_set(k) PROVE Map!Set(k)
  <2>1. h.size # 0 BY <1>1, <1>12 DEF InUse
  <2>2. i = TRUE
    <3>1. i \in BOOLEAN BY <1>7 DEF Sound
    <3> QED BY <1>2, <1>12, <3>1 DEF lgx_ht_set
  <2>3. CASE answer' = <<"failed">> /\ UNCHANGED ht
    <3>1. Entries(ht)' = Entries(ht) BY <2>3
    <3> QED BY <2>3, <3>1 DEF Map!Set
  <2>4. CASE ~ (answer' = <<"failed">> /\ UNCHANGED ht)
    <3>1. /\ Find(h, k) = {} /\ answer' = <<"ok">>
          /\ \E n \in Free : LET f == Insert(WithNode(n, k), n)
                             IN  ht' \in {f} \cup (IF f.size < f.length * 2 THEN Resized(f) ELSE {})
      BY <1>1, <1>12, <2>4 DEF lgx_ht_set
    <3>2. PICK n \in Free : LET f == Insert(WithNode(n, k), n)
                            IN  ht' \in {f} \cup (IF f.size < f.length * 2 THEN Resized(f) ELSE {})
      BY <3>1
    <3>3. n \in Nodes /\ h.k[n] = FREE BY <1>1 DEF Free
    <3>4. WithNode(n, k) = Prepared(h, n, k) BY <1>1 DEF WithNode, Prepared
    <3>5. g \in {Insert(Prepared(h, n, k), n)} \cup Resized(Insert(Prepared(h, n, k), n))
      BY <1>3, <3>2, <3>4
    <3>6. /\ Sound(g, i)
          /\ g.k = [h.k EXCEPT ![n] = k]
          /\ \E o : /\ List(h.order, h.head, o) /\ ToSet(o) = NodesInUse(h)
                    /\ List(g.order, g.head, Append(o, n))
      BY <1>7, <2>1, <2>2, <3>1, <3>3, <3>5, SetKeeps
    <3>7. PICK o : /\ List(h.order, h.head, o) /\ ToSet(o) = NodesInUse(h)
                   /\ List(g.order, g.head, Append(o, n))
      BY <3>6
    <3>8. n \notin ToSet(o) BY <3>3, <3>7 DEF NodesInUse
    <3>9. B = Append(A, k)
      <4>1. Typed(g) BY <3>6 DEF Sound
      <4> QED BY <1>4, <1>5, <1>8, <3>3, <3>6, <3>7, <3>8, <4>1, EntryAppended
    <3>10. k \notin Map!Present
      <4>1. Find(h, k) = {m \in NodesInUse(h) : h.k[m] = k} BY <1>7, <2>1, FindIsRight
      <4> QED BY <1>9, <3>1, <4>1
    <3> QED BY <1>6, <3>1, <3>9, <3>10 DEF Map!Set
  <2> QED BY <2>3, <2>4
<1>13. ASSUME NEW k \in Keys, InUse, lgx_ht_get(k) PROVE Map!Get(k)
  <2>1. h.size # 0 BY <1>1, <1>13 DEF InUse
  <2>2. Find(h, k) = {m \in NodesInUse(h) : h.k[m] = k} BY <1>7, <2>1, FindIsRight
  <2>3. Find(h, k) = {} <=> k \notin Map!Present BY <1>9, <2>2
  <2>4. answer' = <<IF k \in Map!Present THEN "found" ELSE "missing", k>>
    BY <1>1, <1>13, <2>3 DEF lgx_ht_get
  <2>5. Entries(ht)' = Entries(ht) BY <1>13 DEF lgx_ht_get
  <2> QED BY <2>4, <2>5 DEF Map!Get
<1>14. ASSUME NEW k \in Keys, InUse, lgx_ht_del(k) PROVE Map!Delete(k)
  <2>1. h.size # 0 BY <1>1, <1>14 DEF InUse
  <2>2. PICK n \in Find(h, k) : g = Without(h, n, Bucket(h, k))
    BY <1>1, <1>3, <1>14 DEF lgx_ht_del, Without
  <2>3. /\ Sound(g, FALSE)
        /\ n \in NodesInUse(h) /\ h.k[n] = k
        /\ g.k = [h.k EXCEPT ![n] = FREE]
        /\ g.order = h.order /\ g.head = h.head
    <3>1. PICK no : no = FALSE OBVIOUS
    <3>2. Sound(g, no) BY <1>7, <2>1, <2>2, <3>1, DelKeeps
    <3>3. /\ n \in NodesInUse(h) /\ h.k[n] = k
          /\ g.k = [h.k EXCEPT ![n] = FREE]
          /\ g.order = h.order /\ g.head = h.head
      <4>1. TakenOut(h, n, k, g) BY <1>7, <2>1, <2>2, DelTakesOut
      <4> QED BY <4>1 DEF TakenOut
    <3> QED BY <3>1, <3>2, <3>3
  <2>4. Typed(g) BY <2>3 DEF Sound
  <2>5. PICK o : List(h.order, h.head, o) /\ n \in ToSet(o) BY <1>7, <2>3 DEF Sound, Ordered
  <2>6. \E q \in 1 .. Len(A) : A[q] = k /\ B = RemoveAt(A, q)
    <3>1. \E q \in 1 .. Len(Entries(h)) : /\ Entries(h)[q] = k
                                          /\ Entries(g) = RemoveAt(Entries(h), q)
      BY <1>8, <2>3, <2>4, <2>5, EntryRemoved
    <3> QED BY <1>4, <1>5, <3>1
  <2>7. answer' = <<"none">> BY <1>14 DEF lgx_ht_del
  <2> QED BY <1>6, <2>6, <2>7 DEF Map!Delete, Map!RemoveAt, RemoveAt
<1>15. ASSUME lgx_ht_cleanup PROVE Map!Clear
  <2>1. g = Cleaned(h)
    <3>1. Live = NodesInUse(h) BY <1>1 DEF Live, Free, NodesInUse
    <3> QED BY <1>1, <1>3, <1>15, <3>1 DEF lgx_ht_cleanup, Cleaned
  <2>2. Typed(g) /\ g.head = NULL BY <1>7, <2>1, CleanupKeeps DEF Sound
  <2>3. B = <<>> BY <1>5, <2>2, NoEntries
  <2>4. answer' = <<"none">> BY <1>15 DEF lgx_ht_cleanup
  <2> QED BY <1>6, <2>3, <2>4 DEF Map!Clear
<1> QED BY <1>10, <1>11, <1>12, <1>13, <1>14, <1>15 DEF Next, Map!Next

\* Whatever the order of insertions, growths, failed growths, deletions and
\* clean-ups, the users see an ordered map.
THEOREM HashTableIsAMap == Spec => ImplementsMap
<1>1. Init => Map!Init
  <2> SUFFICES ASSUME Init PROVE Map!Init OBVIOUS
  <2>1. Typed(ht) BY InitIsSound DEF Inv, Sound
  <2>2. ht.head = NULL /\ answer = <<"none">> BY DEF Init
  <2>3. Entries(ht) = <<>> BY <2>1, <2>2, NoEntries
  <2> QED BY <2>2, <2>3 DEF Map!Init
<1>2. Inv /\ [Next]_vars => [Map!Next]_(Map!mvars) BY StepsOfTheMap
<1> QED BY <1>1, <1>2, SpecIsSound, PTL DEF Spec, ImplementsMap, Map!Spec
=============================================================================
