---------------------------- MODULE RBTreeProofs -----------------------------
(***************************************************************************)
(* The properties of RBTree, for every set of keys: its queries, a node    *)
(* with two children that leaves the tree, the invariant and the theorems. *)
(***************************************************************************)
EXTENDS RBTreeDeletion

-----------------------------------------------------------------------------
(* Queries.                                                                *)

\* y is the outermost node on the side among those of A.
Outermost(side, A, y) == y \in A /\ \A m \in A : m = y \/ Before(side, y, m)

\* End finds the outermost node under a node, which has no child on that side.
LEMMA EndFacts ==
  ASSUME NEW r, NEW D, Shape(r, D), Blank(r, D[r.root]), NEW side \in Sides,
         NEW n \in D[r.root]
  PROVE  /\ Outermost(side, D[n], End(r, side, n))
         /\ r.child[side][End(r, side, n)] = NULL
<1> DEFINE c(m) == r.child[side][m]
           Value(m, a, b) == IF c(m) = NULL THEN m ELSE IF side = "left" THEN a ELSE b
           V == Pointers
           G == [m \in Keys |-> [a \in V |-> [b \in V |-> Value(m, a, b)]]]
           Defines(f) == f = [m \in Keys |-> IF c(m) = NULL THEN m ELSE f[c(m)]]
<1>0. r \in Trees BY DEF Shape
<1>1. \A m \in Keys : c(m) \in Pointers /\ m \in Pointers /\ (c(m) # NULL => c(m) \in Keys)
  BY <1>0, NullIsNoKey DEF Trees, Pointers
<1>2. \E f : Defines(f)
  <2>1. PICK V0, z, G0 : V0 = V /\ z = NULL /\ G0 = G OBVIOUS
  <2>2. \A m \in Keys, a \in V, b \in V : Value(m, a, b) \in V BY <1>1
  <2>3. G0 \in [Keys -> [V0 -> [V0 -> V0]]] /\ z \in V0
    <3> HIDE DEF V, Value
    <3>1. G \in [Keys -> [V -> [V -> V]]] BY <2>2
    <3>2. NULL \in V BY NullIsNoKey DEF V
    <3> QED BY <2>1, <3>1, <3>2
  <2>4. PICK g : Made(g, r.child["left"], r.child["right"], V0, z, G0) BY <2>3, Downwards, Zenon
  <2>5. /\ g \in [Pointers -> V]
        /\ \A m \in Keys : g[m] = G[m][g[r.child["left"][m]]][g[r.child["right"][m]]]
    BY <2>1, <2>4 DEF Made
  <2>6. ASSUME NEW m \in Keys PROVE g[m] = IF c(m) = NULL THEN m ELSE g[c(m)]
    <3>1. PICK a, b : a = g[r.child["left"][m]] /\ b = g[r.child["right"][m]] OBVIOUS
    <3>2. r.child["left"][m] \in Pointers /\ r.child["right"][m] \in Pointers
      BY <1>0 DEF Trees, Sides
    <3>3. a \in V /\ b \in V BY <2>5, <3>1, <3>2, Zenon
    <3>4. g[m] = G[m][a][b] BY <2>5, <3>1
    <3> HIDE DEF V
    <3>5. g[m] = Value(m, a, b)
      <4> HIDE DEF Value
      <4> QED BY <3>3, <3>4
    <3> QED BY <3>1, <3>5 DEF Sides
  <2> DEFINE f == [m \in Keys |-> g[m]]
  <2>7. \A m \in Keys : f[m] = IF c(m) = NULL THEN m ELSE f[c(m)] BY <1>1, <2>6
  <2>8. f = [m \in Keys |-> f[m]] OBVIOUS
  <2> HIDE DEF f, c
  <2>9. Defines(f) BY <2>7, <2>8
  <2> HIDE DEF Defines
  <2> QED BY <2>9
<1> DEFINE f == CHOOSE f : Defines(f)
<1>3. Defines(f)
  <2> HIDE DEF Defines
  <2> QED BY <1>2
<1>4. n # NULL /\ D[r.root] \subseteq Keys BY NodeFacts
<1>5. End(r, side, n) = f[n] BY <1>4 DEF End
<1> HIDE DEF f
<1>6. \A m \in Keys : f[m] = IF c(m) = NULL THEN m ELSE f[c(m)] BY <1>3
<1> HIDE DEF Defines
<1> DEFINE P == {m \in D[r.root] : Outermost(side, D[m], f[m]) /\ c(f[m]) = NULL}
<1>7. ASSUME NEW m \in D[r.root],
             \A s \in Sides : r.child[s][m] # NULL => r.child[s][m] \in P
      PROVE  m \in P
  <2>1. PICK e, b : e = c(m) /\ b = r.child[Other(side)][m] OBVIOUS
  <2>2. Fork(r, D, m, side, e, b) BY <2>1, ForkFacts
  <2>3. m \in Keys /\ \A x \in Keys : Before(side, m, x) <=> Before(Other(side), x, m)
    BY <1>4, OrderFacts
  <2>4. ASSUME NEW x \in D[b] PROVE Before(side, m, x)
    <3>1. x \in Keys /\ Before(Other(side), x, m) BY <2>2 DEF Fork
    <3> QED BY <2>3, <3>1
  <2>5. CASE e = NULL
    <3>1. f[m] = m /\ c(f[m]) = NULL BY <1>6, <2>1, <2>3, <2>5
    <3>2. D[m] = {m} \cup D[b] BY <2>2, <2>5 DEF Fork, Shape
    <3>3. Outermost(side, D[m], m) BY <2>4, <3>2 DEF Outermost
    <3> QED BY <3>1, <3>3
  <2>6. CASE e # NULL
    <3>1. f[m] = f[e] BY <1>6, <2>1, <2>3, <2>6
    <3>2. PICK y : y = f[e] OBVIOUS
    <3>3. Outermost(side, D[e], y) /\ c(y) = NULL BY <1>7, <2>1, <2>6, <3>2
    <3>4. /\ D[m] = {m} \cup D[e] \cup D[b] /\ D[e] \subseteq Keys /\ D[b] \subseteq Keys
          /\ \A x \in D[e] : Before(side, x, m)
      BY <2>2 DEF Fork
    <3>5. y \in D[e] /\ \A x \in D[e] : x = y \/ Before(side, y, x) BY <3>3 DEF Outermost
    <3>6. ASSUME NEW x \in D[m] PROVE x = y \/ Before(side, y, x)
      <4>1. y \in Keys /\ Before(side, y, m) BY <3>4, <3>5
      <4>2. CASE x = m BY <4>1, <4>2
      <4>3. CASE x \in D[e] BY <3>5, <4>3
      <4>4. CASE x \in D[b]
        <5>1. x \in Keys /\ Before(side, m, x) BY <2>4, <3>4, <4>4
        <5> QED BY <2>3, <4>1, <5>1, OrderFacts
      <4> QED BY <3>4, <4>2, <4>3, <4>4
    <3>7. Outermost(side, D[m], y) BY <3>4, <3>5, <3>6 DEF Outermost
    <3> QED BY <3>1, <3>2, <3>3, <3>7
  <2> QED BY <2>5, <2>6
<1> HIDE DEF P
<1>8. D[r.root] \subseteq P BY <1>7, FromTheLeaves
<1> QED BY <1>5, <1>8 DEF P

\* What a query that goes to the last node after which the way went to the side finds.
LEMMA LastBeforeFacts ==
  ASSUME NEW r, NEW D, Shape(r, D), Blank(r, D[r.root]), NEW side \in Sides,
         NEW lefts \in SUBSET Keys, \A m, n \in Keys : m \in lefts /\ m < n => n \in lefts,
         NEW A, A = {m \in D[r.root] : m \in lefts <=> side = "left"}
  PROVE  IF A = {} THEN LastBefore(r, side, lefts) = NULL
         ELSE Outermost(side, A, LastBefore(r, side, lefts))
<1> DEFINE way(m) == IF m \in lefts THEN "left" ELSE "right"
           Of(X) == {m \in X : way(m) = side}
           Pick(m, below) == IF below = NULL /\ way(m) = side THEN m ELSE below
           Value(m, a, b) == Pick(m, IF way(m) = "left" THEN a ELSE b)
           V == Pointers
           G == [m \in Keys |-> [a \in V |-> [b \in V |-> Value(m, a, b)]]]
           Defines(f) ==
             f = [n \in Pointers |->
                    IF n = NULL THEN NULL
                    ELSE LET below == f[r.child[way(n)][n]]
                         IN  IF below = NULL /\ way(n) = side THEN n ELSE below]
<1>0. r \in Trees /\ D[r.root] \subseteq Keys BY NodeFacts DEF Shape
<1>1. \A m \in Keys : way(m) \in Sides /\ r.child[way(m)][m] \in Pointers /\ m \in Pointers
  BY <1>0, NullIsNoKey DEF Trees, Sides
<1>2. \E f : Defines(f)
  <2>1. PICK V0, z, G0 : V0 = V /\ z = NULL /\ G0 = G OBVIOUS
  <2>2. \A m \in Keys, a \in V, b \in V : Value(m, a, b) \in V BY <1>1
  <2>3. G0 \in [Keys -> [V0 -> [V0 -> V0]]] /\ z \in V0
    <3> HIDE DEF V, Value
    <3>1. G \in [Keys -> [V -> [V -> V]]] BY <2>2
    <3>2. NULL \in V BY NullIsNoKey DEF V
    <3> QED BY <2>1, <3>1, <3>2
  <2>4. PICK f : Made(f, r.child["left"], r.child["right"], V0, z, G0) BY <2>3, Downwards, Zenon
  <2>5. /\ f \in [Pointers -> V] /\ f[NULL] = NULL
        /\ \A m \in Keys : f[m] = G[m][f[r.child["left"][m]]][f[r.child["right"][m]]]
    BY <2>1, <2>4 DEF Made
  <2>6. ASSUME NEW m \in Keys PROVE f[m] = Pick(m, f[r.child[way(m)][m]])
    <3>1. PICK a, b : a = f[r.child["left"][m]] /\ b = f[r.child["right"][m]] OBVIOUS
    <3>2. r.child["left"][m] \in Pointers /\ r.child["right"][m] \in Pointers
      BY <1>0 DEF Trees, Sides
    <3>3. a \in V /\ b \in V BY <2>5, <3>1, <3>2, Zenon
    <3>4. f[m] = G[m][a][b] BY <2>5, <3>1
    <3> HIDE DEF V
    <3>5. f[m] = Value(m, a, b)
      <4> HIDE DEF Value
      <4> QED BY <3>3, <3>4
    <3> HIDE DEF Pick
    <3> QED BY <3>1, <3>5
  <2>7. \A n \in Pointers : f[n] = IF n = NULL THEN NULL ELSE Pick(n, f[r.child[way(n)][n]])
    <3> HIDE DEF Pick, way
    <3> QED BY <2>5, <2>6 DEF Pointers
  <2>8. f = [n \in Pointers |-> f[n]] BY <2>5
  <2>9. f = [n \in Pointers |-> IF n = NULL THEN NULL ELSE Pick(n, f[r.child[way(n)][n]])]
    <3> HIDE DEF Pick, way
    <3> QED BY <2>7, <2>8
  <2>10. Defines(f) BY <2>9, Zenon
  <2> HIDE DEF Defines
  <2> QED BY <2>10
<1> DEFINE f == CHOOSE f : Defines(f)
<1>3. Defines(f)
  <2> HIDE DEF Defines
  <2> QED BY <1>2
<1>4. LastBefore(r, side, lefts) = f[r.root] BY DEF LastBefore
<1> HIDE DEF f
<1>5. f[NULL] = NULL /\ \A m \in Keys : f[m] = Pick(m, f[r.child[way(m)][m]])
  <2>1. f[NULL] = NULL BY <1>3, NullIsNoKey
  <2>2. \A n \in Keys : n \in Pointers /\ n # NULL BY NullIsNoKey
  <2> QED BY <1>3, <2>1, <2>2, Zenon
<1> HIDE DEF Defines
<1> DEFINE Found(m) == IF Of(D[m]) = {} THEN f[m] = NULL ELSE Outermost(side, Of(D[m]), f[m])
           P == {m \in D[r.root] : Found(m)}
<1>6. ASSUME NEW m \in D[r.root],
             \A s \in Sides : r.child[s][m] # NULL => r.child[s][m] \in P
      PROVE  m \in P
  <2>1. PICK w : w = way(m) OBVIOUS
  <2>2. PICK e, b : e = r.child[w][m] /\ b = r.child[Other(w)][m] OBVIOUS
  <2>3. w \in Sides /\ m \in Keys BY <1>0, <1>1, <2>1
  <2>4. Fork(r, D, m, w, e, b) BY <2>2, <2>3, ForkFacts
  <2>5. /\ D[m] = {m} \cup D[e] \cup D[b] /\ D[e] \subseteq Keys /\ D[b] \subseteq Keys
        /\ \A x \in D[e] : Before(w, x, m)
        /\ \A x \in D[b] : Before(Other(w), x, m)
    BY <2>4 DEF Fork
  <2>6. f[m] = Pick(m, f[e]) BY <1>5, <2>1, <2>2, <2>3
  <2>7. IF Of(D[e]) = {} THEN f[e] = NULL ELSE Outermost(side, Of(D[e]), f[e])
    <3>1. CASE e = NULL
      <4>1. Of(D[e]) = {} BY <3>1 DEF Shape
      <4> QED BY <1>5, <3>1, <4>1
    <3>2. CASE e # NULL
      <4>1. e \in P BY <1>6, <2>2, <2>3, <3>2
      <4> QED BY <4>1
    <3> QED BY <3>1, <3>2
  <2>8. PICK y : y = f[e] OBVIOUS
  <2>9. CASE w = side
    <3>1. \A x \in D[b] : Before(side, m, x) BY <2>3, <2>5, <2>9, OrderFacts
    <3>2. CASE Of(D[e]) = {}
      <4>1. f[m] = m BY <2>1, <2>6, <2>7, <2>9, <3>2
      <4>2. m \in Of(D[m]) BY <2>1, <2>5, <2>9
      <4>3. \A x \in Of(D[m]) : x = m \/ Before(side, m, x) BY <2>5, <3>1, <3>2
      <4> QED BY <4>1, <4>2, <4>3 DEF Outermost
    <3>3. CASE Of(D[e]) # {}
      <4>1. y \in Of(D[e]) /\ \A x \in Of(D[e]) : x = y \/ Before(side, y, x)
        BY <2>7, <2>8, <3>3 DEF Outermost
      <4>2. y \in Keys /\ y # NULL /\ Before(side, y, m) BY <2>5, <2>9, <4>1, NullIsNoKey
      <4>3. f[m] = y BY <2>6, <2>8, <4>2
      <4>4. y \in Of(D[m]) BY <2>5, <4>1
      <4>5. ASSUME NEW x \in Of(D[m]) PROVE x = y \/ Before(side, y, x)
        <5>1. CASE x = m BY <4>2, <5>1
        <5>2. CASE x \in D[e] BY <4>1, <5>2
        <5>3. CASE x \in D[b]
          <6>1. x \in Keys /\ Before(side, m, x) BY <2>5, <3>1, <5>3
          <6> QED BY <2>3, <4>2, <6>1, OrderFacts
        <5> QED BY <2>5, <5>1, <5>2, <5>3
      <4> QED BY <4>3, <4>4, <4>5 DEF Outermost
    <3> QED BY <3>2, <3>3
  <2>10. CASE w # side
    <3>1. Other(w) = side BY <2>3, <2>10, SideFacts
    <3>2. Keys \subseteq Nat BY RBTreeAssumption
    <3>3. ASSUME NEW x \in D[b] PROVE way(x) # side
      <4>1. x \in Keys /\ Before(side, x, m) BY <2>5, <3>1
      <4>2. CASE side = "left"
        <5>1. m \notin lefts /\ x < m BY <2>1, <2>10, <4>1, <4>2 DEF Before
        <5>2. x \notin lefts BY <2>3, <4>1, <5>1
        <5> QED BY <4>2, <5>2
      <4>3. CASE side = "right"
        <5>1. m \in lefts /\ m < x BY <2>1, <2>10, <4>1, <4>3 DEF Before
        <5>2. x \in lefts BY <2>3, <4>1, <5>1
        <5> QED BY <4>3, <5>2
      <4> QED BY <4>2, <4>3 DEF Sides
    <3>4. Of(D[m]) = Of(D[e]) BY <2>1, <2>5, <2>10, <3>3
    <3>5. f[m] = f[e] BY <2>1, <2>6, <2>10
    <3> QED BY <2>7, <3>4, <3>5
  <2> QED BY <2>9, <2>10
<1> HIDE DEF P, Found
<1>7. D[r.root] \subseteq P BY <1>6, FromTheLeaves
<1>8. Found(r.root)
  <2>1. CASE r.root = NULL
    <3>1. Of(D[r.root]) = {} BY <2>1 DEF Shape
    <3> QED BY <1>5, <2>1, <3>1 DEF Found
  <2>2. CASE r.root # NULL BY <1>7, <2>2 DEF P, Shape
  <2> QED BY <2>1, <2>2
<1>9. Of(D[r.root]) = A BY DEF Sides
<1> HIDE DEF Of
<1> QED BY <1>4, <1>8, <1>9 DEF Found

\* Induction from the root to the leaves.
LEMMA FromTheRoot ==
  ASSUME NEW r, NEW D, Shape(r, D), NEW P,
         \A n \in D[r.root] : (n # r.root => r.parent[n] \in P) => n \in P
  PROVE  D[r.root] \subseteq P
<1> DEFINE Q == {n \in D[r.root] : n \in P => D[n] \subseteq P}
<1>1. ASSUME NEW n \in D[r.root],
             \A s \in Sides : r.child[s][n] # NULL => r.child[s][n] \in Q
      PROVE  n \in Q
  <2> SUFFICES ASSUME n \in P, NEW m \in D[n] PROVE m \in P OBVIOUS
  <2>1. CASE m = n BY <2>1
  <2>2. CASE m # n
    <3>1. PICK s \in Sides : m \in D[r.child[s][n]] BY <2>2, NodeFacts DEF Sides, Shape, Node
    <3>2. PICK c : c = r.child[s][n] OBVIOUS
    <3>3. c # NULL BY <3>1, <3>2 DEF Shape
    <3>4. c \in D[r.root] /\ r.parent[c] = n BY <3>2, <3>3, NodeFacts
    <3>5. c \in P BY <3>4
    <3>6. c \in Q BY <1>1, <3>2, <3>3
    <3> QED BY <3>1, <3>2, <3>5, <3>6, Zenon
  <2> QED BY <2>1, <2>2
<1> HIDE DEF Q
<1>2. D[r.root] \subseteq Q BY <1>1, FromTheLeaves
<1>3. CASE r.root = NULL BY <1>3 DEF Shape
<1>4. CASE r.root # NULL
  <2>1. r.root \in D[r.root] BY <1>4 DEF Shape
  <2> QED BY <1>2, <2>1 DEF Q
<1> QED BY <1>3, <1>4

\* The nodes that are not under n come before all those that are, or after them.
LEMMA Convex ==
  ASSUME NEW r, NEW D, Shape(r, D), NEW n \in D[r.root], NEW m \in D[r.root] \ D[n]
  PROVE  (\A x \in D[n] : m < x) \/ (\A x \in D[n] : x < m)
<1> DEFINE Apart(l) == \A k \in D[r.root] \ D[l] : (\A x \in D[l] : k < x) \/ (\A x \in D[l] : x < k)
           P == {l \in D[r.root] : Apart(l)}
<1>1. ASSUME NEW l \in D[r.root], l # r.root => r.parent[l] \in P PROVE l \in P
  <2> SUFFICES ASSUME NEW k \in D[r.root] \ D[l]
               PROVE  (\A x \in D[l] : k < x) \/ (\A x \in D[l] : x < k)
    OBVIOUS
  <2>1. l # r.root OBVIOUS
  <2>2. PICK p : p = r.parent[l] OBVIOUS
  <2>3. PICK s \in Sides : p \in D[r.root] /\ r.child[s][p] = l BY <2>1, <2>2, NodeFacts
  <2>4. PICK b : b = r.child[Other(s)][p] OBVIOUS
  <2>5. Fork(r, D, p, s, l, b) BY <2>3, <2>4, ForkFacts
  <2>6. /\ p \in Keys /\ D[p] = {p} \cup D[l] \cup D[b] /\ D[l] \subseteq Keys /\ D[b] \subseteq Keys
        /\ \A x \in D[l] : Before(s, x, p)
        /\ \A x \in D[b] : Before(Other(s), x, p)
    BY <2>5 DEF Fork
  <2>7. CASE k \in D[p]
    <3>1. k \in Keys /\ (k = p \/ Before(s, p, k)) BY <2>3, <2>6, <2>7, OrderFacts
    <3>2. \A x \in D[l] : Before(s, x, k) BY <2>3, <2>6, <3>1, OrderFacts
    <3> QED BY <2>3, <3>2 DEF Before, Sides
  <2>8. CASE k \notin D[p]
    <3>1. Apart(p) BY <1>1, <2>1, <2>2
    <3> QED BY <2>6, <2>8, <3>1
  <2> QED BY <2>7, <2>8
<1> HIDE DEF P
<1>2. D[r.root] \subseteq P BY <1>1, FromTheRoot
<1> QED BY <1>2 DEF P

\* The climb of lgx_rb_next.
LEMMA Upwards ==
  ASSUME NEW r, NEW D, Shape(r, D), Blank(r, D[r.root]),
         NEW V, NEW z \in V, NEW G \in [Keys -> [V -> [V -> V]]]
  PROVE  \E f : Made(f, r.parent, r.parent, V, z, G)
<1> DEFINE S == D[r.root]
<1>1. IsFiniteSet(S) /\ r \in Trees /\ Cardinality(S) \in Nat
  BY FS_CardinalityType DEF Shape
<1>2. PICK N \in Nat : N = Cardinality(S) BY <1>1
<1> DEFINE rank == [n \in Pointers |-> IF n \in S THEN N - Cardinality(D[n]) ELSE 0]
<1>3. ASSUME NEW n \in S
      PROVE  IsFiniteSet(D[n]) /\ Cardinality(D[n]) \in 0 .. N
  <2>1. D[n] \subseteq S BY NodeFacts
  <2>2. IsFiniteSet(D[n]) /\ Cardinality(D[n]) <= Cardinality(S) BY <1>1, <2>1, FS_Subset
  <2>3. Cardinality(D[n]) \in Nat BY <2>2, FS_CardinalityType
  <2> QED BY <1>2, <2>2, <2>3
<1>4. rank \in [Pointers -> 0 .. N]
  <2>1. ASSUME NEW n \in S PROVE N - Cardinality(D[n]) \in 0 .. N
    <3>1. PICK i : i = Cardinality(D[n]) OBVIOUS
    <3>2. i \in 0 .. N BY <1>3, <3>1
    <3> QED BY <1>2, <3>1, <3>2
  <2> QED BY <1>2, <2>1
<1>5. ASSUME NEW n \in Keys, r.parent[n] # NULL
      PROVE  rank[r.parent[n]] < rank[n]
  <2>1. n \in S BY <1>5 DEF Blank
  <2>2. n # r.root BY <1>5, <2>1, NodeFacts
  <2>3. PICK p : p = r.parent[n] OBVIOUS
  <2>4. PICK s \in Sides : p \in S /\ r.child[s][p] = n BY <2>1, <2>2, <2>3, NodeFacts
  <2>5. Fork(r, D, p, s, n, r.child[Other(s)][p]) BY <2>4, ForkFacts
  <2>6. n \in Pointers /\ p \in Pointers /\ D[n] \subseteq D[p] /\ D[n] # D[p]
    BY <2>5, NullIsNoKey DEF Fork
  <2>7. IsFiniteSet(D[n]) /\ IsFiniteSet(D[p]) BY <1>3, <2>1, <2>4
  <2>8. PICK U, W : U = D[n] /\ W = D[p] OBVIOUS
  <2>9. Cardinality(U) <= Cardinality(W) /\ (Cardinality(W) = Cardinality(U) => W = U)
    BY <2>6, <2>7, <2>8, FS_Subset
  <2>10. PICK i, j : i = Cardinality(U) /\ j = Cardinality(W) OBVIOUS
  <2>11. i \in Nat /\ j \in Nat BY <2>7, <2>8, <2>10, FS_CardinalityType
  <2>12. i <= j /\ i # j BY <2>6, <2>8, <2>9, <2>10
  <2>13. N - j < N - i BY <1>2, <2>11, <2>12
  <2>14. rank[n] = N - i /\ rank[p] = N - j BY <2>1, <2>4, <2>6, <2>8, <2>10
  <2> HIDE DEF rank
  <2> QED BY <2>3, <2>13, <2>14
<1>6. r.parent \in [Keys -> Pointers] BY <1>1 DEF Trees
<1> HIDE DEF rank
<1>7. PICK k, L : k = rank /\ L = r.parent OBVIOUS
<1>8. Falls(N, k, L, L) BY <1>4, <1>5, <1>6, <1>7 DEF Falls
<1>9. \E f : Made(f, L, L, V, z, G) BY <1>8, Descent
<1> QED BY <1>7, <1>9

\* lgx_rb_next finds the first of the greater nodes, if there are any.
LEMMA NextFacts ==
  ASSUME NEW r, NEW D, Shape(r, D), Blank(r, D[r.root]), NEW k \in D[r.root],
         NEW A, A = {m \in D[r.root] : k < m}
  PROVE  IF A = {} THEN lgx_rb_next(r, k) = NULL ELSE Outermost("left", A, lgx_rb_next(r, k))
<1> DEFINE S == D[r.root]
           Turns(n) == r.parent[n] # NULL /\ n = r.child["right"][r.parent[n]]
           Value(n, a) == IF Turns(n) THEN a ELSE r.parent[n]
           V == Pointers
           G == [n \in Keys |-> [a \in V |-> [b \in V |-> Value(n, a)]]]
           Defines(f) ==
             f = [n \in Keys |-> LET p == r.parent[n]
                                 IN  IF p # NULL /\ n = r.child["right"][p] THEN f[p] ELSE p]
<1>0. r \in Trees /\ S \subseteq Keys /\ k \in Keys /\ Keys \subseteq Nat
  BY NodeFacts, RBTreeAssumption DEF Shape
<1>1. \A n \in Keys : r.parent[n] \in Pointers /\ (r.parent[n] # NULL => r.parent[n] \in Keys)
  BY <1>0 DEF Trees, Pointers
<1>2. \E f : Defines(f)
  <2>1. PICK V0, z, G0 : V0 = V /\ z = NULL /\ G0 = G OBVIOUS
  <2>2. \A n \in Keys, a \in V : Value(n, a) \in V BY <1>1
  <2>3. G0 \in [Keys -> [V0 -> [V0 -> V0]]] /\ z \in V0
    <3> HIDE DEF V, Value
    <3>1. G \in [Keys -> [V -> [V -> V]]] BY <2>2
    <3>2. NULL \in V BY NullIsNoKey DEF V
    <3> QED BY <2>1, <3>1, <3>2
  <2>4. PICK g : Made(g, r.parent, r.parent, V0, z, G0) BY <2>3, Upwards, Zenon
  <2>5. /\ g \in [Pointers -> V]
        /\ \A n \in Keys : g[n] = G[n][g[r.parent[n]]][g[r.parent[n]]]
    BY <2>1, <2>4 DEF Made
  <2>6. ASSUME NEW n \in Keys PROVE g[n] = Value(n, g[r.parent[n]])
    <3>1. PICK a : a = g[r.parent[n]] OBVIOUS
    <3>2. a \in V BY <1>1, <2>5, <3>1
    <3>3. g[n] = G[n][a][a] BY <2>5, <3>1
    <3> HIDE DEF V, Value
    <3> QED BY <3>1, <3>2, <3>3
  <2> DEFINE f == [n \in Keys |-> g[n]]
  <2>7. \A n \in Keys : f[n] = IF Turns(n) THEN f[r.parent[n]] ELSE r.parent[n]
    BY <1>1, <2>6
  <2>8. f = [n \in Keys |-> f[n]] OBVIOUS
  <2> HIDE DEF f
  <2>9. Defines(f) BY <2>7, <2>8
  <2> HIDE DEF Defines
  <2> QED BY <2>9
<1> DEFINE f == CHOOSE f : Defines(f)
<1>3. Defines(f)
  <2> HIDE DEF Defines
  <2> QED BY <1>2
<1>4. lgx_rb_next(r, k) = IF r.child["right"][k] # NULL THEN End(r, "left", r.child["right"][k])
                          ELSE f[k]
  BY DEF lgx_rb_next
<1> HIDE DEF f
<1>5. \A n \in Keys : f[n] = IF Turns(n) THEN f[r.parent[n]] ELSE r.parent[n] BY <1>3
<1> HIDE DEF Defines
<1>6. PICK L, R : L = "left" /\ R = "right" OBVIOUS
<1>7. /\ L \in Sides /\ R \in Sides /\ Other(L) = R /\ Other(R) = L /\ L # R
      /\ \A s \in Sides : s = L \/ s = R
      /\ \A x, y : (Before(L, x, y) <=> x < y) /\ (Before(R, x, y) <=> y < x)
  BY <1>6 DEF Sides, Other, Before
<1> DEFINE Above(n) == {m \in S \ D[n] : \A x \in D[n] : x < m}
           Right(n) == IF Above(n) = {} THEN f[n] = NULL ELSE Outermost(L, Above(n), f[n])
           P == {n \in S : Right(n)}
<1>8. ASSUME NEW n \in S, n # r.root => r.parent[n] \in P PROVE n \in P
  <2>1. n \in Keys /\ n \in D[n] BY <1>0, NodeFacts
  <2>2. CASE n = r.root
    <3>1. Above(n) = {} /\ r.parent[n] = NULL BY <2>2, NodeFacts
    <3> QED BY <1>5, <2>1, <3>1
  <2>3. CASE n # r.root
    <3>1. PICK p : p = r.parent[n] OBVIOUS
    <3>2. PICK s \in Sides : p \in S /\ r.child[s][p] = n BY <2>3, <3>1, NodeFacts
    <3>3. PICK b : b = r.child[Other(s)][p] OBVIOUS
    <3>4. Fork(r, D, p, s, n, b) BY <3>2, <3>3, ForkFacts
    <3>5. /\ p \in Keys /\ p # NULL /\ D[p] = {p} \cup D[n] \cup D[b] /\ p \in D[p]
          /\ p \notin D[n] /\ D[n] \cap D[b] = {} /\ D[n] \subseteq S
          /\ \A x \in D[n] : Before(s, x, p)
          /\ \A x \in D[b] : Before(Other(s), x, p)
          /\ n # b /\ D[n] \subseteq Keys /\ D[b] \subseteq Keys
      BY <2>1, <3>4, NullIsNoKey DEF Fork
    <3>6. CASE s = R
      <4>1. f[n] = f[p] BY <1>5, <1>6, <2>1, <3>1, <3>2, <3>5, <3>6
      <4>2. ASSUME NEW m \in Above(n) PROVE m \in Above(p)
        <5>1. m \notin D[p]
          <6> SUFFICES ASSUME m \in D[p] PROVE FALSE OBVIOUS
          <6>1. n < m /\ p < n BY <1>7, <2>1, <3>5, <3>6
          <6>2. m = p \/ m < p BY <1>7, <3>5, <3>6
          <6>3. m \in Nat /\ n \in Nat /\ p \in Nat BY <1>0, <2>1, <3>5
          <6> QED BY <6>1, <6>2, <6>3
        <5>2. (\A x \in D[p] : m < x) \/ (\A x \in D[p] : x < m) BY <3>2, <5>1, Convex
        <5>3. n < m /\ n \in D[p] BY <2>1, <3>5
        <5>5. m \in Nat /\ n \in Nat BY <1>0, <2>1
        <5>4. ~(m < n) BY <5>3, <5>5
        <5> QED BY <5>1, <5>2, <5>3, <5>4
      <4>3. ASSUME NEW m \in Above(p) PROVE m \in Above(n) BY <3>5
      <4>4. Above(n) = Above(p) BY <4>2, <4>3
      <4>5. Right(p) BY <1>8, <2>3, <3>1
      <4> HIDE DEF Above
      <4>6. Right(n) BY <4>1, <4>4, <4>5
      <4> QED BY <4>6
    <3>7. CASE s = L
      <4>1. r.child[R][p] = b BY <1>7, <3>3, <3>7
      <4>2. f[n] = p BY <1>5, <1>6, <2>1, <3>1, <3>5, <4>1
      <4>3. p \in Above(n) BY <1>7, <3>2, <3>5, <3>7
      <4>4. ASSUME NEW m \in Above(n) PROVE m = p \/ p < m
        <5>1. CASE m \in D[p] BY <1>7, <3>5, <3>7, <5>1
        <5>2. CASE m \notin D[p]
          <6>1. (\A x \in D[p] : m < x) \/ (\A x \in D[p] : x < m) BY <3>2, <5>2, Convex
          <6>2. n < m /\ n \in D[p] BY <2>1, <3>5
          <6>4. m \in Nat /\ n \in Nat BY <1>0, <2>1
          <6>3. ~(m < n) BY <6>2, <6>4
          <6> QED BY <3>5, <6>1, <6>2, <6>3
        <5> QED BY <5>1, <5>2
      <4>5. Outermost(L, Above(n), f[n]) BY <1>7, <4>2, <4>3, <4>4 DEF Outermost
      <4> QED BY <4>3, <4>5
    <3> QED BY <1>7, <3>6, <3>7
  <2> QED BY <2>2, <2>3
<1> HIDE DEF P
<1>9. S \subseteq P BY <1>8, FromTheRoot
<1>10. PICK c, a : c = r.child[R][k] /\ a = r.child[L][k] OBVIOUS
<1>11. Fork(r, D, k, R, c, a) BY <1>7, <1>10, ForkFacts
<1>12. /\ k \in D[k] /\ D[k] = {k} \cup D[c] \cup D[a] /\ D[k] \subseteq S
       /\ \A x \in D[c] : k < x
       /\ \A x \in D[a] : x < k
       /\ c # NULL => c \in S /\ c \in D[c]
  BY <1>7, <1>11 DEF Fork
<1>13. ASSUME NEW m \in A, m \notin D[k] PROVE \A x \in D[k] : x < m
  <2>1. (\A x \in D[k] : m < x) \/ (\A x \in D[k] : x < m) BY <1>13, Convex
  <2>3. m \in Nat /\ k \in Nat /\ k < m BY <1>0
  <2>2. ~(m < k) BY <2>3
  <2> QED BY <1>12, <2>1, <2>2
<1>14. \A m \in A : m \notin D[a] /\ m # k
  <2> SUFFICES ASSUME NEW m \in A, m \in D[a] \/ m = k PROVE FALSE OBVIOUS
  <2>1. m \in Nat /\ k \in Nat /\ k < m BY <1>0
  <2> QED BY <1>12, <2>1
<1>15. CASE c # NULL
  <2>1. PICK y : y = End(r, L, c) OBVIOUS
  <2>2. Outermost(L, D[c], y) BY <1>7, <1>12, <1>15, <2>1, EndFacts
  <2>3. y \in D[c] /\ \A x \in D[c] : x = y \/ y < x BY <1>7, <2>2 DEF Outermost
  <2>4. y \in A BY <1>12, <2>3
  <2>5. ASSUME NEW m \in A PROVE m = y \/ y < m
    <3>1. CASE m \in D[c] BY <2>3, <3>1
    <3>2. CASE m \notin D[c]
      <4>1. m \notin D[k] BY <1>12, <1>14, <3>2
      <4> QED BY <1>12, <1>13, <2>3, <4>1
    <3> QED BY <3>1, <3>2
  <2>6. Outermost(L, A, y) BY <1>7, <2>4, <2>5 DEF Outermost
  <2> QED BY <1>4, <1>6, <1>10, <1>15, <2>1, <2>4, <2>6
<1>16. CASE c = NULL
  <2>1. D[c] = {} BY <1>16 DEF Shape
  <2>2. ASSUME NEW m \in A PROVE m \in Above(k) BY <1>12, <1>13, <1>14, <2>1
  <2>3. ASSUME NEW m \in Above(k) PROVE m \in A BY <1>12
  <2>4. A = Above(k) BY <2>2, <2>3
  <2>5. Right(k) BY <1>9 DEF P
  <2> HIDE DEF Above
  <2> QED BY <1>4, <1>6, <1>10, <1>16, <2>4, <2>5
<1> QED BY <1>15, <1>16

\* The nodes reached from the root are those under it.
LEMMA NodesFacts ==
  ASSUME NEW r, NEW D, Shape(r, D), Blank(r, D[r.root])
  PROVE  Nodes(r) = D[r.root]
<1> DEFINE V == SUBSET Keys
           Value(n, a, b) == {n} \cup a \cup b
           G == [n \in Keys |-> [a \in V |-> [b \in V |-> Value(n, a, b)]]]
           Defines(f) ==
             f = [n \in Pointers |-> IF n = NULL THEN {}
                    ELSE {n} \cup f[r.child["left"][n]] \cup f[r.child["right"][n]]]
<1>0. r \in Trees BY DEF Shape
<1>1. \E f : Defines(f)
  <2>1. PICK V0, z, G0 : V0 = V /\ z = {} /\ G0 = G OBVIOUS
  <2>2. \A n \in Keys, a \in V, b \in V : Value(n, a, b) \in V OBVIOUS
  <2>3. G0 \in [Keys -> [V0 -> [V0 -> V0]]] /\ z \in V0
    <3> HIDE DEF V, Value
    <3>1. G \in [Keys -> [V -> [V -> V]]] BY <2>2
    <3>2. {} \in V BY DEF V
    <3> QED BY <2>1, <3>1, <3>2
  <2>4. PICK f : Made(f, r.child["left"], r.child["right"], V0, z, G0) BY <2>3, Downwards
  <2>5. /\ f \in [Pointers -> V] /\ f[NULL] = {}
        /\ \A n \in Keys : f[n] = G[n][f[r.child["left"][n]]][f[r.child["right"][n]]]
    BY <2>1, <2>4 DEF Made
  <2>6. ASSUME NEW n \in Keys
        PROVE  f[n] = {n} \cup f[r.child["left"][n]] \cup f[r.child["right"][n]]
    <3>1. PICK a, b : a = f[r.child["left"][n]] /\ b = f[r.child["right"][n]] OBVIOUS
    <3>2. r.child["left"][n] \in Pointers /\ r.child["right"][n] \in Pointers
      BY <1>0 DEF Trees, Sides
    <3>3. a \in V /\ b \in V BY <2>5, <3>1, <3>2, Zenon
    <3>4. f[n] = G[n][a][b] BY <2>5, <3>1
    <3> HIDE DEF V
    <3>5. f[n] = Value(n, a, b)
      <4> HIDE DEF Value
      <4> QED BY <3>3, <3>4
    <3> QED BY <3>1, <3>5
  <2>7. \A n \in Pointers : f[n] = IF n = NULL THEN {}
           ELSE {n} \cup f[r.child["left"][n]] \cup f[r.child["right"][n]]
    BY <2>5, <2>6 DEF Pointers
  <2>8. f = [n \in Pointers |-> f[n]] BY <2>5
  <2>9. Defines(f) BY <2>7, <2>8
  <2> HIDE DEF Defines
  <2> QED BY <2>9
<1> DEFINE f == CHOOSE f : Defines(f)
<1>2. Defines(f)
  <2> HIDE DEF Defines
  <2> QED BY <1>1
<1>3. Nodes(r) = f[r.root] BY Zenon DEF Nodes
<1> HIDE DEF f
<1>4. f[NULL] = {} /\ \A n \in Keys : f[n] = {n} \cup f[r.child["left"][n]] \cup f[r.child["right"][n]]
  <2>1. f[NULL] = {} BY <1>2, NullIsNoKey
  <2>2. \A n \in Keys : n \in Pointers /\ n # NULL BY NullIsNoKey
  <2> QED BY <1>2, <2>1, <2>2
<1> HIDE DEF Defines
<1> DEFINE P == {n \in D[r.root] : f[n] = D[n]}
<1>5. ASSUME NEW n \in D[r.root],
             \A s \in Sides : r.child[s][n] # NULL => r.child[s][n] \in P
      PROVE  n \in P
  <2>1. n \in Keys BY NodeFacts
  <2>2. \A s \in Sides : f[r.child[s][n]] = D[r.child[s][n]] BY <1>4, <1>5 DEF Shape
  <2>3. D[n] = {n} \cup D[r.child["left"][n]] \cup D[r.child["right"][n]] BY DEF Shape, Node
  <2> QED BY <1>4, <2>1, <2>2, <2>3 DEF Sides
<1> HIDE DEF P
<1>6. D[r.root] \subseteq P BY <1>5, FromTheLeaves
<1>7. f[r.root] = D[r.root]
  <2>1. CASE r.root = NULL BY <1>4, <2>1 DEF Shape
  <2>2. CASE r.root # NULL BY <1>6, <2>2 DEF Shape, P
  <2> QED BY <2>1, <2>2
<1> QED BY <1>3, <1>7

\* All paths down from a node have as many black nodes as H says.
LEMMA BlackNodesFacts ==
  ASSUME NEW r, NEW D, NEW H, Shape(r, D), Blank(r, D[r.root]),
         Levels(r, H, D[r.root], NULL, "left"), NEW n \in D[r.root]
  PROVE  BlackNodes(r)[n] = {H[n]}
<1> DEFINE V == SUBSET Nat
           Value(m, a, b) == {h + Weight(r, m) : h \in a \cup b}
           G == [m \in Keys |-> [a \in V |-> [b \in V |-> Value(m, a, b)]]]
           Defines(f) ==
             f = [m \in Pointers |-> IF m = NULL THEN {0}
                    ELSE {h + (IF r.black[m] THEN 1 ELSE 0) :
                            h \in f[r.child["left"][m]] \cup f[r.child["right"][m]]}]
<1>0. r \in Trees /\ \A m : Weight(r, m) \in Nat BY DEF Shape, Weight
<1>1. \E f : Defines(f)
  <2>1. PICK V0, z, G0 : V0 = V /\ z = {0} /\ G0 = G OBVIOUS
  <2>2. ASSUME NEW m \in Keys, NEW a \in V, NEW b \in V PROVE Value(m, a, b) \in V
    <3>1. Weight(r, m) \in Nat BY <1>0
    <3> QED BY <3>1
  <2>3. G0 \in [Keys -> [V0 -> [V0 -> V0]]] /\ z \in V0
    <3> HIDE DEF V, Value
    <3>1. G \in [Keys -> [V -> [V -> V]]] BY <2>2
    <3>2. {0} \in V BY DEF V
    <3> QED BY <2>1, <3>1, <3>2
  <2>4. PICK f : Made(f, r.child["left"], r.child["right"], V0, z, G0) BY <2>3, Downwards, Zenon
  <2>5. /\ f \in [Pointers -> V] /\ f[NULL] = {0}
        /\ \A m \in Keys : f[m] = G[m][f[r.child["left"][m]]][f[r.child["right"][m]]]
    BY <2>1, <2>4 DEF Made
  <2>6. ASSUME NEW m \in Keys
        PROVE  f[m] = {h + (IF r.black[m] THEN 1 ELSE 0) :
                         h \in f[r.child["left"][m]] \cup f[r.child["right"][m]]}
    <3>1. PICK a, b : a = f[r.child["left"][m]] /\ b = f[r.child["right"][m]] OBVIOUS
    <3>2. r.child["left"][m] \in Pointers /\ r.child["right"][m] \in Pointers
      BY <1>0 DEF Trees, Sides
    <3>3. a \in V /\ b \in V BY <2>5, <3>1, <3>2, Zenon
    <3>4. f[m] = G[m][a][b] BY <2>5, <3>1
    <3> HIDE DEF V
    <3>5. f[m] = Value(m, a, b)
      <4> HIDE DEF Value
      <4> QED BY <3>3, <3>4
    <3> QED BY <3>1, <3>5 DEF Weight
  <2>7. \A m \in Pointers : f[m] = IF m = NULL THEN {0}
           ELSE {h + (IF r.black[m] THEN 1 ELSE 0) :
                   h \in f[r.child["left"][m]] \cup f[r.child["right"][m]]}
    BY <2>5, <2>6 DEF Pointers
  <2>8. f = [m \in Pointers |-> f[m]] BY <2>5
  <2>9. Defines(f) BY <2>7, <2>8
  <2> HIDE DEF Defines
  <2> QED BY <2>9
<1> DEFINE f == CHOOSE f : Defines(f)
<1>2. Defines(f)
  <2> HIDE DEF Defines
  <2> QED BY <1>1
<1>3. BlackNodes(r) = f BY Zenon DEF BlackNodes
<1> HIDE DEF f
<1>4. /\ f[NULL] = {0}
      /\ \A m \in Keys : f[m] = {h + (IF r.black[m] THEN 1 ELSE 0) :
                                   h \in f[r.child["left"][m]] \cup f[r.child["right"][m]]}
  <2>1. f[NULL] = {0} BY <1>2, NullIsNoKey
  <2>2. \A m \in Keys : m \in Pointers /\ m # NULL BY NullIsNoKey
  <2> QED BY <1>2, <2>1, <2>2
<1> HIDE DEF Defines
<1> DEFINE P == {m \in D[r.root] : f[m] = {H[m]}}
<1>5. ASSUME NEW m \in D[r.root],
             \A s \in Sides : r.child[s][m] # NULL => r.child[s][m] \in P
      PROVE  m \in P
  <2>1. m \in Keys /\ m # NULL BY NodeFacts
  <2>2. H[NULL] = 0 /\ \A s \in Sides : Level(r, H, m, s, NULL, "left") BY DEF Levels
  <2>3. \A s \in Sides : f[r.child[s][m]] = {H[r.child[s][m]]} BY <1>4, <1>5, <2>2
  <2>4. \A s \in Sides : H[m] = H[r.child[s][m]] + Weight(r, m) /\ H[r.child[s][m]] \in Nat
    <3>1. Heights(r, H, D[r.root], NULL, "left") BY HeightTypes
    <3> QED BY <2>1, <3>1 DEF Heights, Lack, Weight
  <2>5. PICK a, b : a = H[r.child["left"][m]] /\ b = H[r.child["right"][m]] OBVIOUS
  <2>6. /\ a = b /\ H[m] = a + Weight(r, m)
        /\ f[r.child["left"][m]] = {a} /\ f[r.child["right"][m]] = {b}
    <3>1. PICK w, i : w = Weight(r, m) /\ i = H[m] OBVIOUS
    <3>2. w \in Nat /\ a \in Nat /\ b \in Nat /\ i = a + w /\ i = b + w
      BY <1>0, <2>4, <2>5, <3>1 DEF Sides
    <3>3. a = b BY <3>2
    <3> QED BY <2>3, <2>5, <3>1, <3>2, <3>3 DEF Sides
  <2>7. f[m] = {h + (IF r.black[m] THEN 1 ELSE 0) : h \in {a} \cup {b}} BY <1>4, <2>1, <2>6
  <2>8. f[m] = {a + (IF r.black[m] THEN 1 ELSE 0)} BY <2>6, <2>7
  <2> QED BY <2>6, <2>8 DEF Weight
<1> HIDE DEF P
<1>6. D[r.root] \subseteq P BY <1>5, FromTheLeaves
<1> QED BY <1>3, <1>6 DEF P

\* The outermost of a set of keys is its least or its greatest.
LEMMA OutermostFacts ==
  ASSUME NEW A, A \subseteq Nat, NEW y
  PROVE  /\ (IF A = {} THEN y = NULL ELSE Outermost("left", A, y)) => y = Set!Least(A)
         /\ (IF A = {} THEN y = NULL ELSE Outermost("right", A, y)) => y = Set!Greatest(A)
<1>1. CASE A = {} BY <1>1 DEF Set!Least, Set!Greatest
<1>2. CASE A # {}
  <2>1. ASSUME Outermost("left", A, y) PROVE y = Set!Least(A)
    <3>1. y \in A /\ \A m \in A : y <= m BY <2>1 DEF Outermost, Before
    <3>2. \A m \in A : (\A k \in A : m <= k) => m = y BY <3>1
    <3>3. Set!Least(A) = CHOOSE m \in A : \A k \in A : m <= k BY <1>2 DEF Set!Least
    <3> QED BY <3>1, <3>2, <3>3
  <2>2. ASSUME Outermost("right", A, y) PROVE y = Set!Greatest(A)
    <3>1. y \in A /\ \A m \in A : m <= y BY <2>2 DEF Outermost, Before
    <3>2. \A m \in A : (\A k \in A : k <= m) => m = y BY <3>1
    <3>3. Set!Greatest(A) = CHOOSE m \in A : \A k \in A : k <= m BY <1>2 DEF Set!Greatest
    <3> QED BY <3>1, <3>2, <3>3
  <2> QED BY <1>2, <2>1, <2>2
<1> QED BY <1>1, <1>2

\* What the queries answer about k in a tree of the nodes S.
Answers(r, S, k) ==
  /\ k \in Path(r, k) <=> k \in S
  /\ lgx_rb_get(r, k) = IF k \in S THEN k ELSE NULL
  /\ lgx_rb_get_lesser(r, k) = Set!Greatest({j \in S : j < k})
  /\ lgx_rb_get_lesser_or_equal(r, k) = Set!Greatest({j \in S : j <= k})
  /\ lgx_rb_get_greater(r, k) = Set!Least({j \in S : j > k})
  /\ lgx_rb_get_greater_or_equal(r, k) = Set!Least({j \in S : j >= k})
  /\ k \in S => lgx_rb_next(r, k) = Set!Least({j \in S : j > k})

\* Each query of a sound tree answers as the set of its nodes.
LEMMA QueriesFacts ==
  ASSUME NEW r, NEW D, NEW H, Sound(r, D, H), NEW S, S = D[r.root], NEW k \in Keys
  PROVE  Answers(r, S, k)
<1>1. Shape(r, D) /\ Blank(r, S) BY DEF Sound, RedBlackTree
<1>2. S \subseteq Keys /\ Keys \subseteq Nat BY <1>1, NodeFacts, RBTreeAssumption
<1>3. k \in Path(r, k) <=> k \in S
  <2>1. PICK W : W = Path(r, k) OBVIOUS
  <2>2. CASE r.root = NULL BY <1>1, <2>2, PathIsAWay DEF Shape
  <2>3. CASE r.root # NULL
    <3>1. Way(r, D, k, r.root, W) BY <1>1, <2>1, <2>3, PathIsAWay
    <3> QED BY <2>1, <3>1 DEF Way
  <2> QED BY <2>2, <2>3
<1>4. lgx_rb_get(r, k) = IF k \in S THEN k ELSE NULL BY <1>3 DEF lgx_rb_get
<1>5. ASSUME NEW lefts \in SUBSET Keys, \A m, n \in Keys : m \in lefts /\ m < n => n \in lefts,
             NEW A, A \subseteq Nat
      PROVE  /\ A = {m \in S : m \in lefts} => LastBefore(r, "left", lefts) = Set!Least(A)
             /\ A = {m \in S : m \notin lefts} => LastBefore(r, "right", lefts) = Set!Greatest(A)
  <2>1. ASSUME A = {m \in S : m \in lefts} PROVE LastBefore(r, "left", lefts) = Set!Least(A)
    <3>1. PICK L, y : L = "left" /\ y = LastBefore(r, L, lefts) OBVIOUS
    <3>2. L \in Sides BY <3>1 DEF Sides
    <3>3. A = {m \in D[r.root] : m \in lefts <=> L = "left"} BY <2>1, <3>1
    <3>4. IF A = {} THEN LastBefore(r, L, lefts) = NULL ELSE Outermost(L, A, LastBefore(r, L, lefts))
      BY <1>1, <1>5, <3>2, <3>3, LastBeforeFacts
    <3>5. y = Set!Least(A) BY <1>5, <3>1, <3>4, OutermostFacts
    <3> QED BY <3>1, <3>5
  <2>2. ASSUME A = {m \in S : m \notin lefts} PROVE LastBefore(r, "right", lefts) = Set!Greatest(A)
    <3>1. PICK R, y : R = "right" /\ y = LastBefore(r, R, lefts) OBVIOUS
    <3>2. R \in Sides BY <3>1 DEF Sides
    <3>3. A = {m \in D[r.root] : m \in lefts <=> R = "left"} BY <2>2, <3>1
    <3>4. IF A = {} THEN LastBefore(r, R, lefts) = NULL ELSE Outermost(R, A, LastBefore(r, R, lefts))
      BY <1>1, <1>5, <3>2, <3>3, LastBeforeFacts
    <3>5. y = Set!Greatest(A) BY <1>5, <3>1, <3>4, OutermostFacts
    <3> QED BY <3>1, <3>5
  <2> QED BY <2>1, <2>2
<1>6. PICK X, Y : X = {n \in Keys : n >= k} /\ Y = {n \in Keys : n > k} OBVIOUS
<1>7. /\ X \in SUBSET Keys /\ \A m, n \in Keys : m \in X /\ m < n => n \in X
      /\ Y \in SUBSET Keys /\ \A m, n \in Keys : m \in Y /\ m < n => n \in Y
  BY <1>2, <1>6
<1>8. PICK A, B, C, E : /\ A = {j \in S : j < k} /\ B = {j \in S : j <= k}
                        /\ C = {j \in S : j > k} /\ E = {j \in S : j >= k}
  OBVIOUS
<1>9. /\ A = {m \in S : m \notin X} /\ B = {m \in S : m \notin Y}
      /\ C = {m \in S : m \in Y} /\ E = {m \in S : m \in X}
      /\ A \subseteq Nat /\ B \subseteq Nat /\ C \subseteq Nat /\ E \subseteq Nat
  <2>1. \A m \in S : /\ m \in Keys
                     /\ m < k <=> ~(m >= k)
                     /\ m <= k <=> ~(m > k)
    BY <1>2
  <2>2. \A m \in S : (m \in X <=> m >= k) /\ (m \in Y <=> m > k) BY <1>6, <2>1
  <2>3. A = {m \in S : m \notin X} BY <1>8, <2>1, <2>2
  <2>4. B = {m \in S : m \notin Y} BY <1>8, <2>1, <2>2
  <2>5. C = {m \in S : m \in Y} /\ E = {m \in S : m \in X} BY <1>8, <2>2
  <2> QED BY <1>2, <1>8, <2>3, <2>4, <2>5
<1>10. /\ LastBefore(r, "right", X) = Set!Greatest(A) /\ LastBefore(r, "right", Y) = Set!Greatest(B)
       /\ LastBefore(r, "left", Y) = Set!Least(C) /\ LastBefore(r, "left", X) = Set!Least(E)
  BY <1>5, <1>7, <1>9
<1>11. /\ lgx_rb_get_lesser(r, k) = Set!Greatest(A)
       /\ lgx_rb_get_lesser_or_equal(r, k) = Set!Greatest(B)
       /\ lgx_rb_get_greater(r, k) = Set!Least(C)
       /\ lgx_rb_get_greater_or_equal(r, k) = Set!Least(E)
  BY <1>6, <1>10 DEF lgx_rb_get_lesser, lgx_rb_get_lesser_or_equal, lgx_rb_get_greater,
                     lgx_rb_get_greater_or_equal
<1>12. k \in S => lgx_rb_next(r, k) = Set!Least(C)
  <2> SUFFICES ASSUME k \in S PROVE lgx_rb_next(r, k) = Set!Least(C) OBVIOUS
  <2>1. C = {m \in D[r.root] : k < m} BY <1>2, <1>8
  <2>2. PICK y : y = lgx_rb_next(r, k) OBVIOUS
  <2>3. IF C = {} THEN y = NULL ELSE Outermost("left", C, y) BY <1>1, <2>1, <2>2, NextFacts
  <2>4. y = Set!Least(C) BY <1>9, <2>3, OutermostFacts
  <2> QED BY <2>2, <2>4
<1> QED BY <1>3, <1>4, <1>8, <1>11, <1>12, Zenon DEF Answers

\* The two ends of a sound tree.
LEMMA EndsFacts ==
  ASSUME NEW r, NEW D, NEW H, Sound(r, D, H), NEW S, S = D[r.root]
  PROVE  lgx_rb_get_min(r) = Set!Least(S) /\ lgx_rb_get_max(r) = Set!Greatest(S)
<1>1. Shape(r, D) /\ Blank(r, S) BY DEF Sound, RedBlackTree
<1>2. S \subseteq Nat BY <1>1, NodeFacts, RBTreeAssumption
<1>3. PICK L, R : L = "left" /\ R = "right" OBVIOUS
<1>4. L \in Sides /\ R \in Sides BY <1>3 DEF Sides
<1>5. PICK y, z : y = End(r, L, r.root) /\ z = End(r, R, r.root) OBVIOUS
<1>6. /\ IF S = {} THEN y = NULL ELSE Outermost(L, S, y)
      /\ IF S = {} THEN z = NULL ELSE Outermost(R, S, z)
  <2>1. CASE r.root = NULL BY <1>1, <1>5, <2>1 DEF Shape, End
  <2>2. CASE r.root # NULL
    <3>1. r.root \in S BY <1>1, <2>2 DEF Shape
    <3> QED BY <1>1, <1>4, <1>5, <3>1, EndFacts
  <2> QED BY <2>1, <2>2
<1>7. y = Set!Least(S) /\ z = Set!Greatest(S) BY <1>2, <1>3, <1>6, OutermostFacts
<1> QED BY <1>3, <1>5, <1>7 DEF lgx_rb_get_min, lgx_rb_get_max

-----------------------------------------------------------------------------
(* Deletion: the successor takes the place of a node with two children.    *)

\* q is r with y, which was not among the nodes S, in the place of n and with its colour.
Renames(r, q, S, n, y) ==
  /\ q \in Trees /\ q.size = r.size /\ q.root = IF r.root = n THEN y ELSE r.root
  /\ \A s \in Sides : q.child[s][y] = r.child[s][n]
  /\ \A m \in S \ {n}, s \in Sides : q.child[s][m] = IF r.child[s][m] = n THEN y ELSE r.child[s][m]
  /\ \A m \in Keys \ (S \cup {y}), s \in Sides : q.child[s][m] = r.child[s][m]
  /\ q.parent[y] = r.parent[n] /\ q.black[y] = r.black[n]
  /\ \A m \in Keys \ {y} : q.black[m] = r.black[m]
  /\ \A m \in Keys \ {y} : q.parent[m] = IF \E s \in Sides : r.child[s][n] = m THEN y
                                        ELSE r.parent[m]

\* y is a copy of n.
Copies(r, q, n, y) ==
  /\ q \in Trees /\ q.size = r.size /\ q.root = r.root
  /\ \A m \in Keys, s \in Sides : q.child[s][m] = IF m = y THEN r.child[s][n] ELSE r.child[s][m]
  /\ \A m \in Keys : q.parent[m] = IF m = y THEN r.parent[n] ELSE r.parent[m]
  /\ \A m \in Keys : q.black[m] = IF m = y THEN r.black[n] ELSE r.black[m]

\* What Replaced writes into y, field by field.
LEMMA CopiedParts ==
  ASSUME NEW r \in Trees, NEW n \in Keys, NEW y \in Keys, n # y,
         NEW i, i = [r.child["left"] EXCEPT ![y] = r.child["left"][n]],
         NEW j, j = [r.child["right"] EXCEPT ![y] = r.child["right"][n]],
         NEW p, p = [r.parent EXCEPT ![y] = r.parent[n]],
         NEW b, b = [r.black EXCEPT ![y] = r.black[n]],
         NEW c, c = [r.child EXCEPT !["left"] = i, !["right"] = j],
         NEW q, q = [r EXCEPT !.child = c, !.parent = p, !.black = b]
  PROVE  Copies(r, q, n, y)
<1>1. i \in [Keys -> Pointers] /\ \A m \in Keys : i[m] = IF m = y THEN r.child["left"][n] ELSE r.child["left"][m]
  BY DEF Trees, Sides
<1>2. j \in [Keys -> Pointers] /\ \A m \in Keys : j[m] = IF m = y THEN r.child["right"][n] ELSE r.child["right"][m]
  BY DEF Trees, Sides
<1>3. c \in [Sides -> [Keys -> Pointers]] /\ c["left"] = i /\ c["right"] = j
  BY <1>1, <1>2 DEF Trees, Sides
<1>4. p \in [Keys -> Pointers] /\ \A m \in Keys : p[m] = IF m = y THEN r.parent[n] ELSE r.parent[m]
  BY DEF Trees
<1>5. b \in [Keys -> BOOLEAN] /\ \A m \in Keys : b[m] = IF m = y THEN r.black[n] ELSE r.black[m]
  BY DEF Trees
<1>6. /\ q \in Trees /\ q.size = r.size /\ q.root = r.root
      /\ q.child = c /\ q.parent = p /\ q.black = b
  BY <1>3, <1>4, <1>5 DEF Trees
<1>7. \A m \in Keys, s \in Sides : q.child[s][m] = IF m = y THEN r.child[s][n] ELSE r.child[s][m]
  BY <1>1, <1>2, <1>3, <1>6 DEF Sides
<1> QED BY <1>4, <1>5, <1>6, <1>7, ZenonT(60) DEF Copies

\* What Replaced writes into y makes it a copy of n.
LEMMA CopiedFields ==
  ASSUME NEW r \in Trees, NEW n \in Keys, NEW y \in Keys, n # y
  PROVE  Copies(r, [r EXCEPT !.child["left"][y] = r.child["left"][n],
                             !.child["right"][y] = r.child["right"][n],
                             !.parent[y] = r.parent[n],
                             !.black[y] = r.black[n]], n, y)
<1>1. PICK i, j, p, b : /\ i = [r.child["left"] EXCEPT ![y] = r.child["left"][n]]
                        /\ j = [r.child["right"] EXCEPT ![y] = r.child["right"][n]]
                        /\ p = [r.parent EXCEPT ![y] = r.parent[n]]
                        /\ b = [r.black EXCEPT ![y] = r.black[n]]
  OBVIOUS
<1>2. PICK c : c = [r.child EXCEPT !["left"] = i, !["right"] = j] OBVIOUS
<1>3. PICK q : q = [r EXCEPT !.child = c, !.parent = p, !.black = b] OBVIOUS
<1>4. Copies(r, q, n, y) BY <1>1, <1>2, <1>3, CopiedParts, Zenon
<1>5. q = [r EXCEPT !.child["left"][y] = r.child["left"][n],
                    !.child["right"][y] = r.child["right"][n],
                    !.parent[y] = r.parent[n],
                    !.black[y] = r.black[n]]
  BY <1>1, <1>2, <1>3, Zenon DEF Trees, Sides
<1> QED BY <1>4, <1>5, Zenon

\* The nodes c and d, where there are, get the parent y.
Adopts(r, q, c, d, y) ==
  /\ q \in Trees /\ q.size = r.size /\ q.root = r.root /\ q.child = r.child /\ q.black = r.black
  /\ \A m \in Keys : q.parent[m] = IF m = c \/ m = d THEN y ELSE r.parent[m]

\* A child gets y for its parent.
LEMMA AdoptedOne ==
  ASSUME NEW r \in Trees, NEW c \in Pointers, NEW y \in Pointers,
         NEW q, q = WithParent(r, c, y)
  PROVE  Adopts(r, q, c, c, y)
<1>1. CASE c = NULL
  <2>1. q = r BY <1>1 DEF WithParent
  <2> QED BY <1>1, <2>1, NullIsNoKey DEF Adopts
<1>2. CASE c # NULL
  <2>1. c \in Keys BY <1>2 DEF Pointers
  <2>2. q = [r EXCEPT !.parent[c] = y] BY <1>2 DEF WithParent
  <2>3. /\ q.size = r.size /\ q.root = r.root /\ q.child = r.child
        /\ q.black = r.black /\ q.parent = [r.parent EXCEPT ![c] = y]
    BY <2>2 DEF Trees
  <2>4. r.parent \in [Keys -> Pointers] BY Zenon DEF Trees
  <2>5. \A m \in Keys : q.parent[m] = IF m = c THEN y ELSE r.parent[m] BY <2>1, <2>3, <2>4, Zenon
  <2>6. q \in Trees BY <2>1, <2>2 DEF Trees
  <2> QED BY <2>3, <2>5, <2>6, Zenon DEF Adopts
<1> QED BY <1>1, <1>2

\* The two children get y for their parent.
LEMMA AdoptedFields ==
  ASSUME NEW r \in Trees, NEW c \in Pointers, NEW d \in Pointers, NEW y \in Pointers,
         NEW q, q = WithParent(WithParent(r, c, y), d, y)
  PROVE  Adopts(r, q, c, d, y)
<1>1. PICK a : a = WithParent(r, c, y) OBVIOUS
<1>2. Adopts(r, a, c, c, y) BY <1>1, AdoptedOne
<1>3. a \in Trees BY <1>2 DEF Adopts
<1>4. q = WithParent(a, d, y) BY <1>1
<1>5. Adopts(a, q, d, d, y) BY <1>3, <1>4, AdoptedOne
<1> QED BY <1>2, <1>5 DEF Adopts

\* Copying n to y, adopting its children and relinking the parent puts y in its place.
LEMMA RenamedFields ==
  ASSUME NEW r, NEW D, Shape(r, D), NEW n \in D[r.root], NEW y \in Keys, y \notin D[r.root],
         NEW r1, Copies(r, r1, n, y),
         NEW r2, Adopts(r1, r2, r.child["left"][n], r.child["right"][n], y),
         NEW q, q = Relinked(r2, n, y)
  PROVE  Renames(r, q, D[r.root], n, y)
<1> DEFINE S == D[r.root]
<1>1. n \in Keys /\ S \subseteq Keys /\ n # y /\ \A s \in Sides : r.child[s][n] # n
  <2>1. n \in Keys /\ S \subseteq Keys BY NodeFacts
  <2>2. ASSUME NEW s \in Sides PROVE r.child[s][n] # n
    <3>1. Fork(r, D, n, s, r.child[s][n], r.child[Other(s)][n]) BY ForkFacts
    <3> QED BY <3>1, NullIsNoKey DEF Fork
  <2> QED BY <2>1, <2>2
<1>2. /\ r1 \in Trees /\ r1.size = r.size /\ r1.root = r.root
      /\ \A m \in Keys, s \in Sides : r1.child[s][m] = IF m = y THEN r.child[s][n] ELSE r.child[s][m]
      /\ \A m \in Keys : r1.parent[m] = IF m = y THEN r.parent[n] ELSE r.parent[m]
      /\ \A m \in Keys : r1.black[m] = IF m = y THEN r.black[n] ELSE r.black[m]
  BY DEF Copies
<1>3. /\ r2 \in Trees /\ r2.size = r.size /\ r2.root = r.root /\ r2.child = r1.child
      /\ r2.black = r1.black
      /\ \A m \in Keys : r2.parent[m] = IF \E s \in Sides : r.child[s][n] = m THEN y
                                       ELSE r1.parent[m]
  BY <1>2 DEF Adopts, Sides
<1>4. Alike(r, r2, S, n) BY <1>1, <1>2, <1>3 DEF Alike
<1>5. Relinks(r2, q, S, n, y) BY <1>4, NullIsNoKey, RelinkedFields
<1>6. /\ q \in Trees /\ q.size = r2.size /\ q.black = r2.black /\ q.parent = r2.parent
      /\ q.root = IF r2.root = n THEN y ELSE r2.root
      /\ \A l \in S, s \in Sides : q.child[s][l] = IF r2.child[s][l] = n THEN y ELSE r2.child[s][l]
      /\ \A l \in Keys \ S, s \in Sides : q.child[s][l] = r2.child[s][l]
  BY <1>5 DEF Relinks
<1>7. \A s \in Sides : q.child[s][y] = r.child[s][n] BY <1>2, <1>3, <1>6
<1>8. \A m \in S \ {n}, s \in Sides : q.child[s][m] = IF r.child[s][m] = n THEN y ELSE r.child[s][m]
  BY <1>1, <1>2, <1>3, <1>6
<1>9. \A m \in Keys \ (S \cup {y}), s \in Sides : q.child[s][m] = r.child[s][m]
  BY <1>2, <1>3, <1>6
<1>10. ~\E s \in Sides : r.child[s][n] = y
  <2>1. ASSUME NEW s \in Sides PROVE r.child[s][n] # y
    <3>1. Fork(r, D, n, s, r.child[s][n], r.child[Other(s)][n]) BY ForkFacts
    <3> QED BY <3>1, NullIsNoKey DEF Fork
  <2> QED BY <2>1
<1>11. q.parent[y] = r.parent[n] BY <1>2, <1>3, <1>6, <1>10
<1>12. \A m \in Keys \ {y} : q.parent[m] = IF \E s \in Sides : r.child[s][n] = m THEN y
                                          ELSE r.parent[m]
  BY <1>2, <1>3, <1>6
<1>13. q.black[y] = r.black[n] /\ \A m \in Keys \ {y} : q.black[m] = r.black[m]
  BY <1>2, <1>3, <1>6
<1> QED BY <1>2, <1>3, <1>6, <1>7, <1>8, <1>9, <1>11, <1>12, <1>13 DEF Renames

\* y stands for n in a set of nodes, among the nodes under each node, and in a number for each.
Swap(A, n, y) == IF n \in A THEN (A \ {n}) \cup {y} ELSE A
Swapped(D, n, y) == [m \in Pointers |-> Swap(D[IF m = y THEN n ELSE m], n, y)]

SwapLaws(n, y) ==
  /\ \A A, B : Swap(A \cup B, n, y) = Swap(A, n, y) \cup Swap(B, n, y)
  /\ \A A : n \notin A => Swap(A, n, y) = A
  /\ Swap({n}, n, y) = {y}
  /\ \A A, B : A \subseteq B => Swap(A, n, y) \subseteq Swap(B, n, y)
  /\ \A A : \A m \in Swap(A, n, y) : IF m = y THEN y \in A \/ n \in A ELSE m \in A /\ m # n
  /\ \A A : \A m \in A \ {n} : m \in Swap(A, n, y)
  /\ \A A : n \in A => y \in Swap(A, n, y)

\* Laws of putting y for n in a set.
LEMMA SwapFacts ==
  ASSUME NEW n, NEW y, n # y
  PROVE  SwapLaws(n, y)
BY DEF Swap, SwapLaws

\* The node m after the renaming was l before it.
Mapped(r, q, S, n, y, m, l) ==
  /\ l \in S /\ l \in Keys /\ l # y /\ (m = y <=> l = n) /\ (m # y => m = l)
  /\ m \in Keys /\ m # n
  /\ \A s \in Sides : /\ q.child[s][m] = IF r.child[s][l] = n THEN y ELSE r.child[s][l]
                      /\ r.child[s][l] # y
  /\ q.black[m] = r.black[l]

\* The links of each node before and after y has taken the place of n.
LEMMA MappedFacts ==
  ASSUME NEW r, NEW D, Shape(r, D), NEW n \in D[r.root], NEW y \in Keys, y \notin D[r.root],
         NEW q, Renames(r, q, D[r.root], n, y), NEW m \in Swap(D[r.root], n, y),
         NEW l, l = IF m = y THEN n ELSE m
  PROVE  Mapped(r, q, D[r.root], n, y, m, l)
<1> DEFINE S == D[r.root]
<1>1. n \in Keys /\ S \subseteq Keys /\ n # y BY NodeFacts
<1>2. m = y \/ m \in S \ {n} BY DEF Swap
<1>3. l \in S /\ l \in Keys /\ l # y /\ (m = y <=> l = n) /\ (m # y => m = l) /\ m \in Keys /\ m # n
  BY <1>1, <1>2
<1>4. ASSUME NEW s \in Sides PROVE r.child[s][l] # y /\ r.child[s][l] # l
  <2>1. Fork(r, D, l, s, r.child[s][l], r.child[Other(s)][l]) BY <1>3, ForkFacts
  <2> QED BY <1>1, <1>3, <2>1, NullIsNoKey DEF Fork
<1>5. /\ \A s \in Sides : q.child[s][y] = r.child[s][n]
      /\ \A k \in S \ {n}, s \in Sides : q.child[s][k] = IF r.child[s][k] = n THEN y ELSE r.child[s][k]
      /\ q.black[y] = r.black[n] /\ \A k \in Keys \ {y} : q.black[k] = r.black[k]
  BY DEF Renames
<1>6. CASE m = y BY <1>3, <1>4, <1>5, <1>6 DEF Mapped
<1>7. CASE m # y BY <1>2, <1>3, <1>4, <1>5, <1>7 DEF Mapped
<1> QED BY <1>6, <1>7

\* The tree stays in order when y is among the others where n was.
LEMMA RenamedShape ==
  ASSUME NEW r, NEW D, Shape(r, D), NEW n \in D[r.root], NEW y \in Keys, y \notin D[r.root],
         \A m \in D[r.root] \ {n} : m < n <=> m < y,
         NEW q, Renames(r, q, D[r.root], n, y), NEW E, E = Swapped(D, n, y)
  PROVE  Shape(q, E) /\ E[q.root] = Swap(D[r.root], n, y)
<1> DEFINE S == D[r.root]
           T == Swap(D[r.root], n, y)
<1>1. /\ n \in Keys /\ S \subseteq Keys /\ n # y /\ n # NULL /\ y # NULL /\ Keys \subseteq Pointers
      /\ NULL \in Pointers
  BY NodeFacts, NullIsNoKey
<1>2. /\ \A A, B : Swap(A \cup B, n, y) = Swap(A, n, y) \cup Swap(B, n, y)
      /\ \A A : n \notin A => Swap(A, n, y) = A
      /\ Swap({n}, n, y) = {y}
      /\ \A A, B : A \subseteq B => Swap(A, n, y) \subseteq Swap(B, n, y)
      /\ \A A : \A m \in Swap(A, n, y) : IF m = y THEN y \in A \/ n \in A ELSE m \in A /\ m # n
      /\ \A A : \A m \in A \ {n} : m \in Swap(A, n, y)
      /\ \A A : n \in A => y \in Swap(A, n, y)
  BY <1>1, SwapFacts DEF SwapLaws
<1>3. /\ q \in Trees /\ q.root = IF r.root = n THEN y ELSE r.root
      /\ q.parent[y] = r.parent[n]
      /\ \A m \in Keys \ {y} : q.parent[m] = IF \E s \in Sides : r.child[s][n] = m THEN y
                                            ELSE r.parent[m]
  BY DEF Renames
<1>4. r.root # NULL /\ r.root \in S /\ r.root # y
  <2>1. r.root # NULL BY DEF Shape
  <2> QED BY <2>1 DEF Shape
<1>5. /\ E[y] = Swap(D[n], n, y) /\ \A m \in Pointers \ {y} : E[m] = Swap(D[m], n, y)
  BY <1>1 DEF Swapped
<1>6. E[q.root] = T
  <2>1. CASE r.root = n BY <1>3, <1>5, <2>1
  <2>2. CASE r.root # n BY <1>1, <1>3, <1>4, <1>5, <2>2
  <2> QED BY <2>1, <2>2
<1>7. E \in [Pointers -> SUBSET Keys]
  <2>1. D \in [Pointers -> SUBSET Keys] BY DEF Shape
  <2>2. \A A \in SUBSET Keys : Swap(A, n, y) \in SUBSET Keys BY DEF Swap
  <2>3. \A m \in Pointers : Swap(D[IF m = y THEN n ELSE m], n, y) \in SUBSET Keys
    BY <1>1, <2>1, <2>2
  <2> QED BY <2>3 DEF Swapped
<1>8. E[NULL] = {}
  <2>1. D[NULL] = {} BY DEF Shape
  <2> QED BY <1>1, <1>2, <1>5, <2>1
<1>9. IsFiniteSet(T)
  <2>1. IsFiniteSet(S) BY DEF Shape
  <2>2. IsFiniteSet(S \ {n}) BY <2>1, FS_RemoveElement
  <2>3. IsFiniteSet((S \ {n}) \cup {y}) BY <2>2, FS_AddElement
  <2> QED BY <2>3 DEF Swap
<1>10. q.root \in T BY <1>1, <1>2, <1>3, <1>4
<1> HIDE DEF T
<1>11. ASSUME NEW m \in T PROVE Node(q, E, m)
  <2>1. PICK l : l = IF m = y THEN n ELSE m OBVIOUS
  <2>2. Mapped(r, q, S, n, y, m, l) BY <1>11, <2>1, MappedFacts DEF T
  <2>3. /\ l \in S /\ l \in Keys /\ l # y /\ (m = y <=> l = n) /\ (m # y => m = l)
        /\ m \in Keys /\ m # n
        /\ \A s \in Sides : /\ q.child[s][m] = IF r.child[s][l] = n THEN y ELSE r.child[s][l]
                            /\ r.child[s][l] # y
    BY <2>2 DEF Mapped
  <2>4. \A s \in Sides : r.child[s][l] \in Pointers BY <2>3, NodeFacts
  <2>5. \A s \in Sides : E[q.child[s][m]] = Swap(D[r.child[s][l]], n, y)
    <3>1. ASSUME NEW s \in Sides PROVE E[q.child[s][m]] = Swap(D[r.child[s][l]], n, y)
      <4>1. CASE r.child[s][l] = n BY <1>5, <2>3, <4>1
      <4>2. CASE r.child[s][l] # n BY <1>5, <2>3, <2>4, <4>2
      <4> QED BY <4>1, <4>2
    <3> QED BY <3>1
  <2>6. E[m] = Swap(D[l], n, y) BY <1>1, <1>5, <2>3
  <2>7. PICK c, d : c = r.child["left"][l] /\ d = r.child["right"][l] OBVIOUS
  <2>8. "left" \in Sides /\ "right" \in Sides /\ Other("left") = "right" BY DEF Sides, Other
  <2>9. D[l] = {l} \cup D[c] \cup D[d]
    <3>1. Fork(r, D, l, "left", c, d) BY <2>3, <2>7, <2>8, ForkFacts
    <3> QED BY <3>1 DEF Fork
  <2>10. Swap({l}, n, y) = {m}
    <3>1. CASE l = n BY <1>2, <2>3, <3>1
    <3>2. CASE l # n BY <1>2, <2>3, <3>2
    <3> QED BY <3>1, <3>2
  <2>11. E[m] = {m} \cup E[q.child["left"][m]] \cup E[q.child["right"][m]]
    <3>1. Swap({l} \cup D[c] \cup D[d], n, y) = Swap({l} \cup D[c], n, y) \cup Swap(D[d], n, y)
      BY <1>2
    <3>2. Swap({l} \cup D[c], n, y) = Swap({l}, n, y) \cup Swap(D[c], n, y) BY <1>2
    <3> QED BY <2>5, <2>6, <2>7, <2>8, <2>9, <2>10, <3>1, <3>2
  <2>12. E[m] \subseteq E[q.root]
    <3>1. D[l] \subseteq S BY <2>3, NodeFacts
    <3> QED BY <1>2, <1>6, <2>6, <3>1 DEF T
  <2>13. ASSUME NEW s \in Sides PROVE Down(q, E, s, m)
    <3>1. PICK a, b : a = r.child[s][l] /\ b = q.child[s][m] OBVIOUS
    <3>2. Fork(r, D, l, s, a, r.child[Other(s)][l]) BY <2>3, <3>1, ForkFacts
    <3>3. /\ D[l] \subseteq D[r.root] /\ D[a] \subseteq D[l] /\ l \notin D[a] /\ l \in D[l]
          /\ D[a] \subseteq S
          /\ a # NULL => a \in D[a] /\ a \in S /\ a \in Keys /\ r.parent[a] = l
          /\ \A k \in D[a] : Before(s, k, l)
      BY <3>2 DEF Fork
    <3>4. ASSUME NEW k \in E[b] PROVE Before(s, k, m)
      <4>1. k \in Swap(D[a], n, y) BY <2>5, <3>1, <3>4
      <4>2. IF k = y THEN n \in D[a] ELSE k \in D[a] /\ k # n BY <1>2, <3>3, <4>1
      <4>3. Keys \subseteq Nat BY RBTreeAssumption
      <4>4. y \notin S /\ \A h \in S \ {n} : h < n <=> h < y OBVIOUS
      <4>5. CASE k = y
        <5>1. n \in D[a] /\ l # n /\ m = l BY <2>3, <3>3, <4>2, <4>5
        <5>2. Before(s, n, l) BY <3>3, <5>1
        <5>3. l < n <=> l < y BY <2>3, <4>4, <5>1
        <5>4. n \in Nat /\ l \in Nat /\ y \in Nat /\ l # y BY <1>1, <2>3, <4>3
        <5>5. CASE s = "left" BY <4>5, <5>1, <5>2, <5>3, <5>4, <5>5 DEF Before
        <5>6. CASE s # "left" BY <4>5, <5>1, <5>2, <5>3, <5>4, <5>6 DEF Before
        <5> QED BY <5>5, <5>6
      <4>6. CASE k # y
        <5>1. k \in D[a] /\ k # n /\ k \in S BY <3>3, <4>2, <4>6
        <5>2. Before(s, k, l) BY <3>3, <5>1
        <5>3. CASE m = y
          <6>1. l = n BY <2>3, <5>3
          <6>2. k < n <=> k < y BY <4>4, <5>1
          <6>3. n \in Nat /\ k \in Nat /\ y \in Nat BY <1>1, <4>3, <5>1
          <6>4. CASE s = "left" BY <5>2, <5>3, <6>1, <6>2, <6>3, <6>4 DEF Before
          <6>5. CASE s # "left" BY <4>6, <5>1, <5>2, <5>3, <6>1, <6>2, <6>3, <6>5 DEF Before
          <6> QED BY <6>4, <6>5
        <5>4. CASE m # y BY <2>3, <5>2, <5>4
        <5> QED BY <5>3, <5>4
      <4> QED BY <4>5, <4>6
    <3>5. ASSUME b # NULL PROVE q.parent[b] = m /\ b \in E[b]
      <4>1. a # NULL BY <1>1, <2>3, <3>1, <3>5
      <4>2. a \in D[a] /\ a \in S /\ a \in Keys /\ r.parent[a] = l BY <3>3, <4>1
      <4>3. E[b] = Swap(D[a], n, y) BY <2>5, <3>1
      <4>4. CASE a = n
        <5>1. b = y BY <2>3, <3>1, <4>4
        <5>2. l # n BY <3>3, <4>2, <4>4
        <5>3. q.parent[b] = m BY <1>3, <2>3, <4>2, <4>4, <5>1, <5>2
        <5> QED BY <1>2, <4>2, <4>3, <4>4, <5>1, <5>3
      <4>5. CASE a # n
        <5>1. b = a /\ a # y BY <2>3, <3>1, <4>5
        <5>2. b \in E[b] BY <1>2, <4>2, <4>3, <4>5, <5>1
        <5>3. \A z \in Sides : r.child[z][n] = a => l = n
          <6>1. ASSUME NEW z \in Sides, r.child[z][n] = a PROVE l = n
            <7>1. Fork(r, D, n, z, a, r.child[Other(z)][n]) BY <6>1, ForkFacts
            <7> QED BY <4>1, <4>2, <7>1 DEF Fork
          <6> QED BY <6>1
        <5>4. CASE l = n
          <6>1. m = y /\ r.child[s][n] = a BY <2>3, <3>1, <5>4
          <6> QED BY <1>3, <4>2, <5>1, <5>2, <6>1
        <5>5. CASE l # n BY <1>3, <2>3, <4>2, <5>1, <5>2, <5>3, <5>5
        <5> QED BY <5>4, <5>5
      <4> QED BY <4>4, <4>5
    <3> QED BY <3>1, <3>4, <3>5 DEF Down
  <2>14. Up(q, E, m)
    <3>1. Up(r, D, l) BY <2>3, NodeLinks
    <3>2. CASE m = y
      <4>1. l = n /\ q.parent[m] = r.parent[n] BY <1>3, <2>3, <3>2
      <4>2. CASE r.root = n
        <5>1. m = q.root /\ r.parent[n] = NULL BY <1>3, <3>1, <3>2, <4>1, <4>2 DEF Up
        <5> QED BY <4>1, <5>1 DEF Up
      <4>3. CASE r.root # n
        <5>1. m # q.root BY <1>3, <1>4, <3>2, <4>3
        <5>0. PICK p : p = r.parent[n] OBVIOUS
        <5>2. PICK s \in Sides : p = r.parent[n] /\ p \in S /\ r.child[s][p] = n
          BY <3>1, <4>1, <4>3, <5>0 DEF Up
        <5>3. p # n
          <6>1. Fork(r, D, p, s, n, r.child[Other(s)][p]) BY <5>2, ForkFacts
          <6> QED BY <1>1, <6>1 DEF Fork
        <5>4. p \in T BY <1>2, <5>2, <5>3 DEF T
        <5>5. q.child[s][p] = y BY <5>2, <5>3 DEF Renames
        <5> QED BY <1>6, <3>2, <4>1, <5>1, <5>2, <5>4, <5>5 DEF Up
      <4> QED BY <4>2, <4>3
    <3>3. CASE m # y
      <4>1. l = m /\ m \in S \ {n} BY <2>3, <3>3
      <4>2. ASSUME NEW s \in Sides, r.child[s][n] = m PROVE m # r.root /\ r.parent[m] = n
        <5>1. Fork(r, D, n, s, m, r.child[Other(s)][n]) BY <4>2, ForkFacts
        <5>2. r.parent[m] = n BY <1>1, <2>3, <5>1, NullIsNoKey DEF Fork
        <5>3. m = r.root => r.parent[m] = NULL BY <4>1, NodeFacts
        <5> QED BY <1>1, <5>2, <5>3
      <4>3. CASE m = r.root
        <5>1. q.root = m BY <1>3, <2>3, <4>3
        <5>2. q.parent[m] = NULL
          <6>1. ~\E s \in Sides : r.child[s][n] = m BY <4>2, <4>3
          <6>2. r.parent[m] = NULL BY <3>1, <4>1, <4>3 DEF Up
          <6> QED BY <1>3, <2>3, <3>3, <6>1, <6>2
        <5> QED BY <5>1, <5>2 DEF Up
      <4>4. CASE m # r.root
        <5>1. m # q.root BY <1>3, <3>3, <4>4
        <5>0. PICK p : p = r.parent[m] OBVIOUS
        <5>2. PICK s \in Sides : p = r.parent[m] /\ p \in S /\ r.child[s][p] = m
          BY <3>1, <4>1, <4>4, <5>0 DEF Up
        <5>3. CASE p = n
          <6>1. q.parent[m] = y /\ q.child[s][y] = m BY <1>3, <2>3, <3>3, <5>2, <5>3 DEF Renames
          <6>2. y \in T BY <1>2 DEF T
          <6> QED BY <1>6, <5>1, <6>1, <6>2 DEF Up
        <5>4. CASE p # n
          <6>1. ~\E z \in Sides : r.child[z][n] = m BY <4>2, <5>2, <5>4
          <6>2. q.parent[m] = p BY <1>3, <2>3, <3>3, <5>2, <6>1
          <6>3. q.child[s][p] = m BY <4>1, <5>2, <5>4 DEF Renames
          <6>4. p \in T BY <1>2, <5>2, <5>4 DEF T
          <6> QED BY <1>6, <5>1, <5>2, <6>2, <6>3, <6>4 DEF Up
        <5> QED BY <5>3, <5>4
      <4> QED BY <4>3, <4>4
    <3> QED BY <3>2, <3>3
  <2>15. E[m] = {m} \cup E[q.child["left"][m]] \cup E[q.child[Other("left")][m]]
    BY <2>8, <2>11
  <2> QED BY <2>8, <2>12, <2>13, <2>14, <2>15, MakeNode
<1> QED BY <1>3, <1>6, <1>7, <1>8, <1>9, <1>10, <1>11 DEF Shape, T

\* y keeps the number of black nodes below n.
LEMMA RenamedLevels ==
  ASSUME NEW r, NEW D, Shape(r, D), NEW n \in D[r.root], NEW y \in Keys, y \notin D[r.root],
         NEW q, Renames(r, q, D[r.root], n, y), NEW H, NEW p, NEW z, Levels(r, H, D[r.root], p, z),
         p # y, NEW o, o = IF p = n THEN y ELSE p, NEW G, G = [H EXCEPT ![y] = H[n]],
         NEW T, T = Swap(D[r.root], n, y)
  PROVE  Levels(q, G, T, o, z)
<1> DEFINE S == D[r.root]
<1>1. n \in Keys /\ n # y BY NodeFacts
<1>2. Heights(r, H, S, p, z) BY HeightTypes
<1>3. /\ H \in [Pointers -> Nat] /\ H[NULL] = 0
      /\ \A l \in S, s \in Sides : H[l] = H[r.child[s][l]] + Weight(r, l) + Lack(l, s, p, z)
  BY <1>2 DEF Heights
<1>4. /\ G \in [Pointers -> Nat] /\ G[NULL] = 0 /\ G[y] = H[n]
      /\ \A m \in Pointers \ {y} : G[m] = H[m]
  BY <1>1, <1>3, NullIsNoKey
<1>5. ASSUME NEW m \in T, NEW s \in Sides PROVE Level(q, G, m, s, o, z)
  <2>1. PICK l : l = IF m = y THEN n ELSE m OBVIOUS
  <2>2. Mapped(r, q, S, n, y, m, l) BY <1>5, <2>1, MappedFacts
  <2>3. /\ l \in S /\ l \in Keys /\ l # y /\ (m = y <=> l = n) /\ (m # y => m = l)
        /\ m \in Keys /\ m # n /\ q.black[m] = r.black[l]
    BY <2>2 DEF Mapped
  <2>4. PICK c, d : c = r.child[s][l] /\ d = q.child[s][m] OBVIOUS
  <2>5. d = (IF c = n THEN y ELSE c) /\ c # y /\ c \in Pointers
    <3>1. d = (IF c = n THEN y ELSE c) /\ c # y BY <2>2, <2>4 DEF Mapped
    <3> QED BY <2>3, <2>4, <3>1, NodeFacts
  <2>6. G[m] = H[l] /\ G[d] = H[c] BY <1>4, <2>3, <2>5, NullIsNoKey
  <2>7. Weight(q, m) = Weight(r, l) BY <2>3 DEF Weight
  <2>8. Lack(m, s, o, z) = Lack(l, s, p, z) BY <2>3 DEF Lack
  <2>9. H[l] = H[c] + Weight(r, l) + Lack(l, s, p, z) BY <1>3, <2>3, <2>4
  <2> QED BY <2>4, <2>6, <2>7, <2>8, <2>9 DEF Level
<1> QED BY <1>4, <1>5 DEF Levels

\* Red nodes stay apart: y has the colour of n.
LEMMA RenamedPales ==
  ASSUME NEW r, NEW D, Shape(r, D), NEW n \in D[r.root], NEW y \in Keys, y \notin D[r.root],
         NEW q, Renames(r, q, D[r.root], n, y), NEW v, v # n, v # y, Pales(r, D[r.root], v, v),
         NEW T, T = Swap(D[r.root], n, y)
  PROVE  Pales(q, T, v, v)
<1> DEFINE S == D[r.root]
<1>1. \A k \in Keys \ {y} : q.black[k] = r.black[k] BY DEF Renames
<1>2. q.black[y] = r.black[n] /\ n \in Keys BY NodeFacts DEF Renames
<1>3. ASSUME NEW m \in T, NEW s \in Sides, IsRed(q, m), IsRed(q, q.child[s][m])
      PROVE  m = v \/ q.child[s][m] = v
  <2>1. PICK l : l = IF m = y THEN n ELSE m OBVIOUS
  <2>2. Mapped(r, q, S, n, y, m, l) BY <1>3, <2>1, MappedFacts
  <2>3. /\ l \in S /\ l \in Keys /\ l # y /\ (m = y <=> l = n) /\ (m # y => m = l)
        /\ m \in Keys /\ m # n /\ q.black[m] = r.black[l]
    BY <2>2 DEF Mapped
  <2>4. PICK c, d : c = r.child[s][l] /\ d = q.child[s][m] OBVIOUS
  <2>5. d = (IF c = n THEN y ELSE c) /\ c # y /\ c \in Pointers
    <3>1. d = (IF c = n THEN y ELSE c) /\ c # y BY <2>2, <2>4 DEF Mapped
    <3> QED BY <2>3, <2>4, <3>1, NodeFacts
  <2>6. d # NULL /\ ~q.black[d] /\ ~q.black[m] BY <1>3, <2>4 DEF IsRed, IsBlack
  <2>7. c # NULL /\ c \in Keys
    <3>1. c # NULL BY <1>2, <2>5, <2>6, NullIsNoKey
    <3> QED BY <2>5, <3>1 DEF Pointers
  <2>8. IsRed(r, l) BY <2>3, <2>6, NullIsNoKey DEF IsRed, IsBlack
  <2>9. IsRed(r, c)
    <3>1. CASE c = n BY <1>2, <2>5, <2>6, <2>7, <3>1 DEF IsRed, IsBlack
    <3>2. CASE c # n BY <1>1, <2>5, <2>6, <2>7, <3>2 DEF IsRed, IsBlack
    <3> QED BY <3>1, <3>2
  <2>10. Pale(r, l, s, v, v) BY <2>3 DEF Pales
  <2>11. l = v \/ c = v BY <2>4, <2>8, <2>9, <2>10 DEF Pale
  <2>12. l = v => m = v BY <2>3
  <2>13. c = v => d = v BY <2>5
  <2> QED BY <2>4, <2>11, <2>12, <2>13
<1> QED BY <1>3 DEF Pales, Pale

\* The root keeps its colour.
LEMMA RenamedRoot ==
  ASSUME NEW r, NEW D, Shape(r, D), NEW n \in D[r.root], NEW y \in Keys, y \notin D[r.root],
         NEW q, Renames(r, q, D[r.root], n, y)
  PROVE  /\ IsRed(q, q.root) <=> IsRed(r, r.root)
         /\ r.root # y /\ q.root # n
<1>1. r.root # NULL /\ r.root \in D[r.root]
  <2>1. r.root # NULL BY DEF Shape
  <2> QED BY <2>1 DEF Shape
<1>2. r.root \in Keys /\ n \in Keys /\ n # NULL /\ n # y BY <1>1, NodeFacts
<1>3. /\ q.root = IF r.root = n THEN y ELSE r.root
      /\ q.black[y] = r.black[n] /\ \A k \in Keys \ {y} : q.black[k] = r.black[k]
  BY DEF Renames
<1>4. IsRed(q, q.root) <=> IsRed(r, r.root)
  <2>1. CASE r.root = n BY <1>2, <1>3, <2>1, NullIsNoKey DEF IsRed, IsBlack
  <2>2. CASE r.root # n BY <1>1, <1>2, <1>3, <2>2 DEF IsRed, IsBlack
  <2> QED BY <2>1, <2>2
<1> QED BY <1>1, <1>2, <1>3, <1>4

\* y takes the place of n in the tree, in the nodes under each node and in the numbers.
Renaming(r, D, H, q, E, G, n, y) ==
  /\ Shape(r, D) /\ n \in D[r.root] /\ y \in Keys /\ y \notin D[r.root]
  /\ \A m \in D[r.root] \ {n} : m < n <=> m < y
  /\ Renames(r, q, D[r.root], n, y)
  /\ E = Swapped(D, n, y)
  /\ G = [H EXCEPT ![y] = H[n]]

\* The renaming keeps what the loop of the deletion begins with, and a red-black tree.
LEMMA RenamedKeeps ==
  ASSUME NEW r, NEW D, NEW H, NEW q, NEW E, NEW G, NEW n, NEW y, Renaming(r, D, H, q, E, G, n, y),
         NEW x, x # n, x # y, NEW p, NEW o, o = IF p = n THEN y ELSE p
  PROVE  /\ \A s : Lacking(r, D, H, x, p, s) => Lacking(q, E, G, x, o, s)
         /\ RedBlackTree(r, D, H) => RedBlackTree(q, E, G)
<1>0. /\ Shape(r, D) /\ n \in D[r.root] /\ y \in Keys /\ y \notin D[r.root]
      /\ \A m \in D[r.root] \ {n} : m < n <=> m < y
      /\ Renames(r, q, D[r.root], n, y)
      /\ E = Swapped(D, n, y)
      /\ G = [H EXCEPT ![y] = H[n]]
  BY DEF Renaming
<1> USE <1>0
<1> DEFINE S == D[r.root]
<1>1. PICK T : T = Swap(S, n, y) OBVIOUS
<1>2. Shape(q, E) /\ E[q.root] = T BY <1>1, RenamedShape
<1>3. n \in Keys /\ n # y /\ y # NULL /\ n # NULL /\ S \subseteq Keys BY NodeFacts, NullIsNoKey
<1>4. /\ IsRed(q, q.root) <=> IsRed(r, r.root)
      /\ r.root # y /\ q.root # n
  BY RenamedRoot
<1>5. q.root = IF r.root = n THEN y ELSE r.root BY DEF Renames
<1>6. PICK none : none = NULL OBVIOUS
<1>7. Levels(r, H, S, none, "left") => Levels(q, G, T, none, "left")
  <2>1. none # y /\ none = IF none = n THEN y ELSE none BY <1>3, <1>6
  <2> QED BY <1>1, <2>1, RenamedLevels
<1>8. ASSUME NEW s, Lacking(r, D, H, x, p, s) PROVE Lacking(q, E, G, x, o, s)
  <2>1. Pales(r, S, x, x) /\ (IsRed(r, r.root) => r.root = x) BY <1>8 DEF Lacking
  <2>2. Pales(q, T, x, x) BY <1>1, <2>1, RenamedPales
  <2>3. x = q.root <=> x = r.root BY <1>5
  <2>4. IsRed(q, q.root) => q.root = x BY <1>4, <2>1, <2>3
  <2>5. CASE x = r.root
    <3>1. Levels(r, H, S, none, "left") BY <1>6, <1>8, <2>5 DEF Lacking
    <3> QED BY <1>2, <1>6, <1>7, <2>2, <2>3, <2>4, <2>5, <3>1 DEF Lacking
  <2>6. CASE x # r.root
    <3>1. p \in S /\ s \in Sides /\ x = r.child[s][p] /\ Levels(r, H, S, p, s)
      BY <1>8, <2>6 DEF Lacking
    <3>2. p # y BY <3>1
    <3>3. Levels(q, G, T, o, s) BY <1>1, <3>1, <3>2, RenamedLevels
    <3>4. o \in T BY <1>1, <3>1 DEF Swap
    <3>5. p = IF o = y THEN n ELSE o BY <3>2
    <3>6. Mapped(r, q, S, n, y, o, p) BY <1>1, <3>4, <3>5, MappedFacts
    <3>7. x = q.child[s][o] BY <3>1, <3>6 DEF Mapped
    <3> QED BY <1>2, <2>2, <2>3, <2>4, <2>6, <3>1, <3>3, <3>4, <3>7 DEF Lacking
  <2> QED BY <2>5, <2>6
<1>9. ASSUME RedBlackTree(r, D, H) PROVE RedBlackTree(q, E, G)
  <2>1. Levels(r, H, S, none, "left") /\ Pales(r, S, none, none) /\ ~IsRed(r, r.root)
    BY <1>6, <1>9 DEF RedBlackTree, IsRed
  <2>2. none # n /\ none # y BY <1>3, <1>6
  <2>3. Pales(q, T, none, none) BY <1>1, <2>1, <2>2, RenamedPales
  <2>4. IsBlack(q, q.root) BY <1>4, <2>1 DEF IsRed
  <2> QED BY <1>2, <1>6, <1>7, <2>1, <2>3, <2>4 DEF RedBlackTree
<1> QED BY <1>8, <1>9

\* y is the successor of n, and below it on the right.
Succeeds(r, D, n, y) ==
  /\ n \in Keys /\ y \in D[r.root] /\ y \in Keys /\ y # n /\ n \notin D[y]
  /\ NULL \in {r.child["left"][y], r.child["right"][y]}
  /\ \A m \in D[r.root] : m # n /\ m # y => (m < n <=> m < y)

\* The leftmost node on the right of n has no left child and no node between n and itself.
LEMMA SuccessorFacts ==
  ASSUME NEW r, NEW D, Shape(r, D), Blank(r, D[r.root]), NEW n \in D[r.root],
         r.child["right"][n] # NULL,
         NEW y, y = End(r, "left", r.child["right"][n])
  PROVE  Succeeds(r, D, n, y)
<1>1. PICK L, R : L = "left" /\ R = "right" OBVIOUS
<1>2. L \in Sides /\ R \in Sides /\ Other(R) = L BY <1>1 DEF Sides, Other
<1>3. PICK c : c = r.child[R][n] OBVIOUS
<1>4. c # NULL /\ y = End(r, L, c) BY <1>1, <1>3
<1>5. Fork(r, D, n, R, c, r.child[L][n]) BY <1>2, <1>3, ForkFacts
<1>6. /\ n \in Keys /\ n \notin D[c] /\ c \in D[c] /\ c \in D[r.root]
      /\ \A m \in D[c] : Before(R, m, n)
  BY <1>4, <1>5 DEF Fork
<1>7. Outermost(L, D[c], y) /\ r.child[L][y] = NULL BY <1>2, <1>4, <1>6, EndFacts
<1>8. y \in D[c] BY <1>7 DEF Outermost
<1>9. D[c] \subseteq D[r.root] /\ D[r.root] \subseteq Keys /\ D[y] \subseteq D[c]
  BY <1>6, <1>8, NodeFacts, UnderUnder
<1>10. y \in D[r.root] /\ y \in Keys /\ y # n /\ n \notin D[y] BY <1>6, <1>8, <1>9
<1>11. lgx_rb_next(r, n) = y BY <1>1, <1>3, <1>4 DEF lgx_rb_next
<1>12. PICK A : A = {m \in D[r.root] : n < m} OBVIOUS
<1>13. n < y BY <1>1, <1>6, <1>8 DEF Before
<1>14. y \in A BY <1>10, <1>12, <1>13
<1>15. Outermost("left", A, y) BY <1>11, <1>12, <1>14, NextFacts
<1>16. \A m \in A : m = y \/ y < m BY <1>15 DEF Outermost, Before
<1>17. ASSUME NEW m \in D[r.root], m # n, m # y PROVE m < n <=> m < y
  <2>1. Keys \subseteq Nat /\ m \in Keys BY <1>9, RBTreeAssumption
  <2>2. m < n \/ n < m BY <1>6, <1>17, <2>1
  <2>3. n < m => y < m BY <1>12, <1>16, <1>17
  <2>4. n \in Nat /\ m \in Nat /\ y \in Nat BY <1>6, <1>10, <2>1
  <2> QED BY <1>13, <2>2, <2>3, <2>4
<1> QED BY <1>1, <1>6, <1>7, <1>10, <1>17 DEF Succeeds

\* Replaced goes from a, without y, by way of r1 and r2.
Substitutes(r, n, y, a, r1, r2) ==
  /\ Copies(a, r1, n, y)
  /\ Adopts(r1, r2, a.child["left"][n], a.child["right"][n], y)
  /\ Replaced(r, n).tree = Relinked(r2, n, y)
  /\ Replaced(r, n).x = TakenOut(r, y).x
  /\ Replaced(r, n).p = IF TakenOut(r, y).p = n THEN y ELSE TakenOut(r, y).p
  /\ Replaced(r, n).black = TakenOut(r, y).black

\* Replaced takes the successor out and puts it in the place of n.
LEMMA ReplacedFields ==
  ASSUME NEW r, NEW n \in Keys, NEW y \in Keys, y # n,
         y = End(r, "left", r.child["right"][n]),
         NEW a \in Trees, a = TakenOut(r, y).tree,
         a.parent[n] = r.parent[n], a.black[n] = r.black[n]
  PROVE  \E r1, r2 : Substitutes(r, n, y, a, r1, r2)
<1>1. PICK r1 : r1 = [a EXCEPT !.child["left"][y] = a.child["left"][n],
                               !.child["right"][y] = a.child["right"][n],
                               !.parent[y] = a.parent[n],
                               !.black[y] = a.black[n]]
  BY Zenon
<1>2. Copies(a, r1, n, y)
  <2>1. n # y OBVIOUS
  <2> QED BY <1>1, <2>1, CopiedFields, Zenon
<1>3. PICK r2 : r2 = WithParent(WithParent(r1, r1.child["left"][y], y), r1.child["right"][y], y)
  OBVIOUS
<1>4. Adopts(r1, r2, a.child["left"][n], a.child["right"][n], y)
  <2>1. PICK L, R : L = "left" /\ R = "right" OBVIOUS
  <2>2. L \in Sides /\ R \in Sides BY <2>1 DEF Sides
  <2>3. r1 \in Trees /\ \A s \in Sides : r1.child[s][y] = a.child[s][n]
    BY <1>2, ZenonT(60) DEF Copies
  <2>4. PICK c, d : c = a.child[L][n] /\ d = a.child[R][n] OBVIOUS
  <2>5. c \in Pointers /\ d \in Pointers /\ y \in Pointers BY <2>2, <2>4, NullIsNoKey DEF Trees
  <2>6. r2 = WithParent(WithParent(r1, c, y), d, y) BY <1>3, <2>1, <2>2, <2>3, <2>4, ZenonT(60)
  <2>7. Adopts(r1, r2, c, d, y) BY <2>3, <2>5, <2>6, AdoptedFields
  <2> QED BY <2>1, <2>4, <2>7, Zenon
<1>5. PICK out : out = TakenOut(r, y) OBVIOUS
<1>6. Replaced(r, n) = [tree |-> Relinked(r2, n, y), x |-> out.x,
                        p |-> IF out.p = n THEN y ELSE out.p, black |-> out.black]
  BY <1>1, <1>3, <1>5, Zenon DEF Replaced
<1>7. /\ Replaced(r, n).tree = Relinked(r2, n, y) /\ Replaced(r, n).x = out.x
      /\ Replaced(r, n).p = IF out.p = n THEN y ELSE out.p
      /\ Replaced(r, n).black = out.black
  BY <1>6
<1> QED BY <1>2, <1>4, <1>5, <1>7, Zenon DEF Substitutes

\* out is what is left without n, its paths lacking a black node if out.black says so.
Removes(r, S, n, out, E, G) ==
  /\ E[out.tree.root] = S \ {n} /\ Elsewhere(r, out.tree, S) /\ out.p \in Pointers
  /\ out.black => \E s : Lacking(out.tree, E, G, out.x, out.p, s)
  /\ ~out.black => RedBlackTree(out.tree, E, G)

\* Taking a node out writes to nodes of the tree only.
LEMMA TakesElsewhere ==
  ASSUME NEW r, NEW q, NEW S, NEW n, NEW x, Takes(r, q, S, n, x), x = NULL \/ x \in S
  PROVE  Elsewhere(r, q, S)
BY NullIsNoKey DEF Takes, Elsewhere

\* A node with one child at most leaves what the loop begins with.
LEMMA TakenOutKeeps ==
  ASSUME NEW r, NEW D, NEW H, RedBlackTree(r, D, H), NEW n \in D[r.root],
         NULL \in {r.child["left"][n], r.child["right"][n]},
         NEW E, E = Without(D, n)
  PROVE  Removes(r, D[r.root], n, TakenOut(r, n), E, H)
<1>1. Shape(r, D) BY DEF RedBlackTree
<1>2. PICK out, x : out = TakenOut(r, n) /\ x = OnlyChild(r, n) OBVIOUS
<1>3. PICK z : Lone(r, D, n, z, x) BY <1>1, <1>2, LoneFacts
<1>4. PICK q : q = out.tree OBVIOUS
<1>5. out.x = x /\ out.p = r.parent[n] /\ out.black = r.black[n] /\ Takes(r, q, D[r.root], n, x)
  BY <1>1, <1>2, <1>3, <1>4, TakenFields
<1>6. /\ E[q.root] = D[r.root] \ {n}
      /\ x # NULL => x \in D[r.root]
  <2>1. /\ Without(D, n)[q.root] = D[r.root] \ {n}
        /\ x # NULL => x \in D[r.root]
    <3>1. Takes(r, q, D[r.root], n, x) BY <1>5
    <3>2. /\ Shape(q, Without(D, n)) /\ Without(D, n)[q.root] = D[r.root] \ {n}
          /\ x # n /\ (x # NULL => x \in D[r.root] /\ r.parent[x] = n)
      BY <1>1, <1>3, <3>1, TakenShape
    <3> QED BY <3>2
  <2> QED BY <2>1
<1>7. Elsewhere(r, q, D[r.root]) BY <1>5, <1>6, TakesElsewhere
<1>8. PICK p : p = r.parent[n] OBVIOUS
<1>9. /\ r.black[n] => \E s : Lacking(q, E, H, x, p, s)
      /\ ~r.black[n] => RedBlackTree(q, E, H)
  BY <1>3, <1>5, <1>8, TakenKeeps
<1>10. p \in Pointers
  <2>1. n \in Keys BY <1>1, NodeFacts
  <2> QED BY <1>1, <1>8, <2>1 DEF Shape, Trees
<1> QED BY <1>2, <1>4, <1>5, <1>6, <1>7, <1>8, <1>9, <1>10 DEF Removes

\* The successor's move writes to nodes of the tree only.
LEMMA RenamesElsewhere ==
  ASSUME NEW r, NEW D, Shape(r, D), NEW q, NEW n \in D[r.root], NEW y,
         Renames(r, q, D[r.root], n, y), NEW S, D[r.root] \subseteq S, y \in S
  PROVE  Elsewhere(r, q, S)
<1>1. /\ q.size = r.size
      /\ \A m \in Keys \ (D[r.root] \cup {y}), s \in Sides : q.child[s][m] = r.child[s][m]
      /\ \A m \in Keys \ {y} : q.black[m] = r.black[m]
      /\ \A m \in Keys \ {y} : q.parent[m] = IF \E s \in Sides : r.child[s][n] = m THEN y
                                            ELSE r.parent[m]
  BY DEF Renames
<1>2. ASSUME NEW m \in Keys, NEW s \in Sides, r.child[s][n] = m PROVE m \in D[r.root]
  <2>1. Fork(r, D, n, s, m, r.child[Other(s)][n]) BY <1>2, ForkFacts
  <2> QED BY <2>1, NullIsNoKey DEF Fork
<1>3. ASSUME NEW m \in Keys \ S
      PROVE  /\ q.parent[m] = r.parent[m] /\ q.black[m] = r.black[m]
             /\ \A s \in Sides : q.child[s][m] = r.child[s][m]
  BY <1>1, <1>2
<1> QED BY <1>1, <1>3 DEF Elsewhere

\* A node with two children leaves what the loop begins with.
LEMMA ReplacedKeeps ==
  ASSUME NEW r, NEW D, NEW H, RedBlackTree(r, D, H), Blank(r, D[r.root]), NEW n \in D[r.root],
         r.child["right"][n] # NULL
  PROVE  \E E, G : Removes(r, D[r.root], n, Replaced(r, n), E, G)
<1>1. Shape(r, D) BY DEF RedBlackTree
<1>2. PICK S, y : S = D[r.root] /\ y = End(r, "left", r.child["right"][n]) OBVIOUS
<1>3. Succeeds(r, D, n, y) BY <1>1, <1>2, SuccessorFacts
<1>4. /\ n \in Keys /\ y \in S /\ y \in Keys /\ y # n /\ n \notin D[y] /\ n \in S
      /\ NULL \in {r.child["left"][y], r.child["right"][y]}
      /\ \A m \in S : m # n /\ m # y => (m < n <=> m < y)
  BY <1>2, <1>3 DEF Succeeds
<1>5. PICK out, x, E0 : out = TakenOut(r, y) /\ x = OnlyChild(r, y) /\ E0 = Without(D, y) OBVIOUS
<1>6. PICK a : a = out.tree OBVIOUS
<1>7. Removes(r, S, y, out, E0, H) BY <1>2, <1>4, <1>5, TakenOutKeeps
<1>8. PICK z : Lone(r, D, y, z, x) BY <1>1, <1>2, <1>4, <1>5, LoneFacts
<1>9. out.x = x /\ Takes(r, a, S, y, x) BY <1>1, <1>2, <1>4, <1>5, <1>6, <1>8, TakenFields
<1>10. /\ Shape(a, E0) /\ E0[a.root] = S \ {y} /\ x # y
  BY <1>1, <1>2, <1>4, <1>5, <1>8, <1>9, TakenShape
<1>11. x # n
  <2>1. Fork(r, D, y, z, x, NULL) BY <1>8 DEF Lone
  <2>2. x \in D[y] \/ x = NULL BY <2>1 DEF Fork
  <2> QED BY <1>4, <2>2, NullIsNoKey
<1>12. a \in Trees /\ a.parent[n] = r.parent[n] /\ a.black[n] = r.black[n]
  BY <1>4, <1>9, <1>11 DEF Takes
<1>13. PICK new : new = Replaced(r, n) OBVIOUS
<1>14. PICK r1, r2 : /\ Copies(a, r1, n, y)
                     /\ Adopts(r1, r2, a.child["left"][n], a.child["right"][n], y)
                     /\ new.tree = Relinked(r2, n, y)
                     /\ new.x = out.x
                     /\ new.p = IF out.p = n THEN y ELSE out.p
                     /\ new.black = out.black
  <2>1. n \in Keys /\ y \in Keys /\ y # n BY <1>4
  <2>2. y = End(r, "left", r.child["right"][n]) /\ a = TakenOut(r, y).tree BY <1>2, <1>5, <1>6
  <2>3. PICK r1, r2 : Substitutes(r, n, y, a, r1, r2) BY <1>12, <2>1, <2>2, ReplacedFields
  <2> QED BY <1>5, <1>13, <2>3, Zenon DEF Substitutes
<1>15. PICK q, T : q = new.tree /\ T = E0[a.root] OBVIOUS
<1>16. n \in T /\ y \notin T /\ \A m \in T \ {n} : m < n <=> m < y BY <1>4, <1>10, <1>15
<1>17. Renames(a, q, T, n, y) BY <1>4, <1>10, <1>14, <1>15, <1>16, RenamedFields
<1>18. PICK E, G : E = Swapped(E0, n, y) /\ G = [H EXCEPT ![y] = H[n]] OBVIOUS
<1>19. E[q.root] = S \ {n}
  <2>1. E[q.root] = Swap(T, n, y)
    <3>1. /\ Shape(a, E0) /\ n \in E0[a.root] /\ y \in Keys /\ y \notin E0[a.root]
          /\ \A m \in E0[a.root] \ {n} : m < n <=> m < y
          /\ Renames(a, q, E0[a.root], n, y)
      BY <1>4, <1>10, <1>15, <1>16, <1>17
    <3>2. E[q.root] = Swap(E0[a.root], n, y) BY <1>18, <3>1, RenamedShape
    <3> QED BY <1>15, <3>2
  <2>2. T = S \ {y} BY <1>10, <1>15
  <2> QED BY <1>4, <2>1, <2>2 DEF Swap
<1>20. PICK p, o : p = out.p /\ o = new.p OBVIOUS
<1>21. o = IF p = n THEN y ELSE p BY <1>14, <1>20
<1>22. /\ \A s : Lacking(a, E0, H, x, p, s) => Lacking(q, E, G, x, o, s)
       /\ RedBlackTree(a, E0, H) => RedBlackTree(q, E, G)
  <2>1. /\ Shape(a, E0) /\ n \in E0[a.root] /\ y \in Keys /\ y \notin E0[a.root]
        /\ \A m \in E0[a.root] \ {n} : m < n <=> m < y
        /\ Renames(a, q, E0[a.root], n, y)
    BY <1>4, <1>10, <1>15, <1>16, <1>17
  <2>2. x # n /\ x # y /\ o = IF p = n THEN y ELSE p BY <1>10, <1>11, <1>21
  <2>3. E = Swapped(E0, n, y) /\ G = [H EXCEPT ![y] = H[n]] BY <1>18
  <2>4. /\ \A s : Lacking(a, E0, H, x, p, s) => Lacking(q, E, G, x, o, s)
        /\ RedBlackTree(a, E0, H) => RedBlackTree(q, E, G)
    <3>1. Renaming(a, E0, H, q, E, G, n, y) BY <2>1, <2>3 DEF Renaming
    <3> QED BY <2>2, <3>1, RenamedKeeps
  <2> QED BY <2>4
<1>23. /\ Elsewhere(r, a, S) /\ p \in Pointers
       /\ out.black => \E s : Lacking(a, E0, H, x, p, s)
       /\ ~out.black => RedBlackTree(a, E0, H)
  BY <1>6, <1>7, <1>9, <1>20 DEF Removes
<1>24. Elsewhere(r, q, S)
  <2>1. T \subseteq S BY <1>10, <1>15
  <2>2. Elsewhere(a, q, S) BY <1>4, <1>10, <1>15, <1>16, <1>17, <2>1, RenamesElsewhere
  <2> QED BY <1>23, <2>2, ElsewhereFacts
<1>25. o \in Pointers BY <1>4, <1>21, <1>23, NullIsNoKey
<1>26. new.x = x /\ new.black = out.black BY <1>9, <1>14
<1>27. Removes(r, S, n, new, E, G)
  BY <1>15, <1>19, <1>20, <1>22, <1>23, <1>24, <1>25, <1>26 DEF Removes
<1> QED BY <1>2, <1>13, <1>27

\* n, which is not in the tree, is as xcalloc leaves a node, and the size is i.
Erases(r, q, n, i) ==
  /\ q \in Trees /\ q.root = r.root /\ q.size = i
  /\ \A m \in Keys, s \in Sides : q.child[s][m] = IF m = n THEN NULL ELSE r.child[s][m]
  /\ \A m \in Keys : q.parent[m] = IF m = n THEN NULL ELSE r.parent[m]
  /\ \A m \in Keys : q.black[m] = IF m = n THEN FALSE ELSE r.black[m]

\* What Erased writes.
LEMMA ErasedFields ==
  ASSUME NEW r \in Trees, NEW n \in Keys, NEW i \in Nat, r.size = i + 1,
         NEW q, q = [Erased(r, n) EXCEPT !.size = @ - 1]
  PROVE  Erases(r, q, n, i)
<1>1. PICK L, R, p, b : /\ L = [r.child["left"] EXCEPT ![n] = NULL]
                        /\ R = [r.child["right"] EXCEPT ![n] = NULL]
                        /\ p = [r.parent EXCEPT ![n] = NULL]
                        /\ b = [r.black EXCEPT ![n] = FALSE]
  OBVIOUS
<1>2. PICK c : c = [r.child EXCEPT !["left"] = L, !["right"] = R] OBVIOUS
<1>3. PICK v : v = [r EXCEPT !.child = c, !.parent = p, !.black = b] OBVIOUS
<1>4. v = Erased(r, n) BY <1>1, <1>2, <1>3, Zenon DEF Erased, Trees, Sides
<1>5. L \in [Keys -> Pointers] /\ \A m \in Keys : L[m] = IF m = n THEN NULL ELSE r.child["left"][m]
  BY <1>1, NullIsNoKey DEF Trees, Sides
<1>6. R \in [Keys -> Pointers] /\ \A m \in Keys : R[m] = IF m = n THEN NULL ELSE r.child["right"][m]
  BY <1>1, NullIsNoKey DEF Trees, Sides
<1>7. c \in [Sides -> [Keys -> Pointers]] /\ c["left"] = L /\ c["right"] = R
  BY <1>2, <1>5, <1>6 DEF Trees, Sides
<1>8. p \in [Keys -> Pointers] /\ \A m \in Keys : p[m] = IF m = n THEN NULL ELSE r.parent[m]
  BY <1>1, NullIsNoKey DEF Trees
<1>9. b \in [Keys -> BOOLEAN] /\ \A m \in Keys : b[m] = IF m = n THEN FALSE ELSE r.black[m]
  BY <1>1 DEF Trees
<1>10. /\ v \in Trees /\ v.size = i + 1 /\ v.root = r.root
       /\ v.child = c /\ v.parent = p /\ v.black = b
  BY <1>3, <1>7, <1>8, <1>9 DEF Trees
<1>11. q = [v EXCEPT !.size = @ - 1] BY <1>4
<1>12. /\ q \in Trees /\ q.root = r.root /\ q.size = i
       /\ q.child = c /\ q.parent = p /\ q.black = b
  <2>1. v.size - 1 = i BY <1>10
  <2>2. q = [v EXCEPT !.size = i] BY <1>11, <2>1
  <2> QED BY <1>10, <2>2 DEF Trees
<1>13. \A m \in Keys, s \in Sides : q.child[s][m] = IF m = n THEN NULL ELSE r.child[s][m]
  BY <1>5, <1>6, <1>7, <1>12 DEF Sides
<1> QED BY <1>8, <1>9, <1>12, <1>13 DEF Erases

\* The freed node is out of the tree, and the size is right again.
LEMMA ErasedKeeps ==
  ASSUME NEW r, NEW D, NEW H, RedBlackTree(r, D, H), NEW n \in Keys, n \notin D[r.root],
         Blank(r, D[r.root] \cup {n}),
         NEW i \in Nat, i = Cardinality(D[r.root]), NEW q, Erases(r, q, n, i)
  PROVE  Sound(q, D, H) /\ q.root = r.root
<1> DEFINE S == D[r.root]
<1>1. /\ Shape(r, D) /\ Levels(r, H, S, NULL, "left") /\ Pales(r, S, NULL, NULL)
      /\ IsBlack(r, r.root)
  BY DEF RedBlackTree
<1>2. /\ q \in Trees /\ q.root = r.root /\ q.size = i
      /\ \A m \in Keys, s \in Sides : q.child[s][m] = IF m = n THEN NULL ELSE r.child[s][m]
      /\ \A m \in Keys : q.parent[m] = IF m = n THEN NULL ELSE r.parent[m]
      /\ \A m \in Keys : q.black[m] = IF m = n THEN FALSE ELSE r.black[m]
  BY DEF Erases
<1>3. S \subseteq Keys /\ \A m \in S : m # n BY <1>1, NodeFacts
<1>4. \A m \in S : /\ q.parent[m] = r.parent[m] /\ q.black[m] = r.black[m]
                   /\ \A s \in Sides : q.child[s][m] = r.child[s][m]
  BY <1>2, <1>3
<1>5. \A m \in S, s \in Sides : r.child[s][m] = NULL \/ r.child[s][m] \in S
  BY <1>1, NodeFacts
<1>6. \A m : m \in S \/ m = NULL => Weight(q, m) = Weight(r, m) \/ m = NULL
  BY <1>4 DEF Weight
<1>7. \A m \in S : (IsRed(q, m) <=> IsRed(r, m)) /\ Weight(q, m) = Weight(r, m)
  BY <1>4 DEF IsRed, IsBlack, Weight
<1>8. IsBlack(q, q.root)
  <2>1. r.root # NULL => r.root \in S BY <1>1 DEF Shape
  <2> QED BY <1>1, <1>2, <1>4, <2>1 DEF IsBlack
<1>9. Shape(q, D)
  <2>1. ASSUME NEW m \in S PROVE Node(q, D, m)
    <3>1. Node(r, D, m) BY <1>1 DEF Shape
    <3>2. "left" \in Sides /\ "right" \in Sides BY DEF Sides
    <3>3. \A s \in Sides : q.child[s][m] = r.child[s][m] BY <1>4
    <3>4. D[m] = {m} \cup D[q.child["left"][m]] \cup D[q.child["right"][m]]
      BY <3>1, <3>2, <3>3 DEF Node
    <3>5. D[m] \subseteq D[q.root] /\ \A s \in Sides : \A k \in D[q.child[s][m]] : Before(s, k, m)
      BY <1>2, <3>1, <3>3 DEF Node
    <3>6. \A s \in Sides : q.child[s][m] # NULL => q.parent[q.child[s][m]] = m
                                                 /\ q.child[s][m] \in D[q.child[s][m]]
      BY <1>4, <1>5, <3>1, <3>3 DEF Node
    <3>7. IF m = q.root THEN q.parent[m] = NULL
          ELSE q.parent[m] \in D[q.root] /\ \E s \in Sides : q.child[s][q.parent[m]] = m
      <4>1. CASE m = r.root BY <1>2, <1>4, <3>1, <4>1 DEF Node
      <4>2. CASE m # r.root
        <5>1. r.parent[m] \in S /\ \E s \in Sides : r.child[s][r.parent[m]] = m
          BY <3>1, <4>2 DEF Node
        <5> QED BY <1>2, <1>4, <4>2, <5>1
      <4> QED BY <4>1, <4>2
    <3> QED BY <3>4, <3>5, <3>6, <3>7 DEF Node
  <2> QED BY <1>1, <1>2, <2>1 DEF Shape
<1>10. Levels(q, H, S, NULL, "left") BY <1>1, <1>4, <1>7 DEF Levels, Level
<1>11. Pales(q, S, NULL, NULL)
  <2>1. ASSUME NEW m \in S, NEW s \in Sides PROVE Pale(q, m, s, NULL, NULL)
    <3>1. Pale(r, m, s, NULL, NULL) BY <1>1 DEF Pales
    <3>2. q.child[s][m] = r.child[s][m] BY <1>4
    <3>3. IsRed(q, r.child[s][m]) => IsRed(r, r.child[s][m])
      BY <1>5, <1>7 DEF IsRed, IsBlack
    <3> QED BY <1>7, <3>1, <3>2, <3>3 DEF Pale
  <2> QED BY <2>1 DEF Pales
<1>12. Blank(q, S) BY <1>2, ZenonT(60) DEF Blank
<1> QED BY <1>2, <1>8, <1>9, <1>10, <1>11, <1>12 DEF Sound, RedBlackTree

\* Nodes out of the tree stay as xcalloc leaves them.
LEMMA ElsewhereBlank ==
  ASSUME NEW r, NEW q, NEW S, Blank(r, S), Elsewhere(r, q, S)
  PROVE  Blank(q, S)
<1> SUFFICES ASSUME NEW n \in Keys \ S
             PROVE  /\ q.parent[n] = NULL /\ q.black[n] = FALSE
                    /\ \A s \in Sides : q.child[s][n] = NULL
  BY DEF Blank
<1>1. q.parent[n] = NULL BY DEF Blank, Elsewhere
<1>2. q.black[n] = FALSE
  <2>1. r.black[n] = FALSE BY DEF Blank
  <2>2. q.black[n] = r.black[n] BY DEF Elsewhere
  <2> QED BY <2>1, <2>2
<1>3. \A s \in Sides : q.child[s][n] = NULL
  <2>1. \A s \in Sides : r.child[s][n] = NULL BY DEF Blank
  <2>2. \A s \in Sides : q.child[s][n] = r.child[s][n] BY DEF Elsewhere
  <2> QED BY <2>1, <2>2
<1> QED BY <1>1, <1>2, <1>3

\* What lgx_rb_del does in the end.
Deleted(w, n) == [Erased(w, n) EXCEPT !.size = @ - 1]

\* r without n, but for what is left in n and for the size.
Left(r, S, n, w, E, G) ==
  RedBlackTree(w, E, G) /\ E[w.root] = S \ {n} /\ Elsewhere(r, w, S)

\* Freeing the node leaves a sound tree of the others.
LEMMA ErasedSound ==
  ASSUME NEW r, NEW D, NEW H, Sound(r, D, H), NEW n \in D[r.root],
         NEW w, NEW E, NEW G, Left(r, D[r.root], n, w, E, G)
  PROVE  Sound(Deleted(w, n), E, G) /\ E[Deleted(w, n).root] = D[r.root] \ {n}
<1>1. PICK S, T : S = D[r.root] /\ T = D[r.root] \ {n} OBVIOUS
<1>2. /\ Blank(r, S) /\ r.size = Cardinality(S)
      /\ IsFiniteSet(S) /\ n \in Keys /\ n \in S
  BY <1>1, NodeFacts DEF Sound, RedBlackTree, Shape
<1>3. PICK i : i = Cardinality(T) OBVIOUS
<1>4. i \in Nat /\ r.size = i + 1
  <2>1. Cardinality(T) = Cardinality(S) - 1 /\ Cardinality(S) \in Nat /\ Cardinality(T) \in Nat
    BY <1>1, <1>2, FS_RemoveElement, FS_CardinalityType
  <2> QED BY <1>2, <1>3, <2>1
<1>5. RedBlackTree(w, E, G) /\ E[w.root] = T /\ Elsewhere(r, w, S) BY <1>1 DEF Left
<1>6. w \in Trees /\ w.size = i + 1 BY <1>4, <1>5 DEF Elsewhere, RedBlackTree, Shape
<1>7. PICK q : q = Deleted(w, n) OBVIOUS
<1>8. Erases(w, q, n, i) BY <1>2, <1>4, <1>6, <1>7, ErasedFields DEF Deleted
<1>9. Blank(w, S) BY <1>2, <1>5, ElsewhereBlank
<1>10. S = T \cup {n} /\ n \notin T BY <1>1, <1>2
<1>11. i = Cardinality(E[w.root]) /\ Blank(w, E[w.root] \cup {n}) /\ n \notin E[w.root]
  BY <1>3, <1>5, <1>9, <1>10
<1>12. Sound(q, E, G) /\ q.root = w.root BY <1>2, <1>4, <1>5, <1>8, <1>11, ErasedKeeps
<1> QED BY <1>1, <1>5, <1>7, <1>12

\* What is left of the tree without n, before the loop of the deletion and after it.
Remainder(r, n) ==
  IF NULL \notin {r.child["left"][n], r.child["right"][n]} THEN Replaced(r, n) ELSE TakenOut(r, n)
Mended(out) == IF out.black THEN Rebalanced(out.tree, out.x, out.p) ELSE out.tree

\* The two ways for a node to leave the tree.
LEMMA RemainderKeeps ==
  ASSUME NEW r, NEW D, NEW H, Sound(r, D, H), NEW n \in D[r.root]
  PROVE  \E E, G : Removes(r, D[r.root], n, Remainder(r, n), E, G)
<1>1. RedBlackTree(r, D, H) /\ Blank(r, D[r.root]) BY DEF Sound
<1>2. CASE NULL \in {r.child["left"][n], r.child["right"][n]}
  <2>1. PICK E : E = Without(D, n) OBVIOUS
  <2>2. Remainder(r, n) = TakenOut(r, n) BY <1>2 DEF Remainder
  <2>3. Removes(r, D[r.root], n, TakenOut(r, n), E, H) BY <1>1, <1>2, <2>1, TakenOutKeeps
  <2> QED BY <2>2, <2>3
<1>3. CASE NULL \notin {r.child["left"][n], r.child["right"][n]}
  <2>1. r.child["right"][n] # NULL BY <1>3
  <2>2. Remainder(r, n) = Replaced(r, n) BY <1>3 DEF Remainder
  <2>3. \E E, G : Removes(r, D[r.root], n, Replaced(r, n), E, G) BY <1>1, <2>1, ReplacedKeeps
  <2> QED BY <2>2, <2>3
<1> QED BY <1>2, <1>3

\* After the loop, if it has to run, the tree is red-black again.
LEMMA MendedKeeps ==
  ASSUME NEW r, NEW D, NEW H, Sound(r, D, H), NEW n \in D[r.root],
         NEW out, NEW E0, NEW G0, Removes(r, D[r.root], n, out, E0, G0)
  PROVE  \E E, G : Left(r, D[r.root], n, Mended(out), E, G)
<1>1. PICK S, T : S = D[r.root] /\ T = D[r.root] \ {n} OBVIOUS
<1>2. IsFiniteSet(S) /\ r.size = Cardinality(S) /\ n \in S
  BY <1>1 DEF Sound, RedBlackTree, Shape
<1>3. PICK a : a = out.tree OBVIOUS
<1>4. /\ E0[a.root] = T /\ Elsewhere(r, a, S) /\ out.p \in Pointers
      /\ out.black => \E s : Lacking(a, E0, G0, out.x, out.p, s)
      /\ ~out.black => RedBlackTree(a, E0, G0)
  BY <1>1, <1>3 DEF Removes
<1>5. a.size = Cardinality(T) + 1
  <2>1. Cardinality(T) = Cardinality(S) - 1 /\ Cardinality(S) \in Nat
    BY <1>1, <1>2, FS_RemoveElement, FS_CardinalityType
  <2> QED BY <1>2, <1>4, <2>1 DEF Elsewhere
<1>6. CASE out.black
  <2>1. PICK x, p : x = out.x /\ p = out.p OBVIOUS
  <2>2. PICK z : Lacking(a, E0, G0, x, p, z) BY <1>4, <1>6, <2>1
  <2>3. a.size = Cardinality(E0[a.root]) + 1 /\ p \in Pointers BY <1>4, <1>5, <2>1
  <2>4. PICK E, G : /\ RedBlackTree(Rebalanced(a, x, p), E, G)
                    /\ E[Rebalanced(a, x, p).root] = E0[a.root]
                    /\ Elsewhere(a, Rebalanced(a, x, p), E0[a.root])
    BY <2>2, <2>3, RebalancedKeeps
  <2>5. PICK w : w = Mended(out) OBVIOUS
  <2>6. w = Rebalanced(a, x, p) BY <1>3, <1>6, <2>1, <2>5 DEF Mended
  <2>7. RedBlackTree(w, E, G) /\ E[w.root] = T /\ Elsewhere(a, w, T) BY <1>4, <2>4, <2>6
  <2>8. T \subseteq S BY <1>1
  <2>9. Elsewhere(a, w, S) BY <2>7, <2>8 DEF Elsewhere
  <2>10. Elsewhere(r, w, S) BY <1>4, <2>9, ElsewhereFacts
  <2> QED BY <1>1, <2>5, <2>7, <2>10 DEF Left
<1>7. CASE ~out.black
  <2>1. Mended(out) = a BY <1>3, <1>7 DEF Mended
  <2>2. Left(r, D[r.root], n, a, E0, G0) BY <1>1, <1>4, <1>7 DEF Left
  <2> QED BY <2>1, <2>2
<1> QED BY <1>6, <1>7

\* lgx_rb_del makes a sound tree without the key of one with it.
LEMMA DelKeeps ==
  ASSUME NEW r, NEW D, NEW H, Sound(r, D, H), NEW n \in D[r.root],
         NEW w, w = Mended(Remainder(r, n))
  PROVE  \E E, G : Sound(Deleted(w, n), E, G) /\ E[Deleted(w, n).root] = D[r.root] \ {n}
<1>1. PICK out : out = Remainder(r, n) OBVIOUS
<1>2. PICK E0, G0 : Removes(r, D[r.root], n, out, E0, G0) BY <1>1, RemainderKeeps
<1>3. PICK E, G : Left(r, D[r.root], n, Mended(out), E, G) BY <1>2, MendedKeeps
<1>4. w = Mended(out) BY <1>1
<1>5. Left(r, D[r.root], n, w, E, G) BY <1>3, <1>4
<1> QED BY <1>5, ErasedSound

-----------------------------------------------------------------------------
(* The invariant.                                                          *)

\* InUse and Members of a tree.
Used(r) == r.root # NULL => r.size > 0
MembersOf(r) == IF Used(r) THEN Nodes(r) ELSE {}

\* What lgx_rb_cleanup leaves of a tree that had nodes.
Freed(r) == r.root \in Keys /\ r = [Empty EXCEPT !.root = r.root]

\* A tree in use is a red-black tree of its members; the other ones have been freed.
Good(r) == IF Used(r) THEN \E D, H : Sound(r, D, H) ELSE Freed(r)

\* A sound tree is in use, and its members are the nodes under the root.
LEMMA SoundFacts ==
  ASSUME NEW r, NEW D, NEW H, Sound(r, D, H)
  PROVE  Used(r) /\ Good(r) /\ MembersOf(r) = D[r.root] /\ r \in Trees
<1>1. /\ Shape(r, D) /\ Blank(r, D[r.root]) /\ r.size = Cardinality(D[r.root])
      /\ IsFiniteSet(D[r.root]) /\ r \in Trees
  BY DEF Sound, RedBlackTree, Shape
<1>2. ASSUME r.root # NULL PROVE r.size > 0
  <2>1. r.root \in D[r.root] BY <1>1, <1>2 DEF Shape
  <2>2. Cardinality(D[r.root]) # 0 /\ Cardinality(D[r.root]) \in Nat
    BY <1>1, <2>1, FS_EmptySet, FS_CardinalityType
  <2> QED BY <1>1, <2>2
<1>3. Used(r) BY <1>2 DEF Used
<1>4. Nodes(r) = D[r.root] BY <1>1, NodesFacts
<1> QED BY <1>1, <1>3, <1>4 DEF Good, MembersOf

\* lgx_rb_init makes a sound tree without members.
LEMMA EmptyFacts == Good(Empty) /\ MembersOf(Empty) = {} /\ Empty \in Trees
<1>1. PICK D, H : D = [m \in Pointers |-> {}] /\ H = [m \in Pointers |-> 0] OBVIOUS
<1>2. PICK r : r = Empty OBVIOUS
<1>3. /\ r \in Trees /\ r.root = NULL /\ r.size = 0
      /\ \A n \in Keys : /\ r.parent[n] = NULL /\ r.black[n] = FALSE
                         /\ \A s \in Sides : r.child[s][n] = NULL
  BY <1>2, NullIsNoKey DEF Empty, Trees
<1>4. D \in [Pointers -> SUBSET Keys] /\ D[NULL] = {} /\ D[r.root] = {}
  BY <1>1, <1>3, NullIsNoKey
<1>5. IsFiniteSet(D[r.root]) /\ Cardinality(D[r.root]) = 0 BY <1>4, FS_EmptySet
<1>6. Shape(r, D) BY <1>3, <1>4, <1>5 DEF Shape
<1>7. H \in [Pointers -> Nat] /\ H[NULL] = 0 BY <1>1, NullIsNoKey
<1>8. Levels(r, H, D[r.root], NULL, "left") BY <1>4, <1>7 DEF Levels
<1>9. Pales(r, D[r.root], NULL, NULL) BY <1>4 DEF Pales
<1>10. IsBlack(r, r.root) BY <1>3 DEF IsBlack
<1>11. Blank(r, D[r.root]) BY <1>3 DEF Blank
<1>12. Sound(r, D, H) BY <1>3, <1>5, <1>6, <1>8, <1>9, <1>10, <1>11 DEF Sound, RedBlackTree
<1> QED BY <1>2, <1>3, <1>4, <1>12, SoundFacts

\* lgx_rb_cleanup leaves no members.
LEMMA CleanupFacts ==
  ASSUME NEW r \in Trees
  PROVE  Good([Empty EXCEPT !.root = r.root]) /\ MembersOf([Empty EXCEPT !.root = r.root]) = {}
<1>1. PICK q : q = [Empty EXCEPT !.root = r.root] OBVIOUS
<1>2. q.root = r.root /\ q.size = 0 /\ r.root \in Pointers BY <1>1 DEF Empty, Trees
<1>3. CASE r.root = NULL
  <2>1. q = Empty BY <1>1, <1>3 DEF Empty
  <2> QED BY <1>1, <2>1, EmptyFacts
<1>4. CASE r.root # NULL
  <2>1. ~Used(q) BY <1>2, <1>4 DEF Used
  <2>2. Freed(q) BY <1>1, <1>2, <1>4 DEF Freed, Pointers
  <2> QED BY <1>1, <2>1, <2>2 DEF Good, MembersOf
<1> QED BY <1>3, <1>4

\* An insertion adds its key to the members.
LEMMA SetFacts ==
  ASSUME NEW r, Used(r), Good(r), NEW k \in Keys, k \notin Path(r, k),
         NEW q, q = Inserted(r, k)
  PROVE  Good(q) /\ k \notin MembersOf(r) /\ MembersOf(q) = MembersOf(r) \cup {k}
<1>1. PICK D, H : Sound(r, D, H) BY DEF Good
<1>2. MembersOf(r) = D[r.root] BY <1>1, SoundFacts
<1>3. PICK S : S = D[r.root] OBVIOUS
<1>4. k \in Path(r, k) <=> k \in S BY <1>1, <1>3, QueriesFacts, Zenon DEF Answers
<1>5. k \notin D[r.root] BY <1>3, <1>4
<1>6. PICK E, G : Sound(q, E, G) /\ E[q.root] = D[r.root] \cup {k} BY <1>1, <1>5, SetKeeps
<1>7. Good(q) /\ MembersOf(q) = E[q.root] BY <1>6, SoundFacts
<1> QED BY <1>2, <1>5, <1>6, <1>7

\* A deletion removes its key from the members.
LEMMA DelFacts ==
  ASSUME NEW r, Used(r), Good(r), NEW n \in Keys, n \in Path(r, n),
         NEW w, w = Mended(Remainder(r, n))
  PROVE  Good(Deleted(w, n)) /\ n \in MembersOf(r) /\ MembersOf(Deleted(w, n)) = MembersOf(r) \ {n}
<1>1. PICK D, H : Sound(r, D, H) BY DEF Good
<1>2. MembersOf(r) = D[r.root] BY <1>1, SoundFacts
<1>3. PICK S : S = D[r.root] OBVIOUS
<1>4. n \in Path(r, n) <=> n \in S BY <1>1, <1>3, QueriesFacts, Zenon DEF Answers
<1>5. n \in D[r.root] BY <1>3, <1>4
<1>6. PICK E, G : Sound(Deleted(w, n), E, G) /\ E[Deleted(w, n).root] = D[r.root] \ {n}
  BY <1>1, <1>5, DelKeeps
<1>7. PICK q : q = Deleted(w, n) OBVIOUS
<1>8. Sound(q, E, G) /\ E[q.root] = D[r.root] \ {n} BY <1>6, <1>7
<1>9. Good(q) /\ MembersOf(q) = E[q.root] BY <1>8, SoundFacts
<1> QED BY <1>2, <1>5, <1>7, <1>8, <1>9

Inv == Good(t) /\ answer \in Pointers

\* The members as a function of the tree.
LEMMA MembersFacts ==
  /\ Members = MembersOf(t) /\ (InUse <=> Used(t))
  /\ Members' = MembersOf(t')
BY DEF Members, MembersOf, InUse, Used

\* The invariant holds at the start, and the tree is the empty set.
LEMMA InitInv == Init => Inv /\ Set!Init
<1> SUFFICES ASSUME Init PROVE Inv /\ Set!Init OBVIOUS
<1>1. t = Empty /\ answer = NULL BY DEF Init
<1>2. Good(t) /\ MembersOf(t) = {} BY <1>1, EmptyFacts
<1> QED BY <1>1, <1>2, MembersFacts, NullIsNoKey DEF Inv, Set!Init

\* A step keeps the invariant and is a step of the set, or leaves it alone.
LEMMA NextInv == Inv /\ [Next]_vars => Inv' /\ [Set!Next]_Set!vars
<1> SUFFICES ASSUME Inv, [Next]_vars PROVE Inv' /\ [Set!Next]_Set!vars OBVIOUS
<1>1. PICK r, q : r = t /\ q = t' OBVIOUS
<1>2. Good(r) /\ answer \in Pointers BY <1>1 DEF Inv
<1>3. Members = MembersOf(r) /\ Members' = MembersOf(q) /\ (InUse <=> Used(r))
  BY <1>1, MembersFacts
<1>4. ASSUME InUse, NEW k \in Keys, lgx_rb_set(k) PROVE Inv' /\ [Set!Next]_Set!vars
  <2>1. CASE /\ k \notin Path(t, k)
             /\ t' = [Balanced(Hung(t, k), k) EXCEPT !.size = @ + 1]
             /\ answer' = k
    <3>1. k \notin Path(r, k) /\ q = Inserted(r, k) BY <1>1, <2>1 DEF Inserted
    <3>2. Good(q) /\ k \notin MembersOf(r) /\ MembersOf(q) = MembersOf(r) \cup {k}
      BY <1>2, <1>3, <1>4, <3>1, SetFacts
    <3>3. Inv' BY <1>1, <2>1, <3>2, NullIsNoKey DEF Inv
    <3>4. Set!Add(k) BY <1>3, <2>1, <3>2 DEF Set!Add
    <3> QED BY <3>3, <3>4 DEF Set!Next
  <2>2. CASE answer' = NULL /\ UNCHANGED t
    <3>1. q = r BY <1>1, <2>2
    <3>2. Inv' BY <1>1, <1>2, <2>2, NullIsNoKey DEF Inv
    <3>3. Set!Add(k) BY <1>3, <2>2, <3>1 DEF Set!Add
    <3> QED BY <3>2, <3>3 DEF Set!Next
  <2> QED BY <1>4, <2>1, <2>2 DEF lgx_rb_set
<1>5. ASSUME InUse, NEW k \in Keys, lgx_rb_del(k) PROVE Inv' /\ [Set!Next]_Set!vars
  <2>1. k \in Path(t, k) /\ answer' = k BY <1>5 DEF lgx_rb_del
  <2>2. t' = Deleted(Mended(Remainder(t, k)), k)
    BY <1>5, Zenon DEF lgx_rb_del, Deleted, Mended, Remainder
  <2>3. PICK w : w = Mended(Remainder(r, k)) OBVIOUS
  <2>4. q = Deleted(w, k) /\ k \in Path(r, k) BY <1>1, <2>1, <2>2, <2>3
  <2>5. Good(q) /\ k \in MembersOf(r) /\ MembersOf(q) = MembersOf(r) \ {k}
    BY <1>2, <1>3, <1>5, <2>3, <2>4, DelFacts
  <2>6. Inv' BY <1>1, <2>1, <2>5, NullIsNoKey DEF Inv
  <2>7. Set!Remove(k) BY <1>3, <2>1, <2>5 DEF Set!Remove
  <2> QED BY <2>6, <2>7, Zenon DEF Set!Next
<1>6. ASSUME InUse, lgx_rb_cleanup PROVE Inv' /\ [Set!Next]_Set!vars
  <2>1. t' = [Empty EXCEPT !.root = t.root] /\ answer' = NULL BY <1>6 DEF lgx_rb_cleanup
  <2>2. PICK D, H : Sound(r, D, H) BY <1>2, <1>3, <1>6 DEF Good
  <2>3. r \in Trees BY <2>2, SoundFacts
  <2>4. q = [Empty EXCEPT !.root = r.root] BY <1>1, <2>1
  <2>5. Good(q) /\ MembersOf(q) = {} BY <2>3, <2>4, CleanupFacts
  <2>6. Inv' BY <1>1, <2>1, <2>5, NullIsNoKey DEF Inv
  <2>7. Set!Clear BY <1>3, <2>1, <2>5 DEF Set!Clear
  <2> QED BY <2>6, <2>7 DEF Set!Next
<1>7. ASSUME lgx_rb_init PROVE Inv' /\ [Set!Next]_Set!vars
  <2>1. t' = Empty /\ answer' = NULL BY <1>7 DEF lgx_rb_init
  <2>2. Good(q) /\ MembersOf(q) = {} BY <1>1, <2>1, EmptyFacts
  <2>3. Inv' BY <1>1, <2>1, <2>2, NullIsNoKey DEF Inv
  <2>4. Set!Clear BY <1>3, <2>1, <2>2 DEF Set!Clear
  <2> QED BY <2>3, <2>4 DEF Set!Next
<1>8. ASSUME UNCHANGED vars PROVE Inv' /\ [Set!Next]_Set!vars
  <2>1. t' = t /\ answer' = answer BY <1>8 DEF vars
  <2>2. Inv' BY <1>1, <1>2, <2>1 DEF Inv
  <2>3. Members' = Members BY <1>1, <1>3, <2>1
  <2> QED BY <2>1, <2>2, <2>3 DEF Set!vars
<1> QED BY <1>4, <1>5, <1>6, <1>7, <1>8 DEF Next

\* The invariant holds always.
LEMMA SpecInv == Spec => []Inv
<1>1. Init => Inv BY InitInv
<1>2. Inv /\ [Next]_vars => Inv' BY NextInv
<1> QED BY <1>1, <1>2, PTL DEF Spec

-----------------------------------------------------------------------------
(* The theorems.                                                           *)

\* Child links and parent links of a sound tree agree.
LEMMA SoundTypes ==
  ASSUME NEW r, NEW D, NEW H, Sound(r, D, H)
  PROVE  /\ \A n \in Keys, s \in Sides : r.child[s][n] # NULL => r.parent[r.child[s][n]] = n
         /\ \A n \in Keys : r.parent[n] = NULL \/ \E s \in Sides : r.child[s][r.parent[n]] = n
<1>1. Shape(r, D) /\ Blank(r, D[r.root]) BY DEF Sound, RedBlackTree
<1>2. ASSUME NEW n \in Keys, NEW s \in Sides, r.child[s][n] # NULL
      PROVE  r.parent[r.child[s][n]] = n
  <2>1. n \in D[r.root] BY <1>1, <1>2 DEF Blank
  <2> QED BY <1>1, <1>2, <2>1, NodeFacts
<1>3. ASSUME NEW n \in Keys, r.parent[n] # NULL
      PROVE  \E s \in Sides : r.child[s][r.parent[n]] = n
  <2>1. n \in D[r.root] BY <1>1, <1>3 DEF Blank
  <2>2. Up(r, D, n) BY <1>1, <2>1, NodeLinks
  <2> QED BY <1>3, <2>2 DEF Up
<1> QED BY <1>2, <1>3

\* The invariant implies each property.
LEMMA InvTypeOK == Inv => TypeOK
<1> SUFFICES ASSUME Inv PROVE TypeOK OBVIOUS
<1>1. PICK r : r = t OBVIOUS
<1>2. /\ r \in Trees
      /\ \A n \in Keys, s \in Sides : r.child[s][n] # NULL => r.parent[r.child[s][n]] = n
      /\ \A n \in Keys : r.parent[n] = NULL \/ \E s \in Sides : r.child[s][r.parent[n]] = n
  <2>1. CASE Used(r)
    <3>1. PICK D, H : Sound(r, D, H) BY <1>1, <2>1 DEF Inv, Good
    <3> QED BY <3>1, SoundFacts, SoundTypes
  <2>2. CASE ~Used(r)
    <3>1. r.root \in Keys /\ r = [Empty EXCEPT !.root = r.root] BY <1>1, <2>2 DEF Inv, Good, Freed
    <3>2. PICK m : m = r.root OBVIOUS
    <3>3. m \in Pointers /\ r = [Empty EXCEPT !.root = m] BY <3>1, <3>2 DEF Pointers
    <3>4. Empty \in Trees BY EmptyFacts
    <3>5. r \in Trees /\ r.child = Empty.child /\ r.parent = Empty.parent
      BY <3>3, <3>4 DEF Trees
    <3>6. \A n \in Keys : r.parent[n] = NULL /\ \A s \in Sides : r.child[s][n] = NULL
      BY <3>5 DEF Empty
    <3> QED BY <3>5, <3>6
  <2> QED BY <2>1, <2>2
<1>3. /\ r.root \in Pointers /\ r.size \in Nat /\ r.child \in [Sides -> [Keys -> Pointers]]
      /\ r.parent \in [Keys -> Pointers] /\ r.black \in [Keys -> BOOLEAN]
  BY <1>2 DEF Trees
<1> QED BY <1>1, <1>2, <1>3 DEF TypeOK, Inv

\* Every variable keeps its type; every child link has its parent link, and every parent
\* link its child link (what rotations, insertions and deletions relink).
THEOREM TypeCorrect == Spec => []TypeOK
BY SpecInv, InvTypeOK, PTL

\* The same for the red-black properties.
LEMMA InvRedBlack == Inv => RedBlack
<1> SUFFICES ASSUME Inv PROVE RedBlack OBVIOUS
<1>1. PICK r : r = t OBVIOUS
<1>2. Members = MembersOf(r) /\ (InUse <=> Used(r)) BY <1>1, MembersFacts
<1>3. CASE Used(r)
  <2>1. PICK D, H : Sound(r, D, H) BY <1>1, <1>3 DEF Inv, Good
  <2>2. Members = D[r.root] BY <1>2, <2>1, SoundFacts
  <2>3. /\ Shape(r, D) /\ Blank(r, D[r.root]) /\ Levels(r, H, D[r.root], NULL, "left")
        /\ Pales(r, D[r.root], NULL, NULL) /\ IsBlack(r, r.root)
    BY <2>1 DEF Sound, RedBlackTree
  <2>4. ASSUME NEW n \in Members, IsRed(r, n), NEW s \in Sides PROVE IsBlack(r, r.child[s][n])
    <3>1. n # NULL BY <2>2, <2>3, NodeFacts
    <3>2. Pale(r, n, s, NULL, NULL) BY <2>2, <2>3 DEF Pales
    <3>3. IsRed(r, r.child[s][n]) => r.child[s][n] = NULL BY <2>4, <3>1, <3>2 DEF Pale
    <3> QED BY <3>3 DEF IsRed, IsBlack
  <2>5. ASSUME NEW n \in Members PROVE Cardinality(BlackNodes(r)[n]) = 1
    <3>1. PICK h : h = H[n] OBVIOUS
    <3>2. BlackNodes(r)[n] = {h} BY <2>2, <2>3, <3>1, BlackNodesFacts
    <3>3. Cardinality({h}) = 1 BY FS_Singleton
    <3> QED BY <3>2, <3>3
  <2> QED BY <1>1, <2>3, <2>4, <2>5 DEF RedBlack
<1>4. CASE ~Used(r)
  <2>1. Members = {} BY <1>2, <1>4 DEF MembersOf
  <2> QED BY <1>2, <1>4, <2>1 DEF RedBlack
<1> QED BY <1>3, <1>4

\* The root is black, a red node has black children and the paths down from a node have
\* equally many black nodes, after any insertions and deletions (the comment at the head
\* of rb.c, kept by rb_insert_fixup and by the loop of lgx_rb_del).
THEOREM RedBlackTrees == Spec => []RedBlack
BY SpecInv, InvRedBlack, PTL

\* The same for the queries.
LEMMA InvQueries == Inv => QueriesAreRight
<1> SUFFICES ASSUME Inv, InUse PROVE QueriesAreRight BY DEF QueriesAreRight
<1>1. PICK r, S : r = t /\ S = Members OBVIOUS
<1>2. Members = MembersOf(r) /\ Used(r) BY <1>1, MembersFacts
<1>3. PICK D, H : Sound(r, D, H) BY <1>1, <1>2 DEF Inv, Good
<1>4. S = D[r.root] BY <1>1, <1>2, <1>3, SoundFacts
<1>5. ASSUME NEW k \in Keys
      PROVE  /\ lgx_rb_get(t, k) = IF k \in Members THEN k ELSE NULL
             /\ lgx_rb_get_lesser(t, k) = Set!Greatest({j \in Members : j < k})
             /\ lgx_rb_get_lesser_or_equal(t, k) = Set!Greatest({j \in Members : j <= k})
             /\ lgx_rb_get_greater(t, k) = Set!Least({j \in Members : j > k})
             /\ lgx_rb_get_greater_or_equal(t, k) = Set!Least({j \in Members : j >= k})
             /\ k \in Members => lgx_rb_next(t, k) = Set!Least({j \in Members : j > k})
  <2>1. /\ lgx_rb_get(r, k) = IF k \in S THEN k ELSE NULL
        /\ lgx_rb_get_lesser(r, k) = Set!Greatest({j \in S : j < k})
        /\ lgx_rb_get_lesser_or_equal(r, k) = Set!Greatest({j \in S : j <= k})
        /\ lgx_rb_get_greater(r, k) = Set!Least({j \in S : j > k})
        /\ lgx_rb_get_greater_or_equal(r, k) = Set!Least({j \in S : j >= k})
        /\ k \in S => lgx_rb_next(r, k) = Set!Least({j \in S : j > k})
    <3>1. Answers(r, S, k) BY <1>3, <1>4, QueriesFacts, Zenon
    <3> QED BY <3>1, Zenon DEF Answers
  <2> QED BY <1>1, <2>1, Zenon
<1>6. lgx_rb_get_min(t) = Set!Least(Members) /\ lgx_rb_get_max(t) = Set!Greatest(Members)
  <2>1. lgx_rb_get_min(r) = Set!Least(S) /\ lgx_rb_get_max(r) = Set!Greatest(S)
    BY <1>3, <1>4, EndsFacts
  <2> QED BY <1>1, <2>1
<1>7. t.size = Cardinality(Members) BY <1>1, <1>3, <1>4 DEF Sound
<1> QED BY <1>5, <1>6, <1>7, Zenon DEF QueriesAreRight

\* Every query of a key, in the tree or not, answers as the sorted set of the members, and
\* lgx_rb_next goes from each to the next (lgx_rb_get to lgx_rb_next).
THEOREM QueriesRight == Spec => []QueriesAreRight
BY SpecInv, InvQueries, PTL

\* Each call is one of a set of keys: an insertion adds its key, a deletion removes its
\* key, and neither loses another one (lgx_rb_set, lgx_rb_del, lgx_rb_cleanup).
THEOREM Implementation == Spec => ImplementsSet
<1>1. Init => Inv /\ Set!Init BY InitInv
<1>2. Inv /\ [Next]_vars => Inv' /\ [Set!Next]_Set!vars BY NextInv
<1> QED BY <1>1, <1>2, PTL DEF Spec, ImplementsSet, Set!Spec
=============================================================================
