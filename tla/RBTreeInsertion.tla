--------------------------- MODULE RBTreeInsertion ---------------------------
(***************************************************************************)
(* Insertion into the red-black trees of RBTree, for every set of keys:    *)
(* what a tree is, what a rotation keeps, and that lgx_rb_set makes a      *)
(* red-black tree with its key of one without it.                          *)
(***************************************************************************)
EXTENDS RBTree, InductionFacts, FiniteSetTheorems

-----------------------------------------------------------------------------
(* Sides.                                                                  *)

\* m is on the side of n.
Before(side, m, n) == IF side = "left" THEN m < n ELSE n < m

\* There are two sides, each the other's other.
LEMMA SideFacts ==
  ASSUME NEW s \in Sides
  PROVE  /\ Other(s) \in Sides /\ Other(s) # s /\ Other(Other(s)) = s
         /\ Sides = {s, Other(s)}
         /\ \A u \in Sides : u # s => u = Other(s)
BY DEF Sides, Other

\* On either side, keys are totally ordered, and the other side is the reverse order.
LEMMA OrderFacts ==
  ASSUME NEW s \in Sides
  PROVE  /\ \A m, n \in Keys : Before(s, m, n) <=> Before(Other(s), n, m)
         /\ \A n \in Keys : ~Before(s, n, n)
         /\ \A l, m, n \in Keys : Before(s, l, m) /\ Before(s, m, n) => Before(s, l, n)
         /\ \A m, n \in Keys : Before(s, m, n) => ~Before(Other(s), m, n)
         /\ \A m, n \in Keys : m # n => Before(s, m, n) \/ Before(Other(s), m, n)
<1>1. Keys \subseteq Nat BY RBTreeAssumption
<1> QED BY <1>1 DEF Sides, Other, Before

-----------------------------------------------------------------------------
(* Trees.                                                                  *)

Trees == [root : Pointers, size : Nat, child : [Sides -> [Keys -> Pointers]],
          parent : [Keys -> Pointers], black : [Keys -> BOOLEAN]]

\* D gives the nodes under each node, the node itself included.
Node(r, D, n) ==
  /\ D[n] = {n} \cup D[r.child["left"][n]] \cup D[r.child["right"][n]]
  /\ D[n] \subseteq D[r.root]
  /\ \A s \in Sides : \A m \in D[r.child[s][n]] : Before(s, m, n)
  /\ \A s \in Sides : r.child[s][n] # NULL => r.parent[r.child[s][n]] = n
                                              /\ r.child[s][n] \in D[r.child[s][n]]
  /\ IF n = r.root THEN r.parent[n] = NULL
     ELSE r.parent[n] \in D[r.root] /\ \E s \in Sides : r.child[s][r.parent[n]] = n

Shape(r, D) ==
  /\ r \in Trees
  /\ D \in [Pointers -> SUBSET Keys] /\ D[NULL] = {}
  /\ r.root # NULL => r.root \in D[r.root]
  /\ IsFiniteSet(D[r.root])
  /\ \A n \in D[r.root] : Node(r, D, n)

\* The null pointer is a pointer and no key.
LEMMA NullIsNoKey == NULL \notin Keys /\ NULL \in Pointers /\ Keys \subseteq Pointers
BY RBTreeAssumption DEF Pointers

\* What Shape says of a node, for either of its sides.
LEMMA NodeFacts ==
  ASSUME NEW r, NEW D, Shape(r, D), NEW n \in D[r.root]
  PROVE  /\ n \in Keys /\ n # NULL /\ n \in D[n] /\ D[n] \subseteq D[r.root]
         /\ \A s \in Sides : D[n] = {n} \cup D[r.child[s][n]] \cup D[r.child[Other(s)][n]]
         /\ \A s \in Sides : r.child[s][n] \in Pointers
         /\ \A s \in Sides : D[r.child[s][n]] \subseteq D[n] \ {n}
         /\ \A s \in Sides : \A m \in D[r.child[s][n]] : Before(s, m, n)
         /\ \A s \in Sides : D[r.child[s][n]] \cap D[r.child[Other(s)][n]] = {}
         /\ \A s \in Sides : r.child[s][n] # NULL =>
              /\ r.child[s][n] \in Keys
              /\ r.child[s][n] \in D[r.child[s][n]] /\ r.child[s][n] \in D[r.root]
              /\ r.parent[r.child[s][n]] = n
              /\ r.child[Other(s)][n] # r.child[s][n]
         /\ n = r.root => r.parent[n] = NULL
         /\ n # r.root => r.parent[n] \in D[r.root]
                          /\ \E s \in Sides : r.child[s][r.parent[n]] = n
<1>1. /\ r \in Trees /\ D \in [Pointers -> SUBSET Keys] /\ D[NULL] = {} /\ Node(r, D, n)
      /\ r.root \in Pointers
  BY DEF Shape, Trees
<1>2. n \in Keys /\ n # NULL BY <1>1, NullIsNoKey
<1>3. \A s \in Sides : r.child[s][n] \in Pointers BY <1>1, <1>2 DEF Trees
<1>4. \A s \in Sides : D[n] = {n} \cup D[r.child[s][n]] \cup D[r.child[Other(s)][n]]
  BY <1>1 DEF Node, Sides, Other
<1>5. \A s \in Sides : D[r.child[s][n]] \subseteq Keys BY <1>1, <1>3
<1>6. \A s \in Sides : \A m \in D[r.child[s][n]] : Before(s, m, n) BY <1>1 DEF Node
<1>7. \A s \in Sides : n \notin D[r.child[s][n]] BY <1>2, <1>6, OrderFacts
<1>8. ASSUME NEW s \in Sides PROVE D[r.child[s][n]] \cap D[r.child[Other(s)][n]] = {}
  <2> SUFFICES ASSUME NEW m \in D[r.child[s][n]], m \in D[r.child[Other(s)][n]] PROVE FALSE
    OBVIOUS
  <2>1. Other(s) \in Sides BY SideFacts
  <2>2. Before(s, m, n) /\ Before(Other(s), m, n) BY <1>6, <2>1
  <2> QED BY <1>2, <1>5, <2>2, OrderFacts
<1>9. D[n] \subseteq D[r.root] BY <1>1 DEF Node
<1>10. ASSUME NEW s \in Sides, r.child[s][n] # NULL
       PROVE  /\ r.child[s][n] \in Keys
              /\ r.child[s][n] \in D[r.child[s][n]] /\ r.child[s][n] \in D[r.root]
              /\ r.parent[r.child[s][n]] = n
              /\ r.child[Other(s)][n] # r.child[s][n]
  <2>1. r.child[s][n] \in D[r.child[s][n]] /\ r.parent[r.child[s][n]] = n
    BY <1>1, <1>10 DEF Node
  <2>2. D[r.child[s][n]] \subseteq D[n] BY <1>4
  <2>3. r.child[s][n] \in Keys BY <1>5, <2>1
  <2>4. r.child[Other(s)][n] # r.child[s][n] BY <1>8, <2>1
  <2> QED BY <1>9, <2>1, <2>2, <2>3, <2>4
<1>11. /\ n = r.root => r.parent[n] = NULL
       /\ n # r.root => r.parent[n] \in D[r.root]
                        /\ \E s \in Sides : r.child[s][r.parent[n]] = n
  BY <1>1 DEF Node
<1>12. n \in D[n] BY <1>1 DEF Node
<1> QED BY <1>2, <1>3, <1>4, <1>6, <1>7, <1>8, <1>9, <1>10, <1>11, <1>12

\* The same of the child a on the side and the child b on the other one.
Fork(r, D, n, s, a, b) ==
  /\ n \in Keys /\ n # NULL /\ n \in D[n] /\ D[n] \subseteq D[r.root]
  /\ D[n] = {n} \cup D[a] \cup D[b] /\ n \notin D[a] /\ n \notin D[b]
  /\ D[a] \cap D[b] = {} /\ D[a] \subseteq Keys /\ D[b] \subseteq Keys
  /\ a \in Pointers
  /\ a # NULL => a \in D[a] /\ a \in D[r.root] /\ a \in Keys /\ r.parent[a] = n /\ a # b
  /\ b \in Pointers
  /\ b # NULL => b \in D[b] /\ b \in D[r.root] /\ b \in Keys /\ r.parent[b] = n /\ a # b
  /\ \A m \in D[a] : Before(s, m, n)
  /\ \A m \in D[b] : Before(Other(s), m, n)

\* A node with its two children, named by the side they are on.
LEMMA ForkFacts ==
  ASSUME NEW r, NEW D, Shape(r, D), NEW n \in D[r.root], NEW s \in Sides
  PROVE  Fork(r, D, n, s, r.child[s][n], r.child[Other(s)][n])
<1> DEFINE a == r.child[s][n]
           b == r.child[Other(s)][n]
<1>1. Other(s) \in Sides /\ Other(Other(s)) = s BY SideFacts
<1>2. /\ n \in Keys /\ n # NULL /\ n \in D[n] /\ D[n] \subseteq D[r.root]
      /\ D[n] = {n} \cup D[a] \cup D[b]
  BY NodeFacts
<1>3. /\ n \notin D[a] /\ D[a] \cap D[b] = {} /\ a \in Pointers
      /\ a # NULL => a \in D[a] /\ a \in D[r.root] /\ a \in Keys /\ r.parent[a] = n /\ a # b
      /\ \A m \in D[a] : Before(s, m, n)
  BY NodeFacts
<1>4. /\ n \notin D[b] /\ b \in Pointers
      /\ b # NULL => b \in D[b] /\ b \in D[r.root] /\ b \in Keys /\ r.parent[b] = n /\ a # b
      /\ \A m \in D[b] : Before(Other(s), m, n)
  BY <1>1, NodeFacts
<1>5. D[a] \subseteq Keys /\ D[b] \subseteq Keys BY <1>3, <1>4 DEF Shape
<1> HIDE DEF a, b
<1>6. Fork(r, D, n, s, a, b) BY <1>2, <1>3, <1>4, <1>5 DEF Fork
<1> QED BY <1>6 DEF a, b

\* Induction from the leaves to the root: P is the set of nodes for which the claim holds.
LEMMA FromTheLeaves ==
  ASSUME NEW r, NEW D, Shape(r, D), NEW P,
         \A n \in D[r.root] :
           (\A s \in Sides : r.child[s][n] # NULL => r.child[s][n] \in P) => n \in P
  PROVE  D[r.root] \subseteq P
<1> DEFINE left == D[r.root] \ P
           sizes == {Cardinality(D[n]) : n \in left}
<1> SUFFICES ASSUME left # {} PROVE FALSE OBVIOUS
<1>1. ASSUME NEW n \in D[r.root] PROVE IsFiniteSet(D[n])
  BY NodeFacts, FS_Subset DEF Shape
<1>2. sizes \subseteq Nat /\ sizes # {} BY <1>1, FS_CardinalityType
<1> HIDE DEF sizes
<1>3. PICK i \in sizes : \A j \in sizes : i <= j BY <1>2, LeastNumber
<1>4. PICK n \in left : i = Cardinality(D[n]) BY <1>3 DEF sizes
<1>5. ASSUME NEW s \in Sides, r.child[s][n] # NULL PROVE r.child[s][n] \in P
  <2> DEFINE c == r.child[s][n]
  <2>1. c \in D[r.root] /\ D[c] \subseteq D[n] /\ D[c] # D[n] BY <1>4, <1>5, NodeFacts
  <2> HIDE DEF c
  <2>2. IsFiniteSet(D[n]) /\ IsFiniteSet(D[c]) BY <1>1, <1>4, <2>1
  <2>3. Cardinality(D[c]) \in Nat /\ Cardinality(D[n]) \in Nat BY <2>2, FS_CardinalityType
  <2>6. Cardinality(D[c]) < Cardinality(D[n]) BY <2>1, <2>2, <2>3, FS_Subset
  <2>4. Cardinality(D[c]) \notin sizes BY <1>3, <1>4, <2>3, <2>6
  <2>5. c \notin left BY <2>4 DEF sizes
  <2> QED BY <2>1, <2>5 DEF c
<1> QED BY <1>4, <1>5

\* What is under a node under n is under n.
LEMMA UnderUnder ==
  ASSUME NEW r, NEW D, Shape(r, D), NEW n \in D[r.root], NEW m \in D[n]
  PROVE  D[m] \subseteq D[n]
<1> DEFINE P == {l \in D[r.root] : \A k \in D[l] : D[k] \subseteq D[l]}
<1>1. ASSUME NEW l \in D[r.root],
             \A s \in Sides : r.child[s][l] # NULL => r.child[s][l] \in P
      PROVE  l \in P
  <2> SUFFICES ASSUME NEW k \in D[l] PROVE D[k] \subseteq D[l] OBVIOUS
  <2>1. CASE k = l BY <2>1
  <2>2. CASE k # l
    <3>1. PICK s \in Sides : k \in D[r.child[s][l]] BY <2>2, NodeFacts DEF Shape, Node, Sides
    <3>2. r.child[s][l] # NULL BY <3>1 DEF Shape
    <3>3. D[k] \subseteq D[r.child[s][l]] BY <1>1, <3>1, <3>2
    <3> QED BY <3>3, NodeFacts, Zenon
  <2> QED BY <2>1, <2>2
<1> HIDE DEF P
<1>2. D[r.root] \subseteq P BY <1>1, FromTheLeaves
<1> QED BY <1>2 DEF P

\* The parent of a node under n, other than n, is under n.
LEMMA ParentUnder ==
  ASSUME NEW r, NEW D, Shape(r, D), NEW n \in D[r.root], NEW m \in D[n], m # n
  PROVE  r.parent[m] \in D[n] /\ m # r.root
<1> DEFINE P == {l \in D[r.root] : \A k \in D[l] : k # l => r.parent[k] \in D[l] /\ k # r.root}
<1>1. ASSUME NEW l \in D[r.root],
             \A s \in Sides : r.child[s][l] # NULL => r.child[s][l] \in P
      PROVE  l \in P
  <2> SUFFICES ASSUME NEW k \in D[l], k # l PROVE r.parent[k] \in D[l] /\ k # r.root BY Zenon
  <2>1. PICK s \in Sides : k \in D[r.child[s][l]] BY NodeFacts DEF Shape, Node, Sides
  <2>2. r.child[s][l] # NULL BY <2>1 DEF Shape
  <2> DEFINE c == r.child[s][l]
  <2>3. c \in D[r.root] /\ r.parent[c] = l /\ D[c] \subseteq D[l] /\ c \in P /\ l \in D[l] /\ l # NULL
    BY <1>1, <2>2, NodeFacts
  <2>4. CASE k = c
    <3>1. k # r.root BY <2>3, <2>4, NodeFacts
    <3> QED BY <2>3, <2>4, <3>1
  <2>5. CASE k # c BY <2>1, <2>3, <2>5
  <2> QED BY <2>4, <2>5
<1> HIDE DEF P
<1>2. D[r.root] \subseteq P BY <1>1, FromTheLeaves
<1> QED BY <1>2 DEF P

-----------------------------------------------------------------------------
(* Rotations.                                                              *)

\* A node has one parent and is on one side of it, the one SideOf gives.
LEMMA SideOfFacts ==
  ASSUME NEW r, NEW D, Shape(r, D), NEW n \in D[r.root], n # r.root
  PROVE  /\ SideOf(r, n, r.parent[n]) \in Sides
         /\ r.parent[n] \in D[r.root] /\ r.parent[n] \in Keys
         /\ r.child[SideOf(r, n, r.parent[n])][r.parent[n]] = n
         /\ \A m \in D[r.root], s \in Sides :
              r.child[s][m] = n => m = r.parent[n] /\ s = SideOf(r, n, r.parent[n])
<1>1. r.parent[n] \in D[r.root] /\ \E s \in Sides : r.child[s][r.parent[n]] = n BY NodeFacts
<1>2. /\ SideOf(r, n, r.parent[n]) \in Sides
      /\ r.child[SideOf(r, n, r.parent[n])][r.parent[n]] = n
  BY <1>1 DEF SideOf, Sides
<1>3. n # NULL BY NodeFacts
<1>4. ASSUME NEW m \in D[r.root], NEW s \in Sides, r.child[s][m] = n
      PROVE  m = r.parent[n] /\ s = SideOf(r, n, r.parent[n])
  <2>1. m = r.parent[n] BY <1>3, <1>4, NodeFacts
  <2>2. r.child[Other(s)][m] # n
    <3>1. Fork(r, D, m, s, r.child[s][m], r.child[Other(s)][m]) BY <1>4, ForkFacts, Zenon
    <3> QED BY <1>3, <1>4, <3>1, Zenon DEF Fork
  <2> QED BY <1>2, <1>4, <2>1, <2>2, SideFacts
<1> QED BY <1>1, <1>2, <1>4, NodeFacts

\* What a rotation of n to the side makes of the links; S are the nodes of the tree.
Turned(r, q, S, side, n, top, low, mid, out) ==
  /\ q \in Trees /\ q.size = r.size /\ q.black = r.black
  /\ q.root = IF r.root = n THEN top ELSE r.root
  /\ q.child[side][n] = low /\ q.child[Other(side)][n] = mid
  /\ q.child[side][top] = n /\ q.child[Other(side)][top] = out
  /\ \A m \in S \ {n, top}, s \in Sides :
       q.child[s][m] = IF r.child[s][m] = n THEN top ELSE r.child[s][m]
  /\ \A m \in Keys \ S : r.parent[m] = q.parent[m] /\ \A s \in Sides : q.child[s][m] = r.child[s][m]
  /\ q.parent[n] = top /\ q.parent[top] = r.parent[n]
  /\ \A m \in Keys \ {n, top} : q.parent[m] = IF m = mid THEN n ELSE r.parent[m]

\* What a rotation writes: Rotated is the relation Turned.
LEMMA RotatedFields ==
  ASSUME NEW r, NEW D, Shape(r, D), NEW n \in D[r.root], NEW side \in Sides,
         NEW top, top = r.child[Other(side)][n], top # NULL
  PROVE  Turned(r, Rotated(r, side, n), D[r.root], side, n, top, r.child[side][n],
                r.child[side][top], r.child[Other(side)][top])
<1> DEFINE far == Other(side)
           mid == r.child[side][top]
           r0 == [r EXCEPT !.child[far][n] = mid]
           r1 == WithParent(r0, mid, n)
           ra == [r1 EXCEPT !.parent[top] = r.parent[n]]
           r2 == Relinked(ra, n, top)
           q == [r2 EXCEPT !.child[side][top] = n, !.parent[n] = top]
           S == D[r.root]
<1>1. Rotated(r, side, n) = q BY DEF Rotated
<1>2. /\ far \in Sides /\ far # side /\ Sides = {side, far} /\ Other(side) = far
      /\ \A s \in Sides : s # side => s = far
  BY SideFacts
<1>3. /\ r \in Trees /\ n \in Keys /\ n # NULL /\ top \in Keys /\ top \in S /\ top # n
      /\ r.parent[top] = n
  BY <1>2, NodeFacts, NullIsNoKey DEF Shape
<1>4. /\ mid \in Pointers /\ mid # n /\ mid # top
      /\ mid # NULL => mid \in Keys /\ mid \in S
  <2>1. mid \in Pointers /\ (mid # NULL => mid \in Keys /\ mid \in S /\ r.parent[mid] = top)
    BY <1>3, NodeFacts
  <2>2. mid # NULL => mid \in D[mid] /\ D[mid] \subseteq D[top] \ {top} /\ D[top] \subseteq D[n] \ {n}
    BY <1>2, <1>3, NodeFacts
  <2> QED BY <1>3, <2>1, <2>2
<1>5. /\ r0 \in Trees /\ r0.root = r.root /\ r0.size = r.size /\ r0.black = r.black
      /\ r0.parent = r.parent
      /\ \A m \in Keys, s \in Sides :
           r0.child[s][m] = IF m = n /\ s = far THEN mid ELSE r.child[s][m]
  BY <1>2, <1>3, <1>4, Zenon DEF Trees
<1> HIDE DEF r0
<1>6. /\ r1 \in Trees /\ r1.root = r.root /\ r1.size = r.size /\ r1.black = r.black
      /\ r1.child = r0.child
      /\ \A m \in Keys : r1.parent[m] = IF m = mid THEN n ELSE r.parent[m]
  <2>1. CASE mid = NULL BY <1>3, <1>5, <2>1, NullIsNoKey DEF WithParent, Trees
  <2>2. CASE mid # NULL
    <3>1. r1 = [r0 EXCEPT !.parent[mid] = n] BY <2>2 DEF WithParent
    <3> HIDE DEF r1, mid
    <3> QED BY <3>1, <2>2, <1>3, <1>4, <1>5, NullIsNoKey DEF Trees
  <2> QED BY <2>1, <2>2
<1> HIDE DEF r1, mid
<1>7. r.parent[n] \in Pointers BY <1>3 DEF Trees
<1>8. /\ ra \in Trees /\ ra.root = r.root /\ ra.size = r.size /\ ra.black = r.black
      /\ ra.child = r0.child
      /\ \A m \in Keys : ra.parent[m] = IF m = top THEN r.parent[n]
                                        ELSE IF m = mid THEN n ELSE r.parent[m]
  BY <1>3, <1>6, <1>7 DEF Trees
<1> HIDE DEF ra
<1>9. ra.parent[n] = r.parent[n] BY <1>3, <1>4, <1>8, Zenon
<1>10. /\ r2 \in Trees /\ r2.size = r.size /\ r2.black = r.black /\ r2.parent = ra.parent
       /\ r2.root = IF r.root = n THEN top ELSE r.root
       /\ \A m \in Keys \ S, s \in Sides : r2.child[s][m] = r.child[s][m]
       /\ \A s \in Sides : r2.child[s][n] = ra.child[s][n] /\ r2.child[s][top] = ra.child[s][top]
       /\ \A m \in S \ {n, top}, s \in Sides :
            r2.child[s][m] = IF r.child[s][m] = n THEN top ELSE r.child[s][m]
  <2>0. S \subseteq Keys BY NodeFacts
  <2>1. CASE r.root = n
    <3>1. r2 = [ra EXCEPT !.root = top] BY <1>8, <2>1 DEF Relinked
    <3>2. ASSUME NEW m \in S, NEW s \in Sides PROVE r.child[s][m] # n
      <4>1. n # NULL /\ r.parent[n] = NULL BY <1>3, <2>1, NodeFacts
      <4>2. r.child[s][m] # NULL => r.parent[r.child[s][m]] = m BY NodeFacts
      <4>3. m # NULL BY NodeFacts
      <4> QED BY <4>1, <4>2, <4>3
    <3> HIDE DEF r2
    <3>3. /\ r2 \in Trees /\ r2.size = ra.size /\ r2.black = ra.black /\ r2.parent = ra.parent
          /\ r2.root = top /\ r2.child = ra.child
      BY <3>1, <1>3, <1>8 DEF Trees, Pointers
    <3> QED BY <3>2, <3>3, <2>0, <2>1, <1>3, <1>5, <1>8
  <2>2. CASE r.root # n
    <3> DEFINE p == r.parent[n]
               s0 == SideOf(r, n, p)
    <3>1. /\ s0 \in Sides /\ p \in S /\ r.child[s0][p] = n
          /\ \A m \in D[r.root], s \in Sides : r.child[s][m] = n => m = p /\ s = s0
      BY <2>2, SideOfFacts
    <3>2. p # n /\ p # top
      <4>1. r.child[s0][p] \in D[p] BY <1>3, <3>1, NodeFacts
      <4>2. n \notin D[r.child[s0][p]] \/ p # n BY <3>1, NodeFacts
      <4>3. n \in D[n] BY NodeFacts
      <4>4. D[top] \subseteq D[n] \ {n} BY <1>2, NodeFacts
      <4> QED BY <3>1, <4>1, <4>2, <4>3, <4>4
    <3>3. SideOf(ra, n, p) = s0
      <4>1. \A s \in Sides : ra.child[s][p] = r.child[s][p] BY <1>5, <1>8, <2>0, <3>1, <3>2
      <4> QED BY <4>1 DEF SideOf, Sides
    <3> HIDE DEF s0, p
    <3>4. r2 = [ra EXCEPT !.child[s0][p] = top] BY <1>8, <1>9, <2>2, <3>3 DEF Relinked, p
    <3> HIDE DEF r2
    <3>5. /\ r2 \in Trees /\ r2.size = ra.size /\ r2.black = ra.black /\ r2.parent = ra.parent
          /\ r2.root = ra.root
          /\ \A m \in Keys, s \in Sides :
               r2.child[s][m] = IF m = p /\ s = s0 THEN top ELSE ra.child[s][m]
      BY <3>1, <3>4, <2>0, <1>3, <1>8 DEF Trees, Pointers
    <3>6. \A m \in Keys \ S, s \in Sides : r2.child[s][m] = r.child[s][m]
      BY <1>5, <1>8, <3>1, <3>5
    <3>7. \A s \in Sides : r2.child[s][n] = ra.child[s][n] /\ r2.child[s][top] = ra.child[s][top]
      BY <1>3, <3>2, <3>5
    <3>8. ASSUME NEW m \in S \ {n, top}, NEW s \in Sides
          PROVE  r2.child[s][m] = IF r.child[s][m] = n THEN top ELSE r.child[s][m]
      BY <1>5, <1>8, <2>0, <3>1, <3>5
    <3> QED BY <1>8, <2>2, <3>5, <3>6, <3>7, <3>8
  <2> QED BY <2>1, <2>2
<1> HIDE DEF r2
<1>11. /\ q \in Trees /\ q.size = r.size /\ q.black = r.black /\ q.root = r2.root
       /\ \A m \in Keys, s \in Sides :
            q.child[s][m] = IF m = top /\ s = side THEN n ELSE r2.child[s][m]
       /\ \A m \in Keys : q.parent[m] = IF m = n THEN top ELSE r2.parent[m]
  BY <1>3, <1>10 DEF Trees, Pointers
<1> HIDE DEF q
<1>12. S \subseteq Keys BY NodeFacts
<1>13. /\ q.child[side][n] = r.child[side][n] /\ q.child[far][n] = mid
       /\ q.child[side][top] = n /\ q.child[far][top] = r.child[far][top]
  BY <1>2, <1>3, <1>5, <1>8, <1>10, <1>11
<1>14. \A m \in S \ {n, top}, s \in Sides :
         q.child[s][m] = IF r.child[s][m] = n THEN top ELSE r.child[s][m]
  BY <1>10, <1>11, <1>12
<1>15. ASSUME NEW m \in Keys \ S
       PROVE  r.parent[m] = q.parent[m] /\ \A s \in Sides : q.child[s][m] = r.child[s][m]
  <2>1. m # n /\ m # top /\ (mid # NULL => m # mid) /\ m # NULL BY <1>3, <1>4, NullIsNoKey
  <2>2. m # mid BY <2>1
  <2>3. q.parent[m] = r.parent[m] BY <1>8, <1>10, <1>11, <2>1, <2>2
  <2>4. \A s \in Sides : q.child[s][m] = r.child[s][m] BY <1>10, <1>11, <2>1
  <2> QED BY <2>3, <2>4
<1>16. q.parent[n] = top /\ q.parent[top] = r.parent[n] BY <1>3, <1>8, <1>10, <1>11
<1>17. \A m \in Keys \ {n, top} : q.parent[m] = IF m = mid THEN n ELSE r.parent[m]
  BY <1>8, <1>10, <1>11
<1>18. Turned(r, q, S, side, n, top, r.child[side][n], mid, r.child[far][top])
  BY <1>10, <1>11, <1>13, <1>14, <1>15, <1>16, <1>17 DEF Turned
<1> QED BY <1>1, <1>18, Zenon DEF mid

Down(r, D, s, n) ==
  /\ \A m \in D[r.child[s][n]] : Before(s, m, n)
  /\ r.child[s][n] # NULL => r.parent[r.child[s][n]] = n /\ r.child[s][n] \in D[r.child[s][n]]

Up(r, D, n) ==
  IF n = r.root THEN r.parent[n] = NULL
  ELSE r.parent[n] \in D[r.root] /\ \E s \in Sides : r.child[s][r.parent[n]] = n

\* A node is right when its links down on both sides and its link up are.
LEMMA MakeNode ==
  ASSUME NEW r, NEW D, NEW n, NEW side \in Sides,
         D[n] = {n} \cup D[r.child[side][n]] \cup D[r.child[Other(side)][n]],
         D[n] \subseteq D[r.root], Down(r, D, side, n), Down(r, D, Other(side), n), Up(r, D, n)
  PROVE  Node(r, D, n)
<1>1. \A s \in Sides : Down(r, D, s, n) BY SideFacts
<1>2. D[n] = {n} \cup D[r.child["left"][n]] \cup D[r.child["right"][n]] BY DEF Sides, Other
<1> QED BY <1>1, <1>2 DEF Node, Down, Up

\* The links of a node in a tree, one by one.
LEMMA NodeLinks ==
  ASSUME NEW r, NEW D, Shape(r, D), NEW n \in D[r.root]
  PROVE  Up(r, D, n) /\ \A s \in Sides : Down(r, D, s, n)
BY DEF Shape, Node, Up, Down

\* What a rotation makes of the nodes under n and the node that goes up.
Under(D, n, top, low, mid) == [D EXCEPT ![top] = D[n], ![n] = {n} \cup D[low] \cup D[mid]]

\* A rotation makes a tree of the same nodes; only what is under n and top changes.
LEMMA TurnedShape ==
  ASSUME NEW r, NEW D, Shape(r, D), NEW n \in D[r.root], NEW side \in Sides,
         NEW top, top = r.child[Other(side)][n], top # NULL,
         NEW low, low = r.child[side][n], NEW mid, mid = r.child[side][top],
         NEW out, out = r.child[Other(side)][top],
         NEW q, Turned(r, q, D[r.root], side, n, top, low, mid, out)
  PROVE  /\ Shape(q, Under(D, n, top, low, mid))
         /\ Under(D, n, top, low, mid)[q.root] = D[r.root]
<1> DEFINE far == Other(side)
           S == D[r.root]
           E == Under(D, n, top, low, mid)
<1>1. /\ far \in Sides /\ far # side /\ Sides = {side, far} /\ Other(far) = side
      /\ \A s \in Sides : s # side => s = far
  BY SideFacts
<1>2. /\ r \in Trees /\ D \in [Pointers -> SUBSET Keys] /\ D[NULL] = {} /\ IsFiniteSet(S)
      /\ r.root # NULL => r.root \in S
  BY Zenon DEF Shape
<1>3. /\ n \in Keys /\ n # NULL /\ n \in D[n] /\ D[n] = {n} \cup D[low] \cup D[top]
      /\ D[n] \subseteq S /\ n \notin D[low] /\ n \notin D[top] /\ D[low] \cap D[top] = {}
      /\ low \in Pointers /\ (low # NULL => low \in D[low] /\ low \in S /\ r.parent[low] = n)
  <2>1. Fork(r, D, n, side, low, top) BY ForkFacts, Zenon
  <2> QED BY <2>1, Zenon DEF Fork
<1>4. /\ top \in Keys /\ top \in D[top] /\ top \in S /\ r.parent[top] = n /\ top # low
  BY <1>1, NodeFacts
<1>5. /\ D[top] = {top} \cup D[mid] \cup D[out] /\ top \notin D[mid] /\ top \notin D[out]
      /\ D[mid] \cap D[out] = {}
      /\ mid \in Pointers /\ (mid # NULL => mid \in D[mid] /\ mid \in S /\ r.parent[mid] = top)
      /\ out \in Pointers /\ (out # NULL => out \in D[out] /\ out \in S /\ r.parent[out] = top)
  <2>1. Fork(r, D, top, side, mid, out) BY <1>4, ForkFacts, Zenon
  <2> QED BY <2>1, Zenon DEF Fork
<1>6. top # n /\ low \notin {n, top} /\ mid \notin {n, top} /\ out \notin {n, top}
  BY <1>3, <1>4, <1>5, NullIsNoKey, Zenon
<1>7. /\ E \in [Pointers -> SUBSET Keys]
      /\ E[n] = {n} \cup D[low] \cup D[mid] /\ E[top] = D[n]
      /\ \A m \in Pointers \ {n, top} : E[m] = D[m]
  <2>1. D[n] \subseteq Keys /\ D[low] \subseteq Keys /\ D[mid] \subseteq Keys
    BY <1>2, <1>3, <1>5, NullIsNoKey, Zenon
  <2>2. n \in Pointers /\ top \in Pointers BY <1>3, <1>4, NullIsNoKey
  <2>3. E = [m \in Pointers |-> IF m = n THEN {n} \cup D[low] \cup D[mid]
                                ELSE IF m = top THEN D[n] ELSE D[m]]
    BY <1>2, <1>6, <2>2, ZenonT(60) DEF Under
  <2>4. {n} \cup D[low] \cup D[mid] \in SUBSET Keys BY <1>3, <2>1
  <2> HIDE DEF E
  <2> QED BY <1>2, <1>6, <2>1, <2>2, <2>3, <2>4, Zenon
<1> HIDE DEF E
<1>8. E[low] = D[low] /\ E[mid] = D[mid] /\ E[out] = D[out] /\ E[NULL] = {}
  BY <1>2, <1>3, <1>4, <1>5, <1>6, <1>7, NullIsNoKey, ZenonT(60)
<1>9. /\ q \in Trees /\ q.root = IF r.root = n THEN top ELSE r.root
      /\ q.child[side][n] = low /\ q.child[far][n] = mid
      /\ q.child[side][top] = n /\ q.child[far][top] = out
      /\ \A m \in S \ {n, top}, s \in Sides :
           q.child[s][m] = IF r.child[s][m] = n THEN top ELSE r.child[s][m]
      /\ q.parent[n] = top /\ q.parent[top] = r.parent[n]
      /\ \A m \in Keys \ {n, top} : q.parent[m] = IF m = mid THEN n ELSE r.parent[m]
  BY DEF Turned
<1>10. r.root \in S /\ r.root # NULL /\ S \subseteq Keys
  <2>1. S \subseteq Keys BY NodeFacts
  <2>2. r.root # NULL BY <1>2
  <2> QED BY <1>2, <2>1, <2>2
<1>11. E[q.root] = S /\ q.root \in S
  <2>1. CASE r.root = n BY <1>4, <1>7, <1>9, <2>1, Zenon
  <2>2. CASE r.root # n
    <3>1. r.root # top BY <1>3, <1>4, NodeFacts
    <3> QED BY <1>7, <1>9, <1>10, <2>2, <3>1, NullIsNoKey, ZenonT(60)
  <2> QED BY <2>1, <2>2
<1>12. \A s \in Sides : \A m \in Keys : m \in D[r.child[s][n]] => Before(s, m, n)
  BY NodeFacts, Zenon
<1>13. Fork(r, D, top, side, mid, out) BY <1>4, ForkFacts, Zenon
<1>14. Before(far, top, n) /\ Before(side, n, top)
  <2>1. Before(far, top, n) BY <1>1, <1>4, <1>12, Zenon
  <2>2. \A j, k \in Keys : Before(far, j, k) <=> Before(Other(far), k, j)
    BY <1>1, OrderFacts, Zenon
  <2>3. Before(Other(far), n, top) BY <1>3, <1>4, <2>1, <2>2
  <2> QED BY <1>1, <2>1, <2>3, Zenon
<1>15. n # q.root /\ Up(q, E, n)
  <2>1. n # q.root BY <1>6, <1>9
  <2> QED BY <1>1, <1>4, <1>9, <1>11, <2>1, Zenon DEF Up
<1>16. Node(q, E, n)
  <2>1. Down(q, E, side, n)
    <3>0. \A m \in D[r.child[side][n]] : Before(side, m, n) BY NodeFacts
    <3>1. \A m \in E[low] : Before(side, m, n) BY <1>8, <3>0
    <3>2. low # NULL => q.parent[low] = n /\ low \in E[low]
      <4>1. low # NULL => low \in Keys /\ low # mid BY <1>3, <1>5, <1>6, <1>10, Zenon
      <4> QED BY <4>1, <1>3, <1>6, <1>8, <1>9, Zenon
    <3> QED BY <1>9, <3>1, <3>2, Zenon DEF Down
  <2>2. Down(q, E, far, n)
    <3>1. \A m \in E[mid] : m \in D[r.child[far][n]] BY <1>5, <1>8, Zenon
    <3>2. \A m \in E[mid] : Before(far, m, n) BY <1>1, <3>1, NodeFacts, ZenonT(60)
    <3>3. mid # NULL => q.parent[mid] = n /\ mid \in E[mid]
      <4>1. mid # NULL => mid \in Keys BY <1>5, <1>10, Zenon
      <4> QED BY <4>1, <1>5, <1>6, <1>8, <1>9, Zenon
    <3> QED BY <1>9, <3>2, <3>3, Zenon DEF Down
  <2>3. E[n] = {n} \cup E[q.child[side][n]] \cup E[q.child[far][n]] BY <1>7, <1>8, <1>9, ZenonT(60)
  <2>4. E[n] \subseteq E[q.root] BY <1>3, <1>5, <1>7, <1>11, ZenonT(60)
  <2> QED BY <1>15, <2>1, <2>2, <2>3, <2>4, MakeNode, Zenon
<1>17. Node(q, E, top)
  <2>1. Down(q, E, side, top)
    <3>1. ASSUME NEW m \in E[n] PROVE Before(side, m, top)
      <4>1. CASE m = n BY <1>14, <4>1
      <4>2. CASE m \in D[low]
        <5>1. m \in Keys /\ Before(side, m, n) BY <1>2, <1>3, <4>2, NodeFacts, ZenonT(60)
        <5>2. \A j, k, l \in Keys : Before(side, j, k) /\ Before(side, k, l) => Before(side, j, l)
          BY OrderFacts, Zenon
        <5> QED BY <1>3, <1>4, <1>14, <5>1, <5>2, Zenon
      <4>3. CASE m \in D[mid] BY <1>13, <4>3, Zenon DEF Fork
      <4> QED BY <1>7, <3>1, <4>1, <4>2, <4>3
    <3> QED BY <1>3, <1>7, <1>9, <3>1, Zenon DEF Down
  <2>2. Down(q, E, far, top)
    <3>0. \A m \in D[out] : Before(far, m, top) BY <1>13, Zenon DEF Fork
    <3>1. \A m \in E[out] : Before(far, m, top) BY <1>8, <3>0
    <3>2. out # NULL => q.parent[out] = top /\ out \in E[out]
      <4>1. out # NULL => out \in Keys /\ out # mid BY <1>5, <1>10, Zenon
      <4> QED BY <4>1, <1>5, <1>6, <1>8, <1>9, Zenon
    <3> QED BY <1>9, <3>1, <3>2, Zenon DEF Down
  <2>3. E[top] = {top} \cup E[q.child[side][top]] \cup E[q.child[far][top]]
    <3>1. E[top] = {n} \cup D[low] \cup {top} \cup D[mid] \cup D[out]
      BY <1>3, <1>5, <1>7, ZenonT(60)
    <3> QED BY <3>1, <1>7, <1>8, <1>9, Zenon
  <2>4. E[top] \subseteq E[q.root] BY <1>3, <1>7, <1>11
  <2>5. Up(q, E, top)
    <3>1. CASE r.root = n BY <1>9, <3>1, NodeFacts, ZenonT(60) DEF Up
    <3>2. CASE r.root # n
      <4>1. top # q.root
        <5>1. r.root # top BY <1>3, <1>4, NodeFacts
        <5> QED BY <1>9, <3>2, <5>1
      <4>2. PICK s \in Sides : r.parent[n] \in S /\ r.child[s][r.parent[n]] = n
        BY <3>2, NodeFacts
      <4>3. r.parent[n] # n /\ r.parent[n] # top
        <5> DEFINE p == r.parent[n]
        <5>1. n \in D[p] /\ n # p BY <1>3, <4>2, NodeFacts
        <5> QED BY <1>3, <5>1, Zenon
      <4>4. q.child[s][r.parent[n]] = top BY <1>9, <4>2, <4>3
      <4> QED BY <1>9, <1>11, <4>1, <4>2, <4>4 DEF Up
    <3> QED BY <3>1, <3>2
  <2> QED BY <2>1, <2>2, <2>3, <2>4, <2>5, MakeNode, Zenon
<1>18. ASSUME NEW m \in S \ {n, top} PROVE Node(q, E, m)
  <2>1. m \in Keys /\ m \in Pointers BY <1>10, NullIsNoKey
  <2>2. ASSUME NEW s \in Sides
        PROVE  E[q.child[s][m]] = D[r.child[s][m]] /\ Down(q, E, s, m)
    <3> DEFINE c == r.child[s][m]
    <3>1. /\ c \in Pointers /\ \A k \in D[c] : Before(s, k, m)
          /\ c # NULL => c \in Keys /\ c \in D[c] /\ r.parent[c] = m
      BY NodeFacts
    <3> HIDE DEF c
    <3>2. CASE c = n
      <4>1. q.child[s][m] = top /\ q.parent[top] = m BY <1>3, <1>9, <3>1, <3>2 DEF c
      <4>2. E[top] = D[c] /\ top \in E[top] BY <1>3, <1>4, <1>7, <3>2, Zenon
      <4>3. \A k \in E[top] : Before(s, k, m) BY <3>1, <4>2
      <4> QED BY <4>1, <4>2, <4>3, Zenon DEF Down, c
    <3>3. CASE c # n
      <4>1. q.child[s][m] = c BY <1>9, <3>3 DEF c
      <4>2. c # top BY <1>4, <3>1, NullIsNoKey, Zenon
      <4>3. E[c] = D[c] BY <1>7, <3>1, <3>3, <4>2
      <4>4. c # NULL => c # mid BY <1>5, <3>1, Zenon
      <4>5. c # NULL => q.parent[c] = m BY <1>9, <3>1, <3>3, <4>2, <4>4
      <4>6. \A k \in E[c] : Before(s, k, m) BY <3>1, <4>3
      <4>7. c # NULL => c \in E[c] BY <3>1, <4>3, Zenon
      <4> QED BY <4>1, <4>3, <4>5, <4>6, <4>7, Zenon DEF Down, c
    <3> QED BY <3>2, <3>3, Zenon
  <2>3. E[m] = {m} \cup E[q.child[side][m]] \cup E[q.child[far][m]]
    <3>1. D[m] = {m} \cup D[r.child[side][m]] \cup D[r.child[far][m]] BY NodeFacts
    <3> QED BY <1>1, <1>7, <2>1, <2>2, <3>1, Zenon
  <2>4. E[m] \subseteq E[q.root]
    <3>1. D[m] \subseteq S BY NodeFacts
    <3> QED BY <1>7, <1>11, <2>1, <3>1, Zenon
  <2>5. Up(q, E, m)
    <3>1. CASE m = r.root
      <4>1. r.root # n /\ q.root = m BY <1>9, <3>1
      <4>2. m # mid BY <1>3, <1>4, <1>5, <3>1, NodeFacts, <2>1, NullIsNoKey, Zenon
      <4>3. r.parent[m] = NULL BY <3>1, NodeFacts
      <4>4. q.parent[m] = NULL BY <1>9, <2>1, <4>2, <4>3
      <4> QED BY <4>1, <4>4, Zenon DEF Up
    <3>2. CASE m # r.root
      <4>1. m # q.root BY <1>9, <3>2, Zenon
      <4>2. PICK s \in Sides : r.parent[m] \in S /\ r.child[s][r.parent[m]] = m
        BY <3>2, NodeFacts
      <4>3. CASE m = mid
        <5>1. q.parent[m] = n /\ q.child[far][n] = m BY <1>9, <2>1, <4>3
        <5> QED BY <1>1, <1>11, <4>1, <5>1, Zenon DEF Up
      <4>4. CASE m # mid
        <5> DEFINE p == r.parent[m]
        <5>1. q.parent[m] = p BY <1>9, <2>1, <4>4
        <5>2. CASE p = n
          <6>1. s = side BY <1>1, <4>2, <5>2, Zenon
          <6>2. q.child[side][p] = m BY <1>9, <4>2, <5>2, <6>1
          <6> QED BY <1>11, <4>1, <4>2, <5>1, <6>2 DEF Up
        <5>3. CASE p = top
          <6>1. s = far BY <1>1, <4>2, <4>4, <5>3, Zenon
          <6>2. q.child[far][p] = m BY <1>9, <4>2, <5>3, <6>1
          <6> QED BY <1>1, <1>11, <4>1, <4>2, <5>1, <6>2 DEF Up
        <5>4. CASE p # n /\ p # top
          <6>1. q.child[s][p] = m BY <1>9, <4>2, <5>4
          <6> QED BY <1>11, <4>1, <4>2, <5>1, <6>1, Zenon DEF Up
        <5> QED BY <5>2, <5>3, <5>4, Zenon
      <4> QED BY <4>3, <4>4
    <3> QED BY <3>1, <3>2
  <2>6. Down(q, E, side, m) /\ Down(q, E, far, m) BY <1>1, <2>2
  <2> QED BY <2>3, <2>4, <2>5, <2>6, MakeNode
<1>19. \A m \in S : Node(q, E, m) BY <1>16, <1>17, <1>18
<1>20. q.root # NULL => q.root \in E[q.root] BY <1>11
<1> QED BY <1>2, <1>7, <1>8, <1>9, <1>11, <1>19, <1>20, Zenon DEF Shape, E

-----------------------------------------------------------------------------
(* Colours.                                                                *)

Weight(r, n) == IF r.black[n] THEN 1 ELSE 0
Lack(n, s, p, side) == IF n = p /\ s = side THEN 1 ELSE 0

\* H gives the number of black nodes on the paths down from each node of S; the
\* paths through p's child on the side have one less than they should.
Level(r, H, n, s, p, side) == H[n] = H[r.child[s][n]] + Weight(r, n) + Lack(n, s, p, side)
Levels(r, H, S, p, side) ==
  /\ H \in [Pointers -> Nat] /\ H[NULL] = 0
  /\ \A n \in S, s \in Sides : Level(r, H, n, s, p, side)

\* No red node has a red child, but perhaps x, and but perhaps the child y.
Pale(r, n, s, x, y) == IsRed(r, n) /\ IsRed(r, r.child[s][n]) => n = x \/ r.child[s][n] = y
Pales(r, S, x, y) == \A n \in S, s \in Sides : Pale(r, n, s, x, y)

\* Only colours differ.
Recoloured(r, q) ==
  /\ q \in Trees
  /\ q.root = r.root /\ q.size = r.size /\ q.child = r.child /\ q.parent = r.parent

\* Colours do not matter to the shape.
LEMMA RecolouredShape ==
  ASSUME NEW r, NEW D, Shape(r, D), NEW q, Recoloured(r, q)
  PROVE  Shape(q, D) /\ q.root = r.root
BY DEF Shape, Node, Recoloured

\* The nodes of B are painted black, then those of R red.
Painted(r, q, B, R) ==
  /\ Recoloured(r, q)
  /\ \A m \in Keys : q.black[m] = IF m \in R THEN FALSE ELSE IF m \in B THEN TRUE ELSE r.black[m]

\* One write of a colour.
LEMMA Paint ==
  ASSUME NEW r \in Trees, NEW n \in Keys, NEW b \in BOOLEAN
  PROVE  /\ Recoloured(r, [r EXCEPT !.black[n] = b])
         /\ \A m \in Keys : [r EXCEPT !.black[n] = b].black[m] = IF m = n THEN b ELSE r.black[m]
BY DEF Trees, Recoloured

\* Two changes of colours are one.
LEMMA RecolouredTwice ==
  ASSUME NEW r, NEW q, NEW u, Recoloured(r, q), Recoloured(q, u)
  PROVE  Recoloured(r, u)
BY DEF Recoloured

\* A part of Turned.
Keeps(r, q, n, top, mid) ==
  /\ q.black = r.black /\ q.size = r.size /\ q.root = IF r.root = n THEN top ELSE r.root
  /\ \A m \in Keys \ {n, top, mid} : q.parent[m] = r.parent[m]
  /\ \A m : Weight(q, m) = Weight(r, m) /\ (IsRed(q, m) <=> IsRed(r, m))

\* The colours and the other nodes after a rotation.
LEMMA TurnedFields ==
  ASSUME NEW r, NEW q, NEW S, NEW side, NEW n, NEW top, NEW low, NEW mid, NEW out,
         Turned(r, q, S, side, n, top, low, mid, out)
  PROVE  Keeps(r, q, n, top, mid)
BY DEF Turned, Weight, IsRed, IsBlack, Keeps

\* A rotation keeps the numbers of black nodes when they fit at n and top.
LEMMA TurnedLevels ==
  ASSUME NEW r, NEW D, Shape(r, D), NEW n \in D[r.root], NEW side \in Sides,
         NEW top, top = r.child[Other(side)][n], top # NULL,
         NEW low, low = r.child[side][n], NEW mid, mid = r.child[side][top],
         NEW out, out = r.child[Other(side)][top],
         NEW q, Turned(r, q, D[r.root], side, n, top, low, mid, out),
         NEW H \in [Pointers -> Nat], H[NULL] = 0, NEW p, NEW s0, NEW g \in Nat,
         \A m \in D[r.root] \ {n, top}, s \in Sides : Level(r, H, m, s, p, s0),
         g = H[low] + Weight(r, n) + Lack(n, side, p, s0),
         g = H[mid] + Weight(r, n) + Lack(n, Other(side), p, s0),
         H[n] = g + Weight(r, top) + Lack(top, side, p, s0),
         H[n] = H[out] + Weight(r, top) + Lack(top, Other(side), p, s0)
  PROVE  Levels(q, [H EXCEPT ![top] = H[n], ![n] = g], D[r.root], p, s0)
<1> DEFINE far == Other(side)
           S == D[r.root]
           G == [H EXCEPT ![top] = H[n], ![n] = g]
<1>1. /\ far \in Sides /\ far # side
      /\ \A s \in Sides : s # side => s = far
  BY SideFacts, Zenon
<1>2. Fork(r, D, n, side, low, top) BY ForkFacts
<1>3. top \in S /\ top \in Keys /\ n \in Keys /\ n # NULL /\ r.parent[top] = n /\ top # n /\ low # top
  BY <1>2, Zenon DEF Fork
<1>4. Fork(r, D, top, side, mid, out) BY <1>3, ForkFacts, Zenon
<1>5. /\ low \in Pointers /\ mid \in Pointers /\ out \in Pointers
      /\ low \notin {n, top} /\ mid \notin {n, top} /\ out \notin {n, top}
  BY <1>2, <1>3, <1>4, NullIsNoKey, ZenonT(60) DEF Fork
<1>6. /\ G \in [Pointers -> Nat] /\ G[NULL] = 0 /\ G[n] = g /\ G[top] = H[n]
      /\ \A m \in Pointers \ {n, top} : G[m] = H[m]
  BY <1>3, NullIsNoKey, Zenon
<1>7. G[low] = H[low] /\ G[mid] = H[mid] /\ G[out] = H[out] BY <1>5, <1>6, Zenon
<1> HIDE DEF G
<1>8. /\ q.black = r.black
      /\ q.child[side][n] = low /\ q.child[far][n] = mid
      /\ q.child[side][top] = n /\ q.child[far][top] = out
      /\ \A m \in S \ {n, top}, s \in Sides :
           q.child[s][m] = IF r.child[s][m] = n THEN top ELSE r.child[s][m]
  BY DEF Turned
<1>9. \A m : Weight(q, m) = Weight(r, m) BY <1>8, Zenon DEF Weight
<1>10. Level(q, G, n, side, p, s0) /\ Level(q, G, n, far, p, s0)
  BY <1>6, <1>7, <1>8, <1>9, ZenonT(60) DEF Level
<1>11. Level(q, G, top, side, p, s0) /\ Level(q, G, top, far, p, s0)
  BY <1>6, <1>7, <1>8, <1>9, Zenon DEF Level
<1>12. ASSUME NEW m \in S \ {n, top}, NEW s \in Sides PROVE Level(q, G, m, s, p, s0)
  <2>1. H[m] = H[r.child[s][m]] + Weight(r, m) + Lack(m, s, p, s0) BY DEF Level
  <2>2. m \in Pointers /\ r.child[s][m] \in Pointers /\ r.child[s][m] # top
    <3>1. Fork(r, D, m, s, r.child[s][m], r.child[Other(s)][m]) BY ForkFacts
    <3> HIDE DEF far
    <3>2. r.child[s][m] # top BY <3>1, <1>3, Zenon DEF Fork
    <3> QED BY <3>1, <3>2, NullIsNoKey, Zenon DEF Fork
  <2>3. G[q.child[s][m]] = H[r.child[s][m]] BY <1>6, <1>8, <2>2, ZenonT(60)
  <2> QED BY <1>6, <1>9, <2>1, <2>2, <2>3, Zenon DEF Level
<1>13. \A m \in S, s \in Sides : Level(q, G, m, s, p, s0) BY <1>1, <1>10, <1>11, <1>12
<1> QED BY <1>6, <1>13, Zenon DEF Levels, G

\* Colours that fit the rotated tree.
Contrasts(r, S, n, top, low, mid, out, x, y) ==
  /\ \A m \in S \ {n, top}, s \in Sides :
       IF r.child[s][m] = n THEN IsRed(r, m) /\ IsRed(r, top) => m = x \/ top = y
       ELSE Pale(r, m, s, x, y)
  /\ IsRed(r, n) /\ IsRed(r, low) => n = x \/ low = y
  /\ IsRed(r, n) /\ IsRed(r, mid) => n = x \/ mid = y
  /\ IsRed(r, top) /\ IsRed(r, n) => top = x \/ n = y
  /\ IsRed(r, top) /\ IsRed(r, out) => top = x \/ out = y

\* A rotation keeps red nodes apart when the five links it makes do.
LEMMA TurnedPales ==
  ASSUME NEW r, NEW D, Shape(r, D), NEW n \in D[r.root], NEW side \in Sides,
         NEW top, top = r.child[Other(side)][n], top # NULL,
         NEW low, low = r.child[side][n], NEW mid, mid = r.child[side][top],
         NEW out, out = r.child[Other(side)][top],
         NEW q, Turned(r, q, D[r.root], side, n, top, low, mid, out), NEW x, NEW y,
         Contrasts(r, D[r.root], n, top, low, mid, out, x, y)
  PROVE  Pales(q, D[r.root], x, y)
<1> DEFINE far == Other(side)
           S == D[r.root]
<1>1. \A s \in Sides : s = side \/ s = far BY SideFacts
<1> USE DEF Contrasts
<1>2. /\ q.black = r.black
      /\ q.child[side][n] = low /\ q.child[far][n] = mid
      /\ q.child[side][top] = n /\ q.child[far][top] = out
      /\ \A m \in S \ {n, top}, s \in Sides :
           q.child[s][m] = IF r.child[s][m] = n THEN top ELSE r.child[s][m]
  BY Zenon DEF Turned
<1>3. \A m : IsRed(q, m) <=> IsRed(r, m) BY <1>2 DEF IsRed, IsBlack
<1>4. \A s \in Sides : Pale(q, n, s, x, y)
  <2>1. Pale(q, n, side, x, y) BY <1>2, <1>3, Zenon DEF Pale
  <2>2. Pale(q, n, far, x, y) BY <1>2, <1>3, Zenon DEF Pale
  <2> QED BY <1>1, <2>1, <2>2, Zenon
<1>5. \A s \in Sides : Pale(q, top, s, x, y) BY <1>1, <1>2, <1>3 DEF Pale
<1>6. \A m \in S \ {n, top}, s \in Sides : Pale(q, m, s, x, y) BY <1>2, <1>3 DEF Pale
<1> QED BY <1>4, <1>5, <1>6 DEF Pales

\* A rotation of n to the side, and the nodes around it.
Pivot(r, D, n, side, top, low, mid, out) ==
  /\ n \in D[r.root] /\ side \in Sides /\ top \in D[r.root]
  /\ n \in Keys /\ top \in Keys /\ n # top /\ n # NULL /\ top # NULL
  /\ low \in Pointers /\ mid \in Pointers /\ out \in Pointers
  /\ low \notin {n, top} /\ mid \notin {n, top} /\ out \notin {n, top}
  /\ top = r.child[Other(side)][n] /\ low = r.child[side][n]
  /\ mid = r.child[side][top] /\ out = r.child[Other(side)][top]
  /\ Fork(r, D, n, side, low, top) /\ Fork(r, D, top, side, mid, out)

\* Where a rotation can turn: a node with a child on the other side.
LEMMA Pivots ==
  ASSUME NEW r, NEW D, Shape(r, D), NEW n \in D[r.root], NEW side \in Sides,
         NEW top, top = r.child[Other(side)][n], top # NULL,
         NEW low, low = r.child[side][n], NEW mid, mid = r.child[side][top],
         NEW out, out = r.child[Other(side)][top]
  PROVE  Pivot(r, D, n, side, top, low, mid, out)
<1>1. Fork(r, D, n, side, low, top) BY ForkFacts
<1>2. top \in D[r.root] BY <1>1 DEF Fork
<1>3. Fork(r, D, top, side, mid, out) BY <1>2, ForkFacts
<1>4. n \in Keys /\ top \in Keys /\ n # top /\ n # NULL BY <1>1 DEF Fork
<1>5. /\ low \in Pointers /\ mid \in Pointers /\ out \in Pointers
      /\ low \notin {n, top} /\ mid \notin {n, top} /\ out \notin {n, top}
  <2>1. low \notin {n, top} /\ low \in Pointers BY <1>1, <1>4 DEF Fork
  <2>2. n \notin D[top] /\ top \notin D[mid] /\ top \notin D[out] BY <1>1, <1>3, Zenon DEF Fork
  <2>3. /\ mid # NULL => mid \in D[mid] /\ mid \in D[top]
        /\ out # NULL => out \in D[out] /\ out \in D[top]
        /\ mid \in Pointers /\ out \in Pointers
    BY <1>3, Zenon DEF Fork
  <2> QED BY <1>4, <2>1, <2>2, <2>3
<1> QED BY <1>1, <1>2, <1>3, <1>4, <1>5 DEF Pivot

\* Painting does not move the pivot.
LEMMA PivotPainted ==
  ASSUME NEW r, NEW D, NEW n, NEW side, NEW top, NEW low, NEW mid, NEW out,
         Pivot(r, D, n, side, top, low, mid, out), NEW q, NEW B, NEW R, Painted(r, q, B, R)
  PROVE  Pivot(q, D, n, side, top, low, mid, out)
BY Zenon DEF Pivot, Fork, Painted, Recoloured

\* The nodes under each node, after the rotation, and what it leaves alone.
LEMMA Rotation ==
  ASSUME NEW r, NEW D, Shape(r, D), NEW n, NEW side, NEW top, NEW low, NEW mid, NEW out,
         Pivot(r, D, n, side, top, low, mid, out)
  PROVE  /\ Turned(r, Rotated(r, side, n), D[r.root], side, n, top, low, mid, out)
         /\ Shape(Rotated(r, side, n), Under(D, n, top, low, mid))
         /\ Under(D, n, top, low, mid)[Rotated(r, side, n).root] = D[r.root]
<1>1. /\ n \in D[r.root] /\ side \in Sides /\ top # NULL
      /\ top = r.child[Other(side)][n] /\ low = r.child[side][n]
      /\ mid = r.child[side][top] /\ out = r.child[Other(side)][top]
  BY DEF Pivot
<1>2. Turned(r, Rotated(r, side, n), D[r.root], side, n, top, low, mid, out)
  BY <1>1, RotatedFields
<1> DEFINE q == Rotated(r, side, n)
<1> HIDE DEF q
<1>3. Turned(r, q, D[r.root], side, n, top, low, mid, out) BY <1>2 DEF q
<1>4. /\ Shape(q, Under(D, n, top, low, mid))
      /\ Under(D, n, top, low, mid)[q.root] = D[r.root]
  BY <1>1, <1>3, TurnedShape
<1> QED BY <1>2, <1>4 DEF q

\* Numbers of black nodes that fit the rotated tree, g being that of n.
Fits(r, H, S, n, side, top, low, mid, out, p, s0, g) ==
  /\ H \in [Pointers -> Nat] /\ H[NULL] = 0 /\ g \in Nat
  /\ \A m \in S \ {n, top}, s \in Sides : Level(r, H, m, s, p, s0)
  /\ g = H[low] + Weight(r, n) + Lack(n, side, p, s0)
  /\ g = H[mid] + Weight(r, n) + Lack(n, Other(side), p, s0)
  /\ H[n] = g + Weight(r, top) + Lack(top, side, p, s0)
  /\ H[n] = H[out] + Weight(r, top) + Lack(top, Other(side), p, s0)

\* TurnedLevels for Rotated, given a pivot.
LEMMA RotationLevels ==
  ASSUME NEW r, NEW D, Shape(r, D), NEW n, NEW side, NEW top, NEW low, NEW mid, NEW out,
         Pivot(r, D, n, side, top, low, mid, out), NEW H, NEW p, NEW s0, NEW g,
         Fits(r, H, D[r.root], n, side, top, low, mid, out, p, s0, g)
  PROVE  Levels(Rotated(r, side, n), [H EXCEPT ![top] = H[n], ![n] = g], D[r.root], p, s0)
<1>1. /\ n \in D[r.root] /\ side \in Sides /\ top # NULL
      /\ top = r.child[Other(side)][n] /\ low = r.child[side][n]
      /\ mid = r.child[side][top] /\ out = r.child[Other(side)][top]
  BY DEF Pivot
<1>2. PICK q : q = Rotated(r, side, n) OBVIOUS
<1>3. Turned(r, q, D[r.root], side, n, top, low, mid, out) BY <1>2, Rotation
<1>4. /\ H \in [Pointers -> Nat] /\ H[NULL] = 0 /\ g \in Nat
      /\ \A m \in D[r.root] \ {n, top}, s \in Sides : Level(r, H, m, s, p, s0)
      /\ g = H[low] + Weight(r, n) + Lack(n, side, p, s0)
      /\ g = H[mid] + Weight(r, n) + Lack(n, Other(side), p, s0)
      /\ H[n] = g + Weight(r, top) + Lack(top, side, p, s0)
      /\ H[n] = H[out] + Weight(r, top) + Lack(top, Other(side), p, s0)
  BY DEF Fits
<1>5. Levels(q, [H EXCEPT ![top] = H[n], ![n] = g], D[r.root], p, s0)
  BY <1>1, <1>3, <1>4, TurnedLevels, ZenonT(60)
<1> QED BY <1>2, <1>5

\* TurnedPales for Rotated, given a pivot.
LEMMA RotationPales ==
  ASSUME NEW r, NEW D, Shape(r, D), NEW n, NEW side, NEW top, NEW low, NEW mid, NEW out,
         Pivot(r, D, n, side, top, low, mid, out), NEW x, NEW y,
         Contrasts(r, D[r.root], n, top, low, mid, out, x, y)
  PROVE  Pales(Rotated(r, side, n), D[r.root], x, y)
<1>1. /\ n \in D[r.root] /\ side \in Sides /\ top # NULL
      /\ top = r.child[Other(side)][n] /\ low = r.child[side][n]
      /\ mid = r.child[side][top] /\ out = r.child[Other(side)][top]
  BY DEF Pivot
<1>2. PICK q : q = Rotated(r, side, n) OBVIOUS
<1>3. Turned(r, q, D[r.root], side, n, top, low, mid, out) BY <1>2, Rotation
<1>4. Pales(q, D[r.root], x, y) BY <1>1, <1>3, TurnedPales
<1> QED BY <1>2, <1>4

-----------------------------------------------------------------------------
(* Insertion: the loop of rb_insert_fixup.                                 *)

\* What is not in the tree stays as it is.
Elsewhere(r, q, S) ==
  /\ q.size = r.size
  /\ \A m \in Keys \ S :
       q.parent[m] = r.parent[m] /\ q.black[m] = r.black[m]
       /\ \A s \in Sides : q.child[s][m] = r.child[s][m]

\* All is right with the colours but that n and its parent may be red both.
Growing(r, D, H, n) ==
  /\ Shape(r, D)
  /\ Levels(r, H, D[r.root], NULL, "left") /\ Pales(r, D[r.root], NULL, n)
  /\ n \in D[r.root] /\ IsRed(r, n)
  /\ IsRed(r, r.root) => r.root = n

\* n and its parent p are red, p being the child of g on the side, and u the uncle.
RedPair(r, D, n, p, g, u, side) ==
  /\ n \in Keys /\ p \in Keys /\ g \in Keys /\ u \in Pointers
  /\ p \in D[r.root] /\ g \in D[r.root] /\ (u # NULL => u \in D[r.root])
  /\ p = r.parent[n] /\ g = r.parent[p] /\ side \in Sides
  /\ p = r.child[side][g] /\ u = r.child[Other(side)][g]
  /\ n # p /\ n # g /\ p # g /\ u \notin {n, p, g}
  /\ n # r.root /\ p # r.root
  /\ ~r.black[n] /\ ~r.black[p] /\ r.black[g] /\ r.black[r.root]
  /\ D[n] \subseteq D[g] /\ g \notin D[n] /\ Fork(r, D, g, side, p, u)

\* A red node with a red parent has a grandparent, which is black, and an uncle or none.
LEMMA RedPairs ==
  ASSUME NEW r, NEW D, NEW H, NEW n, Growing(r, D, H, n), ~IsBlack(r, r.parent[n]),
         NEW p, p = r.parent[n], NEW g, g = r.parent[p], NEW side, side = SideOf(r, p, g)
  PROVE  RedPair(r, D, n, p, g, r.child[Other(side)][g], side)
<1>1. /\ Shape(r, D) /\ n \in D[r.root] /\ IsRed(r, n)
      /\ IsRed(r, r.root) => r.root = n
      /\ Pales(r, D[r.root], NULL, n)
  BY DEF Growing
<1>2. p # NULL /\ IsRed(r, p) BY DEF IsRed, IsBlack
<1>3. n # r.root BY <1>1, <1>2, NodeFacts
<1>4. r.root \in D[r.root] /\ r.root # NULL /\ ~IsRed(r, r.root) BY <1>1, <1>3 DEF Shape
<1>5. p \in D[r.root] /\ p # r.root BY <1>1, <1>2, <1>3, <1>4, NodeFacts
<1>6. /\ side \in Sides /\ g \in D[r.root] /\ g \in Keys /\ r.child[side][g] = p
      /\ \A m \in D[r.root], s \in Sides : r.child[s][m] = p => m = g /\ s = side
  BY <1>1, <1>5, SideOfFacts
<1> DEFINE u == r.child[Other(side)][g]
<1>7. Fork(r, D, g, side, p, u) BY <1>1, <1>6, ForkFacts
<1>8. PICK s \in Sides : r.child[s][p] = n BY <1>1, <1>3, NodeFacts
<1>9. Fork(r, D, p, s, n, r.child[Other(s)][p]) BY <1>1, <1>5, <1>8, ForkFacts
<1> HIDE DEF u
<1>10. p \in Keys /\ p \in D[p] /\ p # u /\ D[p] \subseteq D[g] /\ g \notin D[p] /\ g \in D[g] /\ g # p
       /\ g \notin D[u] /\ D[p] \cap D[u] = {} /\ (u # NULL => u \in D[u] /\ u \in D[r.root])
       /\ u \in Pointers
  BY <1>2, <1>7, Zenon DEF Fork
<1>11. n \in Keys /\ n \in D[n] /\ D[n] \subseteq D[p] /\ p \notin D[n] /\ n # NULL
  <2>1. n # NULL BY <1>1, NodeFacts
  <2> QED BY <2>1, <1>9, Zenon DEF Fork
<1>12. n # p /\ n # g /\ u \notin {n, p, g}
  <2>1. u = NULL \/ u \in D[u] BY <1>10
  <2>2. g # NULL BY <1>6, NullIsNoKey
  <2> QED BY <1>2, <1>10, <1>11, <2>1, <2>2
<1>13. r.black[g]
  <2>1. Pale(r, g, side, NULL, n) BY <1>1, <1>6 DEF Pales
  <2> QED BY <1>2, <1>6, <1>12, <2>1, NullIsNoKey DEF Pale, IsRed, IsBlack
<1>14. ~r.black[n] /\ ~r.black[p] /\ r.black[r.root] BY <1>1, <1>2, <1>4 DEF IsRed, IsBlack
<1>15. D[n] \subseteq D[g] /\ g \notin D[n] BY <1>10, <1>11
<1>16. RedPair(r, D, n, p, g, u, side)
  BY <1>3, <1>5, <1>6, <1>7, <1>10, <1>11, <1>12, <1>13, <1>14, <1>15, Zenon DEF RedPair, u
<1> QED BY <1>16 DEF u

\* The same with the types of the numbers.
Heights(r, H, S, p, side) ==
  /\ H \in [Pointers -> Nat] /\ H[NULL] = 0
  /\ \A m \in S : H[m] \in Nat /\ Weight(r, m) \in {0, 1}
  /\ \A m \in S, s \in Sides : H[r.child[s][m]] \in Nat
  /\ \A m \in S, s \in Sides : H[m] = H[r.child[s][m]] + Weight(r, m) + Lack(m, s, p, side)

\* The levels of a tree, node by node.
LEMMA HeightTypes ==
  ASSUME NEW r, NEW D, Shape(r, D), NEW H, NEW p, NEW side, Levels(r, H, D[r.root], p, side)
  PROVE  Heights(r, H, D[r.root], p, side)
<1>1. /\ H \in [Pointers -> Nat] /\ H[NULL] = 0
      /\ \A m \in D[r.root], s \in Sides :
           H[m] = H[r.child[s][m]] + Weight(r, m) + Lack(m, s, p, side)
  BY DEF Levels, Level
<1>2. \A m \in D[r.root] : H[m] \in Nat BY <1>1, NodeFacts, NullIsNoKey
<1>3. \A m \in D[r.root], s \in Sides : H[r.child[s][m]] \in Nat BY <1>1, NodeFacts
<1>4. \A m \in D[r.root] : Weight(r, m) \in {0, 1} BY DEF Weight
<1> QED BY <1>1, <1>2, <1>3, <1>4 DEF Heights

\* A red uncle: both turn black, the grandparent red.
LEMMA UncleKeeps ==
  ASSUME NEW r, NEW D, NEW H, NEW n, Growing(r, D, H, n), NEW p, NEW g, NEW u, NEW side,
         RedPair(r, D, n, p, g, u, side), IsRed(r, u),
         NEW q, Painted(r, q, {u, p}, {g})
  PROVE  /\ \E G : Growing(q, D, G, g)
         /\ q.root = r.root /\ Elsewhere(r, q, D[r.root])
<1> DEFINE far == Other(side)
           S == D[r.root]
<1>1. /\ Shape(r, D) /\ r \in Trees
      /\ Levels(r, H, S, NULL, "left") /\ Pales(r, S, NULL, n)
  BY DEF Growing, Shape
<1>2. /\ n \in Keys /\ p \in Keys /\ g \in Keys /\ u \in Keys
      /\ p \in S /\ g \in S /\ u \in S /\ u # NULL
      /\ p = r.parent[n] /\ g = r.parent[p] /\ side \in Sides
      /\ p = r.child[side][g] /\ u = r.child[far][g]
      /\ n # p /\ n # g /\ p # g /\ u \notin {n, p, g}
      /\ n # r.root /\ p # r.root
      /\ ~r.black[n] /\ ~r.black[p] /\ ~r.black[u] /\ r.black[g] /\ r.black[r.root]
  BY Zenon DEF RedPair, IsRed, IsBlack, Pointers
<1>3. /\ Recoloured(r, q)
      /\ \A m \in Keys : q.black[m] = IF m = g THEN FALSE ELSE IF m \in {u, p} THEN TRUE
                                      ELSE r.black[m]
  BY DEF Painted
<1>4. Shape(q, D) /\ q.root = r.root BY <1>1, <1>3, RecolouredShape
<1>5. q.child = r.child /\ q.parent = r.parent /\ q.size = r.size BY <1>3 DEF Recoloured
<1>6. S \subseteq Keys BY <1>1, NodeFacts
<1>7. Elsewhere(r, q, S) BY <1>2, <1>3, <1>5, ZenonT(60) DEF Elsewhere
<1>8. ASSUME NEW m \in S, NEW s \in Sides, r.child[s][m] \in {p, u} PROVE m = g
  <2>1. r.parent[u] = g BY <1>2, Zenon DEF RedPair, Fork
  <2>2. r.child[s][m] # NULL => r.parent[r.child[s][m]] = m BY <1>1, NodeFacts
  <2> QED BY <1>2, <1>8, <2>1, <2>2, NullIsNoKey, ZenonT(60)
<1>9. /\ H \in [Pointers -> Nat] /\ H[NULL] = 0
      /\ \A m \in S : H[m] \in Nat /\ Weight(r, m) \in {0, 1}
      /\ \A m \in S, s \in Sides : H[r.child[s][m]] \in Nat
      /\ \A m \in S, s \in Sides : H[m] = H[r.child[s][m]] + Weight(r, m) + Lack(m, s, NULL, "left")
  <2>1. Heights(r, H, S, NULL, "left") BY <1>1, HeightTypes
  <2> QED BY <2>1 DEF Heights
<1> DEFINE G == [m \in Pointers |-> IF m \in {p, u} THEN H[m] + 1 ELSE H[m]]
<1>10. Levels(q, G, S, NULL, "left")
  <2>0. \A m \in Pointers : H[m] \in Nat /\ H[m] + 1 \in Nat BY <1>9
  <2>1. G \in [Pointers -> Nat] /\ G[NULL] = 0 BY <1>2, <1>9, <2>0, NullIsNoKey, Zenon
  <2>2. ASSUME NEW m \in S, NEW s \in Sides PROVE Level(q, G, m, s, NULL, "left")
    <3>1. m \in Pointers /\ r.child[s][m] \in Pointers /\ m # NULL
      BY <1>1, NodeFacts, NullIsNoKey
    <3>2. H[m] = H[r.child[s][m]] + Weight(r, m) /\ H[m] \in Nat /\ H[r.child[s][m]] \in Nat
      BY <1>9, <3>1 DEF Lack, Weight
    <3>3. CASE m = g
      <4>1. r.child[s][m] \in {p, u} BY <1>2, <3>3, SideFacts, ZenonT(60)
      <4>2. Weight(r, m) = 1 /\ Weight(q, m) = 0 BY <1>2, <1>3, <3>3, Zenon DEF Weight
      <4>3. G[m] = H[m] /\ G[r.child[s][m]] = H[r.child[s][m]] + 1 BY <1>2, <3>1, <3>3, <4>1, Zenon
      <4> QED BY <1>5, <3>1, <3>2, <4>2, <4>3 DEF Level, Lack
    <3>4. CASE m \in {p, u}
      <4>1. r.child[s][m] \notin {p, u} BY <1>2, <1>8, <3>4, Zenon
      <4>2. Weight(r, m) = 0 /\ Weight(q, m) = 1 BY <1>2, <1>3, <3>4, ZenonT(60) DEF Weight
      <4>3. G[m] = H[m] + 1 /\ G[r.child[s][m]] = H[r.child[s][m]] BY <3>1, <3>4, <4>1
      <4> QED BY <1>5, <3>1, <3>2, <4>2, <4>3 DEF Level, Lack
    <3>5. CASE m \notin {p, u, g}
      <4>1. r.child[s][m] \notin {p, u} BY <1>8, <3>5
      <4>2. Weight(r, m) = Weight(q, m) BY <1>3, <1>6, <3>5 DEF Weight
      <4>3. G[m] = H[m] /\ G[r.child[s][m]] = H[r.child[s][m]] BY <3>1, <3>5, <4>1
      <4> QED BY <1>5, <3>1, <3>2, <4>2, <4>3 DEF Level, Lack
    <3> QED BY <3>3, <3>4, <3>5
  <2> HIDE DEF G
  <2> QED BY <2>1, <2>2 DEF Levels
<1>11. Pales(q, S, NULL, g)
  <2> SUFFICES ASSUME NEW m \in S, NEW s \in Sides, IsRed(q, m), IsRed(q, q.child[s][m])
               PROVE  q.child[s][m] = g
    BY Zenon DEF Pales, Pale
  <2> DEFINE c == r.child[s][m]
  <2>1. c \in Pointers /\ c # NULL BY <1>1, <1>5, NodeFacts DEF IsRed, IsBlack
  <2>2. c \in Keys /\ m \in Keys /\ r.parent[c] = m
    <3>1. Fork(r, D, m, s, c, r.child[Other(s)][m]) BY <1>1, ForkFacts, Zenon
    <3> QED BY <2>1, <3>1, Zenon DEF Fork
  <2>3. c \notin {p, u} /\ m \notin {p, u} BY <1>3, <1>5, <2>2, <1>2, Zenon DEF IsRed, IsBlack
  <2>4. CASE c = g BY <1>5, <2>4
  <2>5. CASE c # g
    <3>1. m # g BY <1>2, <2>3, SideFacts, Zenon
    <3>2. IsRed(r, m) /\ IsRed(r, c) BY <1>3, <1>5, <2>2, <2>3, <2>5, <3>1 DEF IsRed, IsBlack
    <3>3. Pale(r, m, s, NULL, n) BY <1>1 DEF Pales
    <3>4. c = n BY <2>2, <3>2, <3>3, NullIsNoKey DEF Pale
    <3> QED BY <1>2, <2>2, <2>3, <3>4, Zenon
  <2> QED BY <2>4, <2>5
<1>12. IsRed(q, q.root) => q.root = g
  <2>1. r.root \in Keys
    <3>1. r.root \in S BY <1>1, <1>2, Zenon DEF Shape
    <3> QED BY <1>6, <3>1
  <2> QED BY <1>2, <1>3, <1>4, <2>1, Zenon DEF IsRed, IsBlack
<1>13. IsRed(q, g) BY <1>2, <1>3, NullIsNoKey, Zenon DEF IsRed, IsBlack
<1> HIDE DEF G
<1>14. Growing(q, D, G, g) BY <1>2, <1>4, <1>10, <1>11, <1>12, <1>13, Zenon DEF Growing
<1> QED BY <1>4, <1>7, <1>14

\* Rotations and colours leave what is not in the tree alone, one after the other too.
LEMMA ElsewhereFacts ==
  ASSUME NEW r, NEW q, NEW S
  PROVE  /\ \A u : Elsewhere(r, q, S) /\ Elsewhere(q, u, S) => Elsewhere(r, u, S)
         /\ \A side, n, top, low, mid, out :
              Turned(r, q, S, side, n, top, low, mid, out) => Elsewhere(r, q, S)
         /\ \A B, R : Painted(r, q, B, R) /\ B \subseteq S /\ R \subseteq S => Elsewhere(r, q, S)
<1>1. ASSUME NEW u, Elsewhere(r, q, S), Elsewhere(q, u, S) PROVE Elsewhere(r, u, S)
  BY <1>1 DEF Elsewhere
<1>2. ASSUME NEW side, NEW n, NEW top, NEW low, NEW mid, NEW out,
             Turned(r, q, S, side, n, top, low, mid, out)
      PROVE  Elsewhere(r, q, S)
  BY <1>2 DEF Turned, Elsewhere
<1>3. ASSUME NEW B, NEW R, Painted(r, q, B, R), B \subseteq S, R \subseteq S
      PROVE  Elsewhere(r, q, S)
  <2>1. q.size = r.size /\ q.child = r.child /\ q.parent = r.parent
    BY <1>3 DEF Painted, Recoloured
  <2>2. \A m \in Keys \ S : q.black[m] = r.black[m] BY <1>3 DEF Painted
  <2> QED BY <2>1, <2>2 DEF Elsewhere
<1> QED BY <1>1, <1>2, <1>3

Shade(r, q, B, R) ==
  /\ q \in Trees /\ q.root = r.root /\ q.size = r.size
  /\ q.child = r.child /\ q.parent = r.parent
  /\ \A D : Shape(r, D) => Shape(q, D)
  /\ \A m \in Keys : m \in R => ~q.black[m] /\ Weight(q, m) = 0
  /\ \A m \in Keys : m \in B \ R => q.black[m] /\ Weight(q, m) = 1
  /\ \A m \in Keys : m \notin B \cup R => q.black[m] = r.black[m] /\ Weight(q, m) = Weight(r, m)

\* The colours after a painting.
LEMMA PaintedFacts ==
  ASSUME NEW r, NEW q, NEW B, NEW R, Painted(r, q, B, R)
  PROVE  Shade(r, q, B, R)
<1>1. Recoloured(r, q) BY DEF Painted
<1>2. \A m \in Keys : /\ m \in R => ~q.black[m] /\ Weight(q, m) = 0
                      /\ m \in B \ R => q.black[m] /\ Weight(q, m) = 1
                      /\ m \notin B \cup R => q.black[m] = r.black[m] /\ Weight(q, m) = Weight(r, m)
  BY DEF Painted, Weight
<1>3. \A D : Shape(r, D) => Shape(q, D) BY <1>1, RecolouredShape
<1> QED BY <1>1, <1>2, <1>3 DEF Recoloured, Shade

\* A black uncle and n on the outer side: the parent goes up over the grandparent.
LEMMA StraightKeeps ==
  ASSUME NEW r, NEW D, NEW H, NEW n, Growing(r, D, H, n), NEW p, NEW g, NEW u, NEW side,
         RedPair(r, D, n, p, g, u, side), ~IsRed(r, u), n = r.child[side][p],
         NEW q1, Painted(r, q1, {p}, {g}), NEW q, q = Rotated(q1, Other(side), g)
  PROVE  \E E, G : /\ Growing(q, E, G, n) /\ E[q.root] = D[r.root]
                   /\ Elsewhere(r, q, D[r.root]) /\ IsBlack(q, q.parent[n])
<1> DEFINE far == Other(side)
           S == D[r.root]
           mid == r.child[far][p]
<1>1. /\ Shape(r, D) /\ Levels(r, H, S, NULL, "left") /\ Pales(r, S, NULL, n)
      /\ n \in S /\ IsRed(r, n)
  BY DEF Growing
<1>2. /\ n \in Keys /\ p \in Keys /\ g \in Keys /\ u \in Pointers
      /\ p \in S /\ g \in S /\ (u # NULL => u \in S)
      /\ side \in Sides /\ p = r.child[side][g] /\ u = r.child[far][g]
      /\ n # p /\ n # g /\ p # g /\ u \notin {n, p, g} /\ n # r.root /\ p # r.root
      /\ ~r.black[n] /\ ~r.black[p] /\ r.black[g] /\ r.black[r.root]
      /\ Fork(r, D, g, side, p, u) /\ p = r.parent[n] /\ g = r.parent[p]
  BY Zenon DEF RedPair
<1>3. far \in Sides /\ Other(far) = side /\ far # side /\ \A s \in Sides : s \in {side, far}
  BY <1>2, SideFacts, Zenon
<1>4. /\ q1 \in Trees /\ q1.root = r.root /\ q1.child = r.child /\ q1.parent = r.parent
      /\ Shape(q1, D) /\ q1.black[p] /\ ~q1.black[g] /\ Weight(q1, p) = 1 /\ Weight(q1, g) = 0
      /\ \A m \in Keys \ {p, g} : q1.black[m] = r.black[m] /\ Weight(q1, m) = Weight(r, m)
  <2>1. Shade(r, q1, {p}, {g}) BY PaintedFacts
  <2> QED BY <1>1, <1>2, <2>1, Zenon DEF Shade
<1>5. Fork(r, D, p, side, n, mid) BY <1>1, <1>2, ForkFacts, Zenon
<1>6. /\ p # NULL /\ n # NULL /\ g # NULL /\ mid # n /\ mid \in Pointers /\ mid # p /\ mid # g
      /\ Pivot(r, D, g, far, p, u, mid, n)
  <2>1. p # NULL /\ n # NULL /\ g # NULL BY <1>2, NullIsNoKey, Zenon
  <2>2. Pivot(r, D, g, far, p, u, mid, n) BY <1>1, <1>2, <1>3, <2>1, Pivots, Zenon
  <2>3. mid # n BY <1>5, <2>1 DEF Fork
  <2> QED BY <2>1, <2>2, <2>3, Zenon DEF Pivot
<1>7. Pivot(q1, D, g, far, p, u, mid, n) BY <1>6, PivotPainted
<1> DEFINE E == Under(D, g, p, u, mid)
           G == [H EXCEPT ![p] = H[g], ![g] = H[u]]
<1>8. Shape(q, E) /\ E[q.root] = S /\ Turned(q1, q, S, far, g, p, u, mid, n)
  BY <1>4, <1>7, Rotation
<1>9. Heights(r, H, S, NULL, "left") BY <1>1, HeightTypes
<1>10. \A x, s, z : x # NULL => Lack(x, s, NULL, z) = 0 BY DEF Lack
<1>11. /\ H \in [Pointers -> Nat] /\ H[NULL] = 0 /\ H[u] \in Nat
       /\ H[g] = H[u] + 1 /\ H[g] = H[p] + 1 /\ H[p] = H[n] /\ H[p] = H[mid]
       /\ H[n] \in Nat /\ H[mid] \in Nat /\ H[p] \in Nat
  <2>1. /\ H[g] = H[p] + Weight(r, g) /\ H[g] = H[u] + Weight(r, g)
        /\ H[p] = H[n] + Weight(r, p) /\ H[p] = H[mid] + Weight(r, p)
        /\ H \in [Pointers -> Nat] /\ H[NULL] = 0 /\ H[u] \in Nat /\ H[n] \in Nat /\ H[mid] \in Nat
        /\ H[p] \in Nat
    <3>1. /\ H[g] = H[r.child[side][g]] + Weight(r, g) + Lack(g, side, NULL, "left")
          /\ H[g] = H[r.child[far][g]] + Weight(r, g) + Lack(g, far, NULL, "left")
          /\ H[p] = H[r.child[side][p]] + Weight(r, p) + Lack(p, side, NULL, "left")
          /\ H[p] = H[r.child[far][p]] + Weight(r, p) + Lack(p, far, NULL, "left")
      BY <1>2, <1>3, <1>9, ZenonT(60) DEF Heights
    <3>2. /\ H \in [Pointers -> Nat] /\ H[NULL] = 0 /\ H[u] \in Nat /\ H[n] \in Nat
          /\ H[mid] \in Nat /\ H[p] \in Nat
      BY <1>2, <1>6, <1>9, NullIsNoKey, Zenon DEF Heights
    <3>3. Weight(r, g) \in Nat /\ Weight(r, p) \in Nat BY DEF Weight
    <3>4. /\ r.child[side][g] = p /\ r.child[far][g] = u
          /\ r.child[side][p] = n /\ r.child[far][p] = mid
      BY <1>2, Zenon
    <3>5. /\ Lack(g, side, NULL, "left") = 0 /\ Lack(g, far, NULL, "left") = 0
          /\ Lack(p, side, NULL, "left") = 0 /\ Lack(p, far, NULL, "left") = 0
      BY <1>6, <1>10
    <3> HIDE DEF far, mid
    <3> QED BY <3>1, <3>2, <3>3, <3>4, <3>5
  <2>2. Weight(r, g) = 1 /\ Weight(r, p) = 0 BY <1>2, Zenon DEF Weight
  <2> QED BY <2>1, <2>2
<1>12. ASSUME NEW m \in S \ {g, p}, NEW s \in Sides PROVE Level(q1, H, m, s, NULL, "left")
  <2>1. m \in Keys BY <1>1, NodeFacts
  <2>2. H[m] = H[r.child[s][m]] + Weight(r, m) + Lack(m, s, NULL, "left")
    BY <1>9 DEF Heights
  <2> QED BY <1>4, <2>1, <2>2 DEF Level
<1>13. Levels(q, G, S, NULL, "left")
  <2>1. /\ H[u] = H[u] + Weight(q1, g) + Lack(g, far, NULL, "left")
        /\ H[u] = H[mid] + Weight(q1, g) + Lack(g, Other(far), NULL, "left")
        /\ H[g] = H[u] + Weight(q1, p) + Lack(p, far, NULL, "left")
        /\ H[g] = H[n] + Weight(q1, p) + Lack(p, Other(far), NULL, "left")
    BY <1>4, <1>6, <1>10, <1>11
  <2>2. Fits(q1, H, D[q1.root], g, far, p, u, mid, n, NULL, "left", H[u])
    BY <1>4, <1>11, <1>12, <2>1 DEF Fits
  <2>3. Levels(Rotated(q1, far, g), G, D[q1.root], NULL, "left") BY <1>4, <1>7, <2>2, RotationLevels
  <2> QED BY <1>4, <2>3
<1>14. Pales(q, S, NULL, n)
  <2>1. IsBlack(q1, u) BY <1>2, <1>4, Zenon DEF IsRed, IsBlack, Pointers
  <2>2. IsBlack(q1, p) /\ IsRed(q1, g) BY <1>2, <1>4, <1>6, Zenon DEF IsRed, IsBlack
  <2>3. IsBlack(q1, mid)
    <3>1. Pale(r, p, far, NULL, n) BY <1>1, <1>2, <1>3, Zenon DEF Pales
    <3>2. IsBlack(r, mid) BY <1>2, <1>6, <3>1, Zenon DEF Pale, IsRed, IsBlack
    <3> QED BY <1>4, <1>6, <3>2 DEF IsBlack, Pointers
  <2>4. ASSUME NEW m \in S \ {g, p}, NEW s \in Sides, r.child[s][m] # g
        PROVE  Pale(q1, m, s, NULL, n)
    <3> SUFFICES ASSUME IsRed(q1, m), IsRed(q1, q1.child[s][m]) PROVE q1.child[s][m] = n
      BY DEF Pale
    <3> DEFINE c == r.child[s][m]
    <3>1. m \in Keys /\ m # NULL /\ c \in Pointers BY <1>1, NodeFacts
    <3>2. c # NULL /\ c \in Keys BY <1>4, <3>1, Zenon DEF IsRed, IsBlack, Pointers
    <3>3. r.parent[c] = m BY <1>1, <3>2, NodeFacts
    <3>4. c # p BY <1>2, <3>3, Zenon
    <3>5. IsRed(r, m) /\ IsRed(r, c) BY <1>4, <2>4, <3>1, <3>2, <3>4 DEF IsRed, IsBlack
    <3>6. Pale(r, m, s, NULL, n) BY <1>1 DEF Pales
    <3> QED BY <1>4, <3>1, <3>5, <3>6 DEF Pale
  <2>5. \A m \in D[q1.root] \ {g, p}, s \in Sides :
          IF q1.child[s][m] = g THEN IsRed(q1, m) /\ IsRed(q1, p) => m = NULL \/ p = n
          ELSE Pale(q1, m, s, NULL, n)
    BY <1>4, <2>2, <2>4 DEF IsRed
  <2>6. ~IsRed(q1, u) /\ ~IsRed(q1, mid) /\ ~IsRed(q1, p) BY <2>1, <2>2, <2>3 DEF IsRed
  <2>7. Contrasts(q1, D[q1.root], g, p, u, mid, n, NULL, n) BY <2>5, <2>6 DEF Contrasts
  <2>8. Pales(Rotated(q1, far, g), D[q1.root], NULL, n) BY <1>4, <1>7, <2>7, RotationPales
  <2> QED BY <1>4, <2>8
<1>15. q.black = q1.black /\ q.root = (IF r.root = g THEN p ELSE r.root) /\ q.parent[n] = p
  <2>1. Keeps(q1, q, g, p, mid) BY <1>8, TurnedFields
  <2>2. n \in Keys \ {g, p, mid} BY <1>2, <1>6, Zenon
  <2>3. q.parent[n] = q1.parent[n] BY <2>1, <2>2 DEF Keeps
  <2>4. q.black = q1.black /\ q.root = IF q1.root = g THEN p ELSE q1.root
    BY <2>1 DEF Keeps
  <2>5. q.parent[n] = p
    <3>1. q1.parent = r.parent /\ p = r.parent[n] BY <1>2, <1>4, Zenon
    <3> QED BY <2>3, <3>1, Zenon
  <2>6. q.root = IF r.root = g THEN p ELSE r.root
    <3>1. q1.root = r.root BY <1>4
    <3> QED BY <2>4, <3>1
  <2> QED BY <2>4, <2>5, <2>6
<1>16. IsRed(q, n) /\ IsBlack(q, q.parent[n])
  <2>1. q.black[n] = q1.black[n] /\ q.black[p] = q1.black[p] BY <1>15
  <2>2. ~q1.black[n] /\ q1.black[p] BY <1>2, <1>4, Zenon
  <2> QED BY <1>6, <1>15, <2>1, <2>2 DEF IsRed, IsBlack
<1>17. ~IsRed(q, q.root)
  <2>0. r.root \in S BY <1>1, <1>2, Zenon DEF Shape
  <2>1. r.root \in Keys BY <1>1, <2>0, NodeFacts
  <2>2. r.root # g => q1.black[r.root] BY <1>2, <1>4, <2>1, Zenon
  <2> QED BY <1>4, <1>15, <2>2 DEF IsRed, IsBlack
<1>18. Elsewhere(r, q, S)
  <2>1. Elsewhere(r, q1, S) BY <1>2, ElsewhereFacts, Zenon
  <2>2. Elsewhere(q1, q, S) BY <1>8, ElsewhereFacts
  <2> QED BY <2>1, <2>2, ElsewhereFacts
<1> HIDE DEF E, G
<1>19. Growing(q, E, G, n) BY <1>1, <1>8, <1>13, <1>14, <1>16, <1>17 DEF Growing
<1> QED BY <1>8, <1>16, <1>18, <1>19
\* A black uncle and n on the inner side: n goes up over the parent, then over the grandparent.
LEMMA BentKeeps ==
  ASSUME NEW r, NEW D, NEW H, NEW n, Growing(r, D, H, n), NEW p, NEW g, NEW u, NEW side,
         RedPair(r, D, n, p, g, u, side), ~IsRed(r, u), n = r.child[Other(side)][p],
         NEW r1, r1 = Rotated(r, side, p),
         NEW q1, Painted(r1, q1, {n}, {g}), NEW q, q = Rotated(q1, Other(side), g)
  PROVE  \E E, G : /\ Growing(q, E, G, p) /\ E[q.root] = D[r.root]
                   /\ Elsewhere(r, q, D[r.root]) /\ IsBlack(q, q.parent[p])
<1> DEFINE far == Other(side)
           S == D[r.root]
           low == r.child[side][p]
           mid == r.child[side][n]
           out == r.child[far][n]
<1>1. /\ Shape(r, D) /\ Levels(r, H, S, NULL, "left") /\ Pales(r, S, NULL, n)
      /\ n \in S /\ IsRed(r, n)
  BY DEF Growing
<1>2. /\ n \in Keys /\ p \in Keys /\ g \in Keys /\ u \in Pointers
      /\ p \in S /\ g \in S /\ (u # NULL => u \in S)
      /\ side \in Sides /\ p = r.child[side][g] /\ u = r.child[far][g]
      /\ n # p /\ n # g /\ p # g /\ u \notin {n, p, g} /\ n # r.root /\ p # r.root
      /\ ~r.black[n] /\ ~r.black[p] /\ r.black[g] /\ r.black[r.root]
      /\ Fork(r, D, g, side, p, u) /\ p = r.parent[n] /\ g = r.parent[p]
  BY Zenon DEF RedPair
<1>3. far \in Sides /\ Other(far) = side /\ far # side /\ \A s \in Sides : s \in {side, far}
  BY <1>2, SideFacts, Zenon
<1>4. n # NULL /\ p # NULL /\ g # NULL BY <1>2, NullIsNoKey, Zenon
<1>5. Pivot(r, D, p, side, n, low, mid, out) BY <1>1, <1>2, <1>4, Pivots, Zenon
<1>6. /\ low \in Pointers /\ mid \in Pointers /\ out \in Pointers
      /\ low \notin {n, p} /\ mid \notin {n, p} /\ out \notin {n, p}
  BY <1>5, Zenon DEF Pivot
<1> DEFINE E == Under(D, p, n, low, mid)
           G == [H EXCEPT ![n] = H[p], ![p] = H[low]]
<1>7. Shape(r1, E) /\ E[r1.root] = S /\ Turned(r, r1, S, side, p, n, low, mid, out)
  BY <1>1, <1>5, Rotation
<1> HIDE DEF E
<1>8. Keeps(r, r1, p, n, mid) BY <1>7, TurnedFields
<1>9. /\ r1.black = r.black /\ r1.root = r.root
      /\ \A m : IsRed(r1, m) <=> IsRed(r, m)
  <2>1. /\ r1.black = r.black /\ r1.root = IF r.root = p THEN n ELSE r.root
        /\ \A m : IsRed(r1, m) <=> IsRed(r, m)
    BY <1>8 DEF Keeps
  <2> QED BY <1>2, <2>1, Zenon
<1>10. /\ r1.parent[p] = n /\ r1.parent[n] = g
       /\ \A m \in S \ {p, n}, s \in Sides : r1.child[s][m] = IF r.child[s][m] = p THEN n ELSE r.child[s][m]
       /\ r1.child[side][n] = p
  <2>1. /\ r1.parent[p] = n /\ r1.parent[n] = r.parent[p]
        /\ \A m \in S \ {p, n}, s \in Sides : r1.child[s][m] = IF r.child[s][m] = p THEN n ELSE r.child[s][m]
        /\ r1.child[side][n] = p
    BY <1>7 DEF Turned
  <2> QED BY <1>2, <2>1, Zenon
<1>11. Levels(r1, G, S, NULL, "left")
  <2>1. \A x, s, z : x # NULL => Lack(x, s, NULL, z) = 0 BY DEF Lack
  <2>2. /\ H \in [Pointers -> Nat] /\ H[NULL] = 0 /\ H[low] \in Nat /\ H[mid] \in Nat
        /\ H[out] \in Nat
        /\ H[p] = H[low] + Weight(r, p) /\ H[p] = H[n] + Weight(r, p)
        /\ H[n] = H[mid] + Weight(r, n) /\ H[n] = H[out] + Weight(r, n)
    <3>1. Heights(r, H, S, NULL, "left") BY <1>1, HeightTypes
    <3>2. /\ H[p] = H[r.child[side][p]] + Weight(r, p) + Lack(p, side, NULL, "left")
          /\ H[p] = H[r.child[far][p]] + Weight(r, p) + Lack(p, far, NULL, "left")
          /\ H[n] = H[r.child[side][n]] + Weight(r, n) + Lack(n, side, NULL, "left")
          /\ H[n] = H[r.child[far][n]] + Weight(r, n) + Lack(n, far, NULL, "left")
      BY <1>1, <1>2, <1>3, <3>1, ZenonT(60) DEF Heights
    <3>3. /\ H \in [Pointers -> Nat] /\ H[NULL] = 0 /\ H[low] \in Nat /\ H[mid] \in Nat
          /\ H[out] \in Nat /\ H[n] \in Nat
      BY <1>2, <1>6, <3>1, NullIsNoKey, Zenon DEF Heights
    <3>4. r.child[far][p] = n OBVIOUS
    <3>5. /\ Lack(p, side, NULL, "left") = 0 /\ Lack(p, far, NULL, "left") = 0
          /\ Lack(n, side, NULL, "left") = 0 /\ Lack(n, far, NULL, "left") = 0
      BY <1>4, <2>1
    <3>6. Weight(r, n) \in Nat /\ Weight(r, p) \in Nat BY DEF Weight
    <3>7. /\ r.child[side][p] = low /\ r.child[side][n] = mid /\ r.child[far][n] = out
      OBVIOUS
    <3> HIDE DEF low, mid, out, far
    <3> QED BY <3>2, <3>3, <3>4, <3>5, <3>6, <3>7
  <2>3. Weight(r, n) = 0 /\ Weight(r, p) = 0 BY <1>2, Zenon DEF Weight
  <2>4. /\ H[low] = H[low] + Weight(r, p) + Lack(p, side, NULL, "left")
        /\ H[low] = H[mid] + Weight(r, p) + Lack(p, far, NULL, "left")
        /\ H[p] = H[low] + Weight(r, n) + Lack(n, side, NULL, "left")
        /\ H[p] = H[out] + Weight(r, n) + Lack(n, far, NULL, "left")
    BY <1>4, <2>1, <2>2, <2>3
  <2>5. \A m \in S \ {p, n}, s \in Sides : Level(r, H, m, s, NULL, "left") BY <1>1 DEF Levels
  <2> HIDE DEF low, mid, out
  <2>6. Fits(r, H, S, p, side, n, low, mid, out, NULL, "left", H[low])
    BY <2>2, <2>4, <2>5 DEF Fits
  <2>7. Levels(Rotated(r, side, p), G, S, NULL, "left") BY <1>1, <1>5, <2>6, RotationLevels
  <2> QED BY <2>7
<1> HIDE DEF G
<1>12. Pales(r1, S, NULL, p)
  <2>1. ~IsRed(r, mid) /\ ~IsRed(r, out) /\ ~IsRed(r, low) /\ IsRed(r, p)
    <3>1. Pale(r, n, side, NULL, n) /\ Pale(r, n, far, NULL, n) /\ Pale(r, p, side, NULL, n)
      BY <1>1, <1>2, <1>3, Zenon DEF Pales
    <3>2. IsRed(r, p) BY <1>2, <1>4, Zenon DEF IsRed, IsBlack
    <3>3. mid # n /\ out # n /\ low # n BY <1>6
    <3> QED BY <1>1, <1>4, <3>1, <3>2, <3>3 DEF Pale
  <2>2. ASSUME NEW m \in S \ {p, n}, NEW s \in Sides
        PROVE  IF r.child[s][m] = p THEN IsRed(r, m) /\ IsRed(r, n) => m = NULL \/ n = p
               ELSE Pale(r, m, s, NULL, p)
    <3>1. CASE r.child[s][m] = p
      <4>0. Fork(r, D, m, s, r.child[s][m], r.child[Other(s)][m]) BY <1>1, ForkFacts
      <4>1. r.parent[p] = m BY <1>4, <3>1, <4>0 DEF Fork
      <4>2. ~IsRed(r, m) BY <1>2, <4>1, Zenon DEF IsRed, IsBlack
      <4> QED BY <3>1, <4>2
    <3>2. CASE r.child[s][m] # p
      <4>1. Pale(r, m, s, NULL, n) BY <1>1 DEF Pales
      <4>2. r.child[s][m] # n
        <5>1. r.child[s][m] = n => r.parent[n] = m BY <1>1, <1>4, NodeFacts
        <5> QED BY <1>2, <5>1, Zenon
      <4> QED BY <3>2, <4>1, <4>2 DEF Pale
    <3> QED BY <3>1, <3>2
  <2> HIDE DEF low, mid, out
  <2>3. Contrasts(r, S, p, n, low, mid, out, NULL, p) BY <2>1, <2>2 DEF Contrasts
  <2>4. Pales(Rotated(r, side, p), S, NULL, p) BY <1>1, <1>5, <2>3, RotationPales
  <2> QED BY <2>4
<1>13. Growing(r1, E, G, p)
  <2>1. IsRed(r1, p) /\ ~IsRed(r1, r1.root)
    <3>1. IsRed(r, p) BY <1>2, <1>4 DEF IsRed, IsBlack
    <3>2. ~IsRed(r, r.root) BY <1>2, Zenon DEF IsRed, IsBlack
    <3> QED BY <1>9, <3>1, <3>2
  <2> QED BY <1>2, <1>7, <1>11, <1>12, <2>1, Zenon DEF Growing
<1>14. r1.child[side][g] = n /\ r1.child[far][g] = u /\ g \in S \ {p, n}
  <2>1. g \in S \ {p, n} BY <1>2, Zenon
  <2>2. r1.child[side][g] = n BY <1>2, <1>10, <2>1, Zenon
  <2>3. u # p BY <1>2, Zenon
  <2>4. r1.child[far][g] = u
    <3>1. r1.child[far][g] = IF r.child[far][g] = p THEN n ELSE r.child[far][g]
      BY <1>3, <1>10, <2>1
    <3> QED BY <1>2, <2>3, <3>1, Zenon
  <2> QED BY <2>1, <2>2, <2>4
<1>15. SideOf(r1, n, g) = side
  <2>1. r1.child[side][g] = n /\ u # n BY <1>2, <1>14, Zenon
  <2>2. r1.child[far][g] # n BY <1>14, <2>1
  <2> QED BY <1>2, <1>3, <2>1, <2>2, Zenon DEF SideOf, Sides
<1>16. ~IsBlack(r1, r1.parent[p])
  <2>1. IsRed(r1, n) BY <1>1, <1>9
  <2> QED BY <1>10, <2>1 DEF IsRed
<1>17. RedPair(r1, E, p, n, g, u, side)
  <2>1. RedPair(r1, E, p, n, g, r1.child[far][g], side)
    BY <1>10, <1>13, <1>15, <1>16, RedPairs
  <2> QED BY <1>14, <2>1
<1>18. ~IsRed(r1, u) BY <1>9
<1>19. PICK E2, G2 : /\ Growing(q, E2, G2, p) /\ E2[q.root] = E[r1.root]
                     /\ Elsewhere(r1, q, E[r1.root]) /\ IsBlack(q, q.parent[p])
  BY <1>10, <1>13, <1>17, <1>18, StraightKeeps
<1>20. Elsewhere(r, q, S)
  <2>1. Elsewhere(r, r1, S) BY <1>7, ElsewhereFacts
  <2> QED BY <1>7, <1>19, <2>1, ElsewhereFacts
<1> QED BY <1>7, <1>19, <1>20

\* A round of the loop keeps what the loop relies on, and either is the last
\* one or goes on with more nodes under its node.
Advances(r, D, n, q, E, m) ==
  /\ E[q.root] = D[r.root] /\ Elsewhere(r, q, D[r.root])
  /\ \/ IsBlack(q, q.parent[m])
     \/ D[n] \subseteq E[m] /\ D[n] # E[m]

\* One round of the loop, whichever of its cases it takes.
LEMMA FixupKeeps ==
  ASSUME NEW s, NEW D, NEW H, Growing(s.tree, D, H, s.node)
  PROVE  \E E, G : /\ Growing(Fixup(s).tree, E, G, Fixup(s).node)
                   /\ Advances(s.tree, D, s.node, Fixup(s).tree, E, Fixup(s).node)
<1>1. PICK r, n : r = s.tree /\ n = s.node OBVIOUS
<1>2. PICK p, g : p = r.parent[n] /\ g = r.parent[p] BY Zenon
<1>3. PICK side : side = SideOf(r, p, g) OBVIOUS
<1>4. PICK u : u = r.child[Other(side)][g] BY Zenon
<1> DEFINE f == Fixup(s)
           far == Other(side)
           bent == SideOf(r, n, p) # side
           top == IF bent THEN n ELSE p
           r1 == IF bent THEN Rotated(r, side, p) ELSE r
<1>5. f = IF IsBlack(r, p) THEN s
          ELSE IF IsRed(r, u)
          THEN [tree |-> [r EXCEPT !.black[u] = TRUE, !.black[p] = TRUE, !.black[g] = FALSE],
                node |-> g]
          ELSE [tree |-> Rotated([r1 EXCEPT !.black[top] = TRUE, !.black[g] = FALSE], far, g),
                node |-> IF bent THEN p ELSE n]
  BY <1>1, <1>2, <1>3, <1>4 DEF Fixup
<1>6. Growing(r, D, H, n) BY <1>1
<1>7. Shape(r, D) /\ n \in D[r.root] /\ r \in Trees BY <1>6 DEF Growing, Shape
<1> HIDE DEF f
<1> SUFFICES \E E, G : Growing(f.tree, E, G, f.node) /\ Advances(r, D, n, f.tree, E, f.node)
  BY <1>1 DEF f
<1>8. CASE IsBlack(r, p)
  <2>1. f.tree = r /\ f.node = n BY <1>1, <1>5, <1>8
  <2>2. Elsewhere(r, r, D[r.root]) BY DEF Elsewhere
  <2>3. Advances(r, D, n, f.tree, D, f.node) BY <1>2, <1>8, <2>1, <2>2 DEF Advances
  <2> QED BY <1>6, <2>1, <2>3
<1>9. CASE ~IsBlack(r, p)
  <2>1. RedPair(r, D, n, p, g, u, side) BY <1>2, <1>3, <1>4, <1>6, <1>9, RedPairs
  <2>2. /\ n \in Keys /\ p \in Keys /\ g \in Keys /\ u \in Pointers
        /\ p \in D[r.root] /\ g \in D[r.root] /\ (u # NULL => u \in D[r.root])
        /\ n # p /\ n # g /\ p # g /\ u \notin {n, p, g} /\ side \in Sides
        /\ p = r.child[side][g]
        /\ D[n] \subseteq D[g] /\ g \notin D[n]
    BY <2>1, Zenon DEF RedPair
  <2>3. CASE IsRed(r, u)
    <3>1. PICK q : q = [r EXCEPT !.black[u] = TRUE, !.black[p] = TRUE, !.black[g] = FALSE]
      OBVIOUS
    <3>2. f.tree = q /\ f.node = g BY <1>5, <1>9, <2>3, <3>1
    <3>3. u \in Keys BY <2>2, <2>3 DEF IsRed, IsBlack, Pointers
    <3>4. Painted(r, q, {u, p}, {g})
      BY <1>7, <2>2, <3>1, <3>3 DEF Painted, Recoloured, Trees
    <3>5. PICK G : Growing(q, D, G, g) /\ q.root = r.root /\ Elsewhere(r, q, D[r.root])
      BY <1>6, <2>1, <2>3, <3>4, UncleKeeps
    <3>6. g \in D[g] BY <1>7, <2>2, NodeFacts
    <3>7. Advances(r, D, n, q, D, g) BY <2>2, <3>5, <3>6 DEF Advances
    <3> QED BY <3>2, <3>5, <3>7
  <2>4. CASE ~IsRed(r, u)
    <3>1. n # r.root /\ p = r.parent[n] BY <1>2, <2>1, Zenon DEF RedPair
    <3>2. /\ SideOf(r, n, p) \in Sides /\ r.child[SideOf(r, n, p)][p] = n
      BY <1>7, <3>1, SideOfFacts
    <3>3. CASE ~bent
      <4>1. PICK q1 : q1 = [r EXCEPT !.black[p] = TRUE, !.black[g] = FALSE] OBVIOUS
      <4>2. PICK q : q = Rotated(q1, far, g) OBVIOUS
      <4>3. f.tree = q /\ f.node = n BY <1>5, <1>9, <2>4, <3>3, <4>1, <4>2
      <4>4. Painted(r, q1, {p}, {g}) BY <1>7, <2>2, <4>1 DEF Painted, Recoloured, Trees
      <4>5. n = r.child[side][p] BY <3>2, <3>3
      <4>6. PICK E, G : /\ Growing(q, E, G, n) /\ E[q.root] = D[r.root]
                        /\ Elsewhere(r, q, D[r.root]) /\ IsBlack(q, q.parent[n])
        BY <1>6, <2>1, <2>4, <4>2, <4>4, <4>5, StraightKeeps
      <4>7. Advances(r, D, n, q, E, n) BY <4>6 DEF Advances
      <4> QED BY <4>3, <4>6, <4>7
    <3>4. CASE bent
      <4>1. PICK r2 : r2 = Rotated(r, side, p) OBVIOUS
      <4>2. PICK q1 : q1 = [r2 EXCEPT !.black[n] = TRUE, !.black[g] = FALSE] OBVIOUS
      <4>3. PICK q : q = Rotated(q1, far, g) OBVIOUS
      <4>4. f.tree = q /\ f.node = p BY <1>5, <1>9, <2>4, <3>4, <4>1, <4>2, <4>3
      <4>5. n = r.child[far][p] BY <2>2, <3>2, <3>4, SideFacts
      <4>6. r2 \in Trees
        <5>1. Pivot(r, D, p, side, n, r.child[side][p], r.child[side][n], r.child[far][n])
          BY <1>7, <2>2, <4>5, NullIsNoKey, Pivots
        <5> QED BY <1>7, <4>1, <5>1, Rotation, Zenon DEF Shape
      <4>7. Painted(r2, q1, {n}, {g}) BY <2>2, <4>2, <4>6 DEF Painted, Recoloured, Trees
      <4>8. PICK E, G : /\ Growing(q, E, G, p) /\ E[q.root] = D[r.root]
                        /\ Elsewhere(r, q, D[r.root]) /\ IsBlack(q, q.parent[p])
        BY <1>6, <2>1, <2>4, <4>1, <4>3, <4>5, <4>7, BentKeeps
      <4>9. Advances(r, D, n, q, E, p) BY <4>8 DEF Advances
      <4> QED BY <4>4, <4>8, <4>9
    <3> QED BY <3>3, <3>4
  <2> QED BY <2>3, <2>4
<1> QED BY <1>8, <1>9

\* A recursive definition of rounds defines them.
Runs(f, N, T, s0, F) ==
  f \in [0 .. N -> T] /\ f = [i \in 0 .. N |-> IF i = 0 THEN s0 ELSE F[f[i - 1]]]

\* A function that iterates F from s0 exists, for any number of rounds.
LEMMA Rounds ==
  ASSUME NEW N \in Nat, NEW T, NEW s0 \in T, NEW F \in [T -> T]
  PROVE  \E f : Runs(f, N, T, s0, F)
<1> DEFINE G == [i \in 1 .. N |-> F]
<1>1. G \in [1 .. N -> [T -> T]] OBVIOUS
<1>2. \A i \in 1 .. N : G[i] = F OBVIOUS
<1> HIDE DEF G
<1>3. Steps(N, T, s0, G) BY <1>1 DEF Steps
<1>4. PICK f : Iterates(f, N, T, s0, G) BY <1>3, Recursion
<1>5. f \in [0 .. N -> T] /\ f[0] = s0 /\ \A i \in 1 .. N : f[i] = F[f[i - 1]]
  BY <1>2, <1>4 DEF Iterates
<1>6. ASSUME NEW i \in 0 .. N PROVE f[i] = IF i = 0 THEN s0 ELSE F[f[i - 1]]
  <2>1. CASE i = 0 BY <1>5, <2>1
  <2>2. CASE i # 0
    <3>1. i \in 1 .. N BY <2>2
    <3> QED BY <1>5, <2>2, <3>1
  <2> QED BY <2>1, <2>2
<1>7. f = [i \in 0 .. N |-> f[i]] BY <1>5
<1> QED BY <1>5, <1>6, <1>7 DEF Runs

\* A red-black tree.
RedBlackTree(r, D, H) ==
  /\ Shape(r, D) /\ Levels(r, H, D[r.root], NULL, "left") /\ Pales(r, D[r.root], NULL, NULL)
  /\ IsBlack(r, r.root)

\* When the loop has ended, the root turns black.
LEMMA BlackRoot ==
  ASSUME NEW r, NEW D, NEW H, NEW n, Growing(r, D, H, n), IsBlack(r, r.parent[n]),
         NEW q, q = [r EXCEPT !.black[r.root] = TRUE]
  PROVE  /\ \E G : RedBlackTree(q, D, G)
         /\ q.root = r.root /\ Elsewhere(r, q, D[r.root])
<1> DEFINE S == D[r.root]
<1>0. PICK top : top = r.root OBVIOUS
<1>1. /\ Shape(r, D) /\ Levels(r, H, S, NULL, "left") /\ Pales(r, S, NULL, n)
      /\ n \in S /\ IsRed(r, n) /\ (IsRed(r, top) => top = n)
  BY <1>0 DEF Growing
<1>2. top \in S /\ top # NULL
  <2>1. top # NULL BY <1>0, <1>1 DEF Shape
  <2> QED BY <1>0, <1>1, <2>1 DEF Shape
<1>3. r \in Trees /\ top \in Keys BY <1>1, <1>2, NodeFacts DEF Shape
<1>4. q = [r EXCEPT !.black[top] = TRUE] BY <1>0
<1>5. Painted(r, q, {top}, {})
  <2>1. /\ Recoloured(r, q)
        /\ \A m \in Keys : q.black[m] = IF m = top THEN TRUE ELSE r.black[m]
    BY <1>3, <1>4 DEF Recoloured, Trees
  <2>2. \A m \in Keys : q.black[m] = IF m \in {} THEN FALSE
                                    ELSE IF m \in {top} THEN TRUE ELSE r.black[m]
    BY <2>1
  <2> QED BY <2>1, <2>2 DEF Painted
<1>6. /\ q \in Trees /\ q.root = r.root /\ q.child = r.child /\ q.parent = r.parent
      /\ Shape(q, D) /\ q.black[top] /\ Weight(q, top) = 1
      /\ \A m \in Keys \ {top} : q.black[m] = r.black[m] /\ Weight(q, m) = Weight(r, m)
  <2>1. Shade(r, q, {top}, {}) BY <1>5, PaintedFacts
  <2>2. /\ q \in Trees /\ q.root = r.root /\ q.child = r.child /\ q.parent = r.parent
        /\ Shape(q, D)
        /\ \A m \in Keys : m \in {top} \ {} => q.black[m] /\ Weight(q, m) = 1
        /\ \A m \in Keys : m \notin {top} \cup {} => q.black[m] = r.black[m] /\ Weight(q, m) = Weight(r, m)
    BY <1>1, <2>1 DEF Shade
  <2>3. top \in {top} \ {} /\ \A m \in Keys \ {top} : m \notin {top} \cup {} OBVIOUS
  <2> HIDE DEF S
  <2> QED BY <1>3, <2>2, <2>3
<1>7. Elsewhere(r, q, S)
  <2>1. q.size = r.size BY <1>3, <1>4
  <2>2. \A m \in Keys \ S : q.black[m] = r.black[m] BY <1>2, <1>6
  <2> QED BY <1>6, <2>1, <2>2 DEF Elsewhere
<1>8. ASSUME NEW m \in S, NEW s \in Sides PROVE r.child[s][m] # top
  <2>0. Fork(r, D, m, s, r.child[s][m], r.child[Other(s)][m]) BY <1>1, ForkFacts
  <2>1. r.child[s][m] = top => r.parent[top] = m BY <1>2, <2>0 DEF Fork
  <2>2. r.parent[top] = NULL BY <1>0, <1>1, <1>2, NodeFacts
  <2>3. m # NULL BY <1>1, NodeFacts
  <2> QED BY <2>1, <2>2, <2>3
<1> DEFINE G == [H EXCEPT ![top] = H[top] + 1 - Weight(r, top)]
<1>9. Heights(r, H, S, NULL, "left") BY <1>1, HeightTypes
<1>10. Levels(q, G, S, NULL, "left")
  <2>0. /\ H \in [Pointers -> Nat] /\ H[NULL] = 0
        /\ \A m \in S : H[m] \in Nat /\ Weight(r, m) \in {0, 1}
        /\ \A m \in S, s \in Sides : H[r.child[s][m]] \in Nat
        /\ \A m \in S, s \in Sides : H[m] = H[r.child[s][m]] + Weight(r, m) + Lack(m, s, NULL, "left")
    BY <1>9 DEF Heights
  <2>1. H[top] + 1 - Weight(r, top) \in Nat BY <1>2, <2>0
  <2>2. /\ G \in [Pointers -> Nat] /\ G[NULL] = 0 /\ G[top] = H[top] + 1 - Weight(r, top)
        /\ \A m \in Pointers \ {top} : G[m] = H[m]
    BY <1>2, <1>3, <2>0, <2>1, NullIsNoKey
  <2> HIDE DEF G
  <2>3. ASSUME NEW m \in S, NEW s \in Sides PROVE Level(q, G, m, s, NULL, "left")
    <3>1. m \in Keys /\ m \in Pointers /\ r.child[s][m] \in Pointers BY <1>1, NodeFacts, NullIsNoKey
    <3>2. G[r.child[s][m]] = H[r.child[s][m]] BY <1>8, <2>2, <3>1
    <3>3. H[m] = H[r.child[s][m]] + Weight(r, m) + Lack(m, s, NULL, "left") BY <2>0
    <3>4. Lack(m, s, NULL, "left") \in Nat /\ H[r.child[s][m]] \in Nat BY <2>0 DEF Lack
    <3>5. CASE m = top
      <4>1. G[m] = H[m] + 1 - Weight(r, m) /\ Weight(q, m) = 1 BY <1>6, <2>2, <3>5
      <4>2. Weight(r, m) \in {0, 1} BY <2>0
      <4>3. PICK h, l, w : h = H[r.child[s][m]] /\ l = Lack(m, s, NULL, "left") /\ w = Weight(r, m)
        OBVIOUS
      <4>4. h \in Nat /\ l \in Nat /\ w \in Nat BY <3>4, <4>2, <4>3
      <4>5. H[m] = h + w + l BY <3>3, <4>3
      <4>6. (h + w + l) + 1 - w = h + 1 + l BY <4>4
      <4>7. G[m] = h + 1 + l BY <4>1, <4>3, <4>5, <4>6
      <4> QED BY <1>6, <3>2, <4>1, <4>3, <4>7 DEF Level
    <3>6. CASE m # top
      <4>1. G[m] = H[m] /\ Weight(q, m) = Weight(r, m) BY <1>6, <2>2, <3>1, <3>6
      <4> QED BY <1>6, <3>2, <3>3, <4>1 DEF Level
    <3> QED BY <3>5, <3>6
  <2> QED BY <2>2, <2>3 DEF Levels
<1>11. Pales(q, S, NULL, NULL)
  <2> SUFFICES ASSUME NEW m \in S, NEW s \in Sides, IsRed(q, m), IsRed(q, q.child[s][m])
               PROVE  FALSE
    BY DEF Pales, Pale
  <2> DEFINE c == r.child[s][m]
  <2>1. c \in Pointers /\ c # NULL BY <1>1, <1>6, NodeFacts DEF IsRed, IsBlack
  <2>2. c \in Keys /\ m \in Keys /\ r.parent[c] = m
    <3>1. Fork(r, D, m, s, c, r.child[Other(s)][m]) BY <1>1, ForkFacts, Zenon
    <3> QED BY <2>1, <3>1, Zenon DEF Fork
  <2>3. IsRed(r, m) /\ IsRed(r, c) BY <1>6, <1>8, <2>2 DEF IsRed, IsBlack
  <2>4. Pale(r, m, s, NULL, n) BY <1>1 DEF Pales
  <2>5. c = n BY <2>2, <2>3, <2>4, NullIsNoKey DEF Pale
  <2> QED BY <2>2, <2>3, <2>5 DEF IsRed
<1>12. IsBlack(q, q.root) BY <1>0, <1>6 DEF IsBlack
<1> HIDE DEF G
<1>13. RedBlackTree(q, D, G) BY <1>6, <1>10, <1>11, <1>12 DEF RedBlackTree
<1> QED BY <1>6, <1>7, <1>13

\* The whole tree lies under a node only if it is the root.
LEMMA AllUnder ==
  ASSUME NEW r, NEW D, Shape(r, D), NEW n \in D[r.root], D[n] = D[r.root]
  PROVE  r.parent[n] = NULL
<1> SUFFICES ASSUME n # r.root PROVE FALSE BY NodeFacts
<1>1. PICK s \in Sides : r.parent[n] \in D[r.root] /\ r.child[s][r.parent[n]] = n BY NodeFacts
<1>2. r.parent[n] \notin D[n] BY <1>1, NodeFacts
<1> QED BY <1>1, <1>2

\* rb_insert_fixup makes a red-black tree of the same nodes, within its rounds.
LEMMA BalancedKeeps ==
  ASSUME NEW r, NEW D, NEW H, NEW n, Growing(r, D, H, n),
         Cardinality(D[r.root]) = r.size + 1
  PROVE  \E E, G : /\ RedBlackTree(Balanced(r, n), E, G)
                   /\ E[Balanced(r, n).root] = D[r.root]
                   /\ Elsewhere(r, Balanced(r, n), D[r.root])
<1> DEFINE S == D[r.root]
           Good(s, E, G) == Growing(s.tree, E, G, s.node) /\ E[s.tree.root] = S
                            /\ Elsewhere(r, s.tree, S)
           T == {s \in [tree : Trees, node : Keys] : \E E, G : Good(s, E, G)}
           s0 == [tree |-> r, node |-> n]
           F == [s \in T |-> Fixup(s)]
<1>1. Shape(r, D) /\ n \in S /\ r \in Trees BY DEF Growing, Shape
<1>2. PICK N \in Nat : N = r.size BY <1>1 DEF Trees
<1>3. s0 \in T
  <2>1. Good(s0, D, H) BY DEF Elsewhere
  <2>2. s0 \in [tree : Trees, node : Keys] BY <1>1, NodeFacts
  <2> HIDE DEF Good, s0
  <2> QED BY <2>1, <2>2
<1>4. ASSUME NEW s, NEW E, NEW G, Good(s, E, G)
      PROVE  \E E2, G2 : /\ Good(Fixup(s), E2, G2)
                         /\ \/ IsBlack(Fixup(s).tree, Fixup(s).tree.parent[Fixup(s).node])
                            \/ E[s.node] \subseteq E2[Fixup(s).node] /\ E[s.node] # E2[Fixup(s).node]
  <2>1. Growing(s.tree, E, G, s.node) BY <1>4
  <2>2. PICK q, m : q = Fixup(s).tree /\ m = Fixup(s).node OBVIOUS
  <2>3. PICK E2, G2 : Growing(q, E2, G2, m) /\ Advances(s.tree, E, s.node, q, E2, m)
    BY <2>1, <2>2, FixupKeeps
  <2>4. /\ E2[q.root] = S /\ Elsewhere(s.tree, q, S)
        /\ \/ IsBlack(q, q.parent[m])
           \/ E[s.node] \subseteq E2[m] /\ E[s.node] # E2[m]
    <3>1. E[s.tree.root] = S BY <1>4
    <3>2. /\ E2[q.root] = E[s.tree.root] /\ Elsewhere(s.tree, q, E[s.tree.root])
          /\ \/ IsBlack(q, q.parent[m])
             \/ E[s.node] \subseteq E2[m] /\ E[s.node] # E2[m]
      BY <2>3 DEF Advances
    <3> QED BY <3>1, <3>2
  <2>5. Elsewhere(r, q, S) BY <1>4, <2>4, ElsewhereFacts
  <2> QED BY <2>2, <2>3, <2>4, <2>5
<1>5. F \in [T -> T]
  <2> SUFFICES ASSUME NEW s \in T PROVE Fixup(s) \in T OBVIOUS
  <2>1. PICK E, G : Good(s, E, G) OBVIOUS
  <2>2. PICK E2, G2 : Good(Fixup(s), E2, G2) BY <1>4, <2>1
  <2>3. Fixup(s).tree \in Trees /\ Fixup(s).node \in Keys
    <3>1. PICK q, m : q = Fixup(s).tree /\ m = Fixup(s).node OBVIOUS
    <3>2. Growing(q, E2, G2, m) BY <2>2, <3>1
    <3>3. Shape(q, E2) /\ m \in E2[q.root] BY <3>2 DEF Growing
    <3>4. q \in Trees /\ m \in Keys BY <3>3, NodeFacts DEF Shape
    <3> QED BY <3>1, <3>4
  <2>4. Fixup(s) \in [tree : Trees, node : Keys]
    <3>1. s \in [tree : Trees, node : Keys] OBVIOUS
    <3>2. PICK f : f = Fixup(s) OBVIOUS
    <3>3. \/ f = s
          \/ \E q, m : f = [tree |-> q, node |-> m]
      BY <3>2, Zenon DEF Fixup
    <3> HIDE DEF T, Good
    <3> QED BY <2>3, <3>1, <3>2, <3>3
  <2> HIDE DEF Good
  <2> QED BY <2>2, <2>4
<1> DEFINE Defines(rounds) ==
             rounds = [i \in 0 .. r.size |-> IF i = 0 THEN [tree |-> r, node |-> n]
                                             ELSE Fixup(rounds[i - 1])]
<1>6. \E rounds : Defines(rounds)
  <2> HIDE DEF T, s0, F
  <2>0. PICK T0, z, F0 : T0 = T /\ z = s0 /\ F0 = F OBVIOUS
  <2>1. PICK f : f \in [0 .. N -> T] /\ f = [i \in 0 .. N |-> IF i = 0 THEN s0 ELSE F[f[i - 1]]]
    <3>1. z \in T0 /\ F0 \in [T0 -> T0] BY <1>3, <1>5, <2>0
    <3>2. PICK f : Runs(f, N, T0, z, F0) BY <3>1, Rounds
    <3> QED BY <2>0, <3>2 DEF Runs
  <2>2. ASSUME NEW i \in 0 .. N
        PROVE  f[i] = IF i = 0 THEN s0 ELSE Fixup(f[i - 1])
    <3>1. CASE i = 0 BY <2>1, <3>1
    <3>2. CASE i # 0
      <4>1. i - 1 \in 0 .. N BY <3>2
      <4>2. f[i - 1] \in T /\ f[i] = F[f[i - 1]] BY <2>1, <3>2, <4>1
      <4> QED BY <3>2, <4>2 DEF F
    <3> QED BY <3>1, <3>2
  <2>3. f = [i \in 0 .. N |-> IF i = 0 THEN s0 ELSE Fixup(f[i - 1])] BY <2>1, <2>2
  <2>4. Defines(f) BY <1>2, <2>3 DEF s0
  <2> QED BY <2>4
<1> DEFINE rounds == CHOOSE rounds : Defines(rounds)
<1>7. Defines(rounds) BY <1>6
<1>8. Balanced(r, n) = Coloured(rounds[r.size].tree, rounds[r.size].tree.root, TRUE)
  BY DEF Balanced
<1> HIDE DEF rounds
<1>9. rounds[0] = s0 /\ \A i \in 1 .. N : rounds[i] = Fixup(rounds[i - 1])
  <2>1. 0 \in 0 .. r.size BY <1>2
  <2>2. rounds[0] = s0 BY <1>7, <2>1
  <2>3. ASSUME NEW i \in 1 .. N PROVE rounds[i] = Fixup(rounds[i - 1])
    <3>1. i \in 0 .. r.size /\ i # 0 BY <1>2
    <3> QED BY <1>7, <3>1
  <2> QED BY <2>2, <2>3
<1> DEFINE Far(s, i) == \E E, G : /\ Good(s, E, G)
                                  /\ \/ IsBlack(s.tree, s.tree.parent[s.node])
                                     \/ Cardinality(E[s.node]) >= i + 1
           P == {i \in 0 .. N : Far(rounds[i], i)}
<1>10. IsFiniteSet(S) BY <1>1 DEF Shape
<1>11. ASSUME NEW s, NEW E, NEW G, Good(s, E, G)
       PROVE  IsFiniteSet(E[s.node]) /\ E[s.node] \subseteq S /\ s.node \in E[s.node]
  <2>1. Shape(s.tree, E) /\ s.node \in E[s.tree.root] /\ E[s.tree.root] = S BY <1>11 DEF Growing
  <2>2. E[s.node] \subseteq S /\ s.node \in E[s.node] BY <2>1, NodeFacts
  <2> QED BY <1>10, <2>2, FS_Subset
<1>12. 0 \in P
  <2>1. Good(s0, D, H) BY DEF Elsewhere
  <2>2. IsFiniteSet(D[n]) /\ n \in D[n]
    <3>1. PICK s : s = s0 OBVIOUS
    <3>2. Good(s, D, H) BY <2>1, <3>1
    <3>3. s.node = n BY <3>1
    <3> HIDE DEF Good
    <3> QED BY <1>11, <3>2, <3>3
  <2>3. Cardinality(D[n]) \in Nat /\ Cardinality(D[n]) # 0
    BY <2>2, FS_CardinalityType, FS_EmptySet
  <2>4. Cardinality(D[s0.node]) >= 0 + 1 BY <2>3
  <2>5. Far(rounds[0], 0) BY <1>9, <2>1, <2>4
  <2> HIDE DEF Far
  <2> QED BY <2>5
<1>13. ASSUME NEW i \in 1 .. N, i - 1 \in P PROVE i \in P
  <2>1. PICK s : s = rounds[i - 1] OBVIOUS
  <2>2. PICK E, G : /\ Good(s, E, G)
                    /\ \/ IsBlack(s.tree, s.tree.parent[s.node])
                       \/ Cardinality(E[s.node]) >= (i - 1) + 1
    BY <1>13, <2>1
  <2>3. PICK v : v = Fixup(s) /\ rounds[i] = v BY <1>9, <2>1
  <2> HIDE DEF Good
  <2>4. CASE IsBlack(s.tree, s.tree.parent[s.node])
    <3>1. v = s BY <2>3, <2>4 DEF Fixup
    <3>2. Far(v, i) BY <2>2, <2>4, <3>1
    <3> HIDE DEF Far
    <3> QED BY <2>3, <3>2
  <2>5. CASE Cardinality(E[s.node]) >= (i - 1) + 1
    <3>1. PICK E2, G2 : /\ Good(v, E2, G2)
                        /\ \/ IsBlack(v.tree, v.tree.parent[v.node])
                           \/ E[s.node] \subseteq E2[v.node] /\ E[s.node] # E2[v.node]
      <4>1. Good(s, E, G) BY <2>2
      <4>2. \E E2, G2 : /\ Good(Fixup(s), E2, G2)
                        /\ \/ IsBlack(Fixup(s).tree, Fixup(s).tree.parent[Fixup(s).node])
                           \/ /\ E[s.node] \subseteq E2[Fixup(s).node]
                              /\ E[s.node] # E2[Fixup(s).node]
        BY <1>4, <4>1, Zenon
      <4> QED BY <2>3, <4>2, Zenon
    <3>2. CASE IsBlack(v.tree, v.tree.parent[v.node])
      <4>1. Far(v, i) BY <3>1, <3>2
      <4> HIDE DEF Far
      <4> QED BY <2>3, <4>1
    <3>3. CASE E[s.node] \subseteq E2[v.node] /\ E[s.node] # E2[v.node]
      <4>1. IsFiniteSet(E2[v.node]) /\ IsFiniteSet(E[s.node]) BY <1>11, <2>2, <3>1
      <4>2. Cardinality(E[s.node]) < Cardinality(E2[v.node])
        BY <3>3, <4>1, FS_Subset, FS_CardinalityType
      <4>3. Cardinality(E[s.node]) \in Nat /\ Cardinality(E2[v.node]) \in Nat
        BY <4>1, FS_CardinalityType
      <4>4. Cardinality(E2[v.node]) >= i + 1 BY <2>5, <4>2, <4>3
      <4>5. Far(v, i) BY <3>1, <4>4
      <4> HIDE DEF Far
      <4> QED BY <2>3, <4>5
    <3> QED BY <3>1, <3>2, <3>3
  <2> QED BY <2>2, <2>4, <2>5
<1>14. \A i \in 1 .. N : i - 1 \in P => i \in P BY <1>13
<1> HIDE DEF P
<1>15. \A i \in 0 .. N : i \in P BY <1>12, <1>14, UpTo
<1>16. Far(rounds[N], N) BY <1>15 DEF P
<1>17. PICK s : s = rounds[N] OBVIOUS
<1>18. PICK E, G : /\ Good(s, E, G)
                   /\ \/ IsBlack(s.tree, s.tree.parent[s.node])
                      \/ Cardinality(E[s.node]) >= N + 1
  BY <1>16, <1>17
<1>19. IsBlack(s.tree, s.tree.parent[s.node])
  <2> SUFFICES ASSUME Cardinality(E[s.node]) >= N + 1
               PROVE  IsBlack(s.tree, s.tree.parent[s.node])
    BY <1>18
  <2>1. E[s.node] \subseteq S /\ IsFiniteSet(E[s.node]) BY <1>11, <1>18
  <2>2. Cardinality(E[s.node]) \in Nat /\ Cardinality(S) \in Nat
    BY <1>10, <2>1, FS_CardinalityType
  <2>3. ~(Cardinality(E[s.node]) < Cardinality(S))
    <3>1. Cardinality(S) = N + 1 BY <1>2
    <3> QED BY <1>2, <2>2, <3>1
  <2>4. E[s.node] = S
    <3>0. PICK U : U = E[s.node] OBVIOUS
    <3>1. Cardinality(U) <= Cardinality(S) /\ (Cardinality(S) = Cardinality(U) => S = U)
      BY <1>10, <2>1, <3>0, FS_Subset
    <3> QED BY <2>2, <2>3, <3>0, <3>1
  <2>5. PICK q, m : q = s.tree /\ m = s.node OBVIOUS
  <2>6. Growing(q, E, G, m) /\ E[q.root] = S BY <1>18, <2>5
  <2>7. Shape(q, E) /\ m \in E[q.root] BY <2>6 DEF Growing
  <2>8. q.parent[m] = NULL BY <2>4, <2>5, <2>6, <2>7, AllUnder
  <2> QED BY <2>5, <2>8 DEF IsBlack
<1>20. PICK w, m, q : w = s.tree /\ m = s.node /\ q = Coloured(w, w.root, TRUE) OBVIOUS
<1>21. Growing(w, E, G, m) /\ E[w.root] = S /\ Elsewhere(r, w, S) /\ IsBlack(w, w.parent[m])
  <2>1. Growing(s.tree, E, G, s.node) /\ E[s.tree.root] = S /\ Elsewhere(r, s.tree, S)
    BY <1>18
  <2>2. w = s.tree /\ m = s.node BY <1>20
  <2>3. IsBlack(w, w.parent[m]) BY <1>19, <2>2
  <2>4. Growing(w, E, G, m) BY <2>1, <2>2
  <2>5. E[w.root] = S /\ Elsewhere(r, w, S) BY <2>1, <2>2
  <2> QED BY <2>3, <2>4, <2>5
<1>22. PICK G2 : RedBlackTree(q, E, G2) /\ q.root = w.root /\ Elsewhere(w, q, S)
  <2>1. w.root # NULL
    <3>1. Shape(w, E) /\ m \in E[w.root] BY <1>21 DEF Growing
    <3> QED BY <3>1 DEF Shape
  <2>2. q = [w EXCEPT !.black[w.root] = TRUE] BY <1>20, <2>1 DEF Coloured
  <2>3. /\ \E G2 : RedBlackTree(q, E, G2)
        /\ q.root = w.root /\ Elsewhere(w, q, E[w.root])
    BY <1>21, <2>2, BlackRoot
  <2> QED BY <1>21, <2>3
<1>23. Elsewhere(r, q, S) BY <1>21, <1>22, ElsewhereFacts
<1>24. Balanced(r, n) = q BY <1>2, <1>8, <1>17, <1>20
<1> QED BY <1>21, <1>22, <1>23, <1>24
-----------------------------------------------------------------------------
(* Searches.                                                               *)

\* A rank that falls from each node to those its value is made from.
Falls(N, rank, L, R) ==
  /\ N \in Nat /\ rank \in [Pointers -> 0 .. N]
  /\ L \in [Keys -> Pointers] /\ R \in [Keys -> Pointers]
  /\ \A n \in Keys : L[n] # NULL => rank[L[n]] < rank[n]
  /\ \A n \in Keys : R[n] # NULL => rank[R[n]] < rank[n]

\* A function of the nodes made from its values at two others.
Made(f, L, R, V, z, G) ==
  /\ f \in [Pointers -> V] /\ f[NULL] = z
  /\ \A n \in Keys : f[n] = G[n][f[L[n]]][f[R[n]]]

\* A definition by recursion to nodes of lower rank defines a function.
LEMMA Descent ==
  ASSUME NEW N, NEW rank, NEW L, NEW R, Falls(N, rank, L, R),
         NEW V, NEW z \in V, NEW G \in [Keys -> [V -> [V -> V]]]
  PROVE  \E f : Made(f, L, R, V, z, G)
<1>1. /\ N \in Nat /\ rank \in [Pointers -> 0 .. N]
      /\ L \in [Keys -> Pointers] /\ R \in [Keys -> Pointers]
      /\ \A n \in Keys : L[n] # NULL => rank[L[n]] < rank[n]
      /\ \A n \in Keys : R[n] # NULL => rank[R[n]] < rank[n]
  BY DEF Falls
<1> DEFINE T == [Pointers -> V]
           Step(f) == [n \in Pointers |-> IF n = NULL THEN z ELSE G[n][f[L[n]]][f[R[n]]]]
<1>2. ASSUME NEW f \in T, NEW n \in Keys PROVE G[n][f[L[n]]][f[R[n]]] \in V
  <2>1. f[L[n]] \in V /\ f[R[n]] \in V BY <1>1
  <2> QED BY <2>1
<1>3. ASSUME NEW f \in T PROVE Step(f) \in T
  <2> SUFFICES ASSUME NEW n \in Pointers, n # NULL PROVE G[n][f[L[n]]][f[R[n]]] \in V OBVIOUS
  <2>1. n \in Keys BY DEF Pointers
  <2> QED BY <1>2, <2>1
<1>4. PICK T0 : T0 = T OBVIOUS
<1>5. PICK s0 : s0 = [n \in Pointers |-> z] OBVIOUS
<1>6. PICK F : F = [f \in T |-> Step(f)] OBVIOUS
<1>7. s0 \in T0 /\ F \in [T0 -> T0]
  <2> HIDE DEF Step
  <2> QED BY <1>3, <1>4, <1>5, <1>6
<1>8. N + 2 \in Nat BY <1>1
<1>9. PICK g : Runs(g, N + 2, T0, s0, F) BY <1>7, <1>8, Rounds
<1>10. /\ g \in [0 .. N + 2 -> T]
       /\ g = [i \in 0 .. N + 2 |-> IF i = 0 THEN s0 ELSE F[g[i - 1]]]
  BY <1>4, <1>9 DEF Runs
<1>11. ASSUME NEW i \in 1 .. N + 2
       PROVE  g[i - 1] \in T /\ g[i] = Step(g[i - 1])
  <2>1. i \in 0 .. N + 2 /\ i # 0 /\ i - 1 \in 0 .. N + 2 BY <1>1
  <2>2. g[i] = F[g[i - 1]] BY <1>10, <2>1
  <2>3. g[i - 1] \in T BY <1>10, <2>1
  <2> HIDE DEF Step
  <2> QED BY <1>6, <2>2, <2>3
<1>12. ASSUME NEW i \in 1 .. N + 2
       PROVE  /\ g[i][NULL] = z
              /\ \A n \in Keys : g[i][n] = G[n][g[i - 1][L[n]]][g[i - 1][R[n]]]
  <2>1. PICK f, h : f = g[i - 1] /\ h = g[i] BY Zenon
  <2>2. h = Step(f) BY <1>11, <2>1
  <2>3. h[NULL] = z BY <2>2, NullIsNoKey
  <2>4. ASSUME NEW n \in Keys PROVE h[n] = G[n][f[L[n]]][f[R[n]]]
    <3>1. n \in Pointers /\ n # NULL BY NullIsNoKey
    <3> QED BY <2>2, <3>1
  <2> QED BY <2>1, <2>3, <2>4
<1> DEFINE Same(i) == \A n \in Pointers : n = NULL \/ rank[n] < i => g[i][n] = g[i + 1][n]
           P == {i \in 0 .. N + 1 : Same(i)}
<1>13. 0 \in P
  <2> SUFFICES ASSUME NEW n \in Pointers, n = NULL \/ rank[n] < 0
               PROVE  g[0][n] = g[0 + 1][n]
    BY <1>1
  <2>1. n = NULL BY <1>1
  <2>2. 0 \in 0 .. N + 2 /\ 1 \in 1 .. N + 2 BY <1>1
  <2>3. g[0][NULL] = z BY <1>5, <1>10, <2>2, NullIsNoKey
  <2>4. g[1][NULL] = z BY <1>12, <2>2
  <2> QED BY <2>1, <2>3, <2>4
<1>14. ASSUME NEW i \in 1 .. N + 1, i - 1 \in P PROVE i \in P
  <2> SUFFICES ASSUME NEW n \in Pointers, n = NULL \/ rank[n] < i
               PROVE  g[i][n] = g[i + 1][n]
    BY <1>1
  <2>1. i \in 1 .. N + 2 /\ i + 1 \in 1 .. N + 2 /\ (i + 1) - 1 = i /\ (i - 1) + 1 = i
        /\ i - 1 \in Int
    BY <1>1
  <2>2. CASE n = NULL
    <3>1. g[i][NULL] = z BY <1>12, <2>1
    <3>2. g[i + 1][NULL] = z BY <1>12, <2>1
    <3> QED BY <2>2, <3>1, <3>2
  <2>3. CASE n # NULL
    <3>1. n \in Keys /\ rank[n] < i BY <2>3 DEF Pointers
    <3>2. ASSUME NEW m \in Pointers, m # NULL => rank[m] < rank[n]
          PROVE  g[i - 1][m] = g[i][m]
      <4>1. m = NULL \/ rank[m] < i - 1 BY <1>1, <2>1, <3>1, <3>2
      <4>2. Same(i - 1) BY <1>14
      <4>3. g[i - 1][m] = g[(i - 1) + 1][m] BY <4>1, <4>2
      <4> QED BY <2>1, <4>3
    <3>3. g[i - 1][L[n]] = g[i][L[n]] /\ g[i - 1][R[n]] = g[i][R[n]] BY <1>1, <3>1, <3>2
    <3>4. g[i][n] = G[n][g[i - 1][L[n]]][g[i - 1][R[n]]] BY <1>12, <2>1, <3>1
    <3>5. g[i + 1][n] = G[n][g[(i + 1) - 1][L[n]]][g[(i + 1) - 1][R[n]]] BY <1>12, <2>1, <3>1
    <3> QED BY <2>1, <3>3, <3>4, <3>5
  <2> QED BY <2>2, <2>3
<1>15. \A i \in 1 .. N + 1 : i - 1 \in P => i \in P BY <1>14
<1>16. N + 1 \in Nat BY <1>1
<1> HIDE DEF P
<1>17. \A i \in 0 .. N + 1 : i \in P BY <1>13, <1>15, <1>16, UpTo
<1>18. Same(N + 1) BY <1>1, <1>17 DEF P
<1>19. PICK f : f = g[N + 1] OBVIOUS
<1>20. /\ N + 1 \in 0 .. N + 2 /\ N + 1 \in 1 .. N + 2 /\ N + 2 \in 1 .. N + 2
       /\ (N + 2) - 1 = N + 1 /\ (N + 1) + 1 = N + 2
  BY <1>1
<1>21. f \in T BY <1>10, <1>19, <1>20
<1>22. f[NULL] = z BY <1>12, <1>19, <1>20
<1>23. ASSUME NEW n \in Keys PROVE f[n] = G[n][f[L[n]]][f[R[n]]]
  <2>1. n \in Pointers /\ rank[n] \in 0 .. N BY <1>1, NullIsNoKey
  <2>2. rank[n] < N + 1 BY <1>1, <2>1
  <2>3. g[N + 1][n] = g[(N + 1) + 1][n] BY <1>18, <2>1, <2>2
  <2>4. g[N + 2][n] = G[n][g[(N + 2) - 1][L[n]]][g[(N + 2) - 1][R[n]]] BY <1>12, <1>20
  <2> QED BY <1>19, <1>20, <2>3, <2>4
<1> QED BY <1>21, <1>22, <1>23 DEF Made

\* Nodes that are not in the tree are as xcalloc leaves them.
Blank(r, S) ==
  \A n \in Keys \ S : /\ r.parent[n] = NULL /\ r.black[n] = FALSE
                      /\ \A s \in Sides : r.child[s][n] = NULL

\* A definition by recursion to the children defines a function.
LEMMA Downwards ==
  ASSUME NEW r, NEW D, Shape(r, D), Blank(r, D[r.root]),
         NEW V, NEW z \in V, NEW G \in [Keys -> [V -> [V -> V]]]
  PROVE  \E f : Made(f, r.child["left"], r.child["right"], V, z, G)
<1> DEFINE S == D[r.root]
           rank == [n \in Pointers |-> IF n \in S THEN Cardinality(D[n]) ELSE 0]
<1>1. IsFiniteSet(S) /\ r \in Trees /\ Cardinality(S) \in Nat
  BY FS_CardinalityType DEF Shape
<1>2. PICK N \in Nat : N = Cardinality(S) BY <1>1
<1>3. ASSUME NEW n \in S
      PROVE  IsFiniteSet(D[n]) /\ Cardinality(D[n]) \in 0 .. N
  <2>1. D[n] \subseteq S BY NodeFacts
  <2>2. IsFiniteSet(D[n]) /\ Cardinality(D[n]) <= Cardinality(S) BY <1>1, <2>1, FS_Subset
  <2>3. Cardinality(D[n]) \in Nat BY <2>2, FS_CardinalityType
  <2> QED BY <1>2, <2>2, <2>3
<1>4. rank \in [Pointers -> 0 .. N] BY <1>2, <1>3
<1>5. ASSUME NEW s \in Sides, NEW n \in Keys, r.child[s][n] # NULL
      PROVE  rank[r.child[s][n]] < rank[n]
  <2>1. n \in S BY <1>5 DEF Blank
  <2>2. Fork(r, D, n, s, r.child[s][n], r.child[Other(s)][n]) BY <2>1, ForkFacts
  <2>3. PICK c : c = r.child[s][n] OBVIOUS
  <2>4. c \in S /\ c \in Pointers /\ n \in Pointers /\ D[c] \subseteq D[n] /\ D[c] # D[n]
    BY <1>5, <2>2, <2>3, NullIsNoKey DEF Fork
  <2>5. IsFiniteSet(D[n]) /\ IsFiniteSet(D[c]) BY <1>3, <2>1, <2>4
  <2>6. Cardinality(D[n]) \in Nat /\ Cardinality(D[c]) \in Nat BY <2>5, FS_CardinalityType
  <2>7. Cardinality(D[c]) < Cardinality(D[n])
    <3>1. PICK U, W : U = D[c] /\ W = D[n] OBVIOUS
    <3>2. Cardinality(U) <= Cardinality(W) /\ (Cardinality(W) = Cardinality(U) => W = U)
      BY <2>4, <2>5, <3>1, FS_Subset
    <3>3. Cardinality(W) # Cardinality(U) BY <2>4, <3>1, <3>2
    <3>4. Cardinality(U) \in Nat /\ Cardinality(W) \in Nat BY <2>6, <3>1
    <3>5. Cardinality(U) < Cardinality(W)
      <4>1. PICK i, j : i = Cardinality(U) /\ j = Cardinality(W) OBVIOUS
      <4>2. i \in Nat /\ j \in Nat /\ i <= j /\ i # j BY <3>2, <3>3, <3>4, <4>1
      <4>3. i < j BY <4>2
      <4> QED BY <4>1, <4>3
    <3> QED BY <3>1, <3>5
  <2> QED BY <2>1, <2>3, <2>4, <2>7
<1>6. "left" \in Sides /\ "right" \in Sides BY DEF Sides
<1>7. r.child["left"] \in [Keys -> Pointers] /\ r.child["right"] \in [Keys -> Pointers]
  BY <1>1, <1>6 DEF Trees
<1> HIDE DEF rank
<1>8. PICK k, L, R : k = rank /\ L = r.child["left"] /\ R = r.child["right"] OBVIOUS
<1>9. Falls(N, k, L, R) BY <1>4, <1>5, <1>6, <1>7, <1>8 DEF Falls
<1>10. \E f : Made(f, L, R, V, z, G) BY <1>9, Descent
<1> QED BY <1>8, <1>10

\* W are the nodes on the way from n down to k.
Way(r, D, k, n, W) ==
  /\ n \in W /\ W \subseteq D[n]
  /\ k \in W <=> k \in D[n]
  /\ \A m \in D[n], s \in Sides : r.child[s][m] \in W => m \in W /\ m # k /\ s = Towards(k, m)
  /\ \A m \in W : m # k /\ r.child[Towards(k, m)][m] # NULL => r.child[Towards(k, m)][m] \in W
  /\ k \notin D[n] => \E p \in W : \A m \in W : r.child[Towards(k, m)][m] = NULL <=> m = p

\* The way to a key goes to the side the key is on.
LEMMA TowardsFacts ==
  ASSUME NEW k \in Keys, NEW n \in Keys
  PROVE  Towards(k, n) \in Sides /\ (n # k => Before(Towards(k, n), k, n))
<1>1. Keys \subseteq Nat BY RBTreeAssumption
<1> QED BY <1>1 DEF Towards, Sides, Before

\* A way from a node is the node and a way from the child towards the key.
LEMMA WayStep ==
  ASSUME NEW r, NEW D, Shape(r, D), NEW k \in Keys, NEW n \in D[r.root], NEW W, NEW c, NEW X,
         c = r.child[Towards(k, n)][n],
         n # k /\ c # NULL => Way(r, D, k, c, X) /\ W = {n} \cup X,
         n = k \/ c = NULL => W = {n}
  PROVE  Way(r, D, k, n, W)
<1> DEFINE z == Towards(k, n)
<1>1. n \in Keys /\ n # NULL BY NodeFacts, NullIsNoKey
<1>2. z \in Sides /\ (n # k => Before(z, k, n)) BY <1>1, TowardsFacts
<1> HIDE DEF z
<1>3. PICK b : b = r.child[Other(z)][n] OBVIOUS
<1>4. Fork(r, D, n, z, c, b) BY <1>2, <1>3, ForkFacts DEF z
<1>5. /\ n \in D[n] /\ D[n] = {n} \cup D[c] \cup D[b] /\ n \notin D[c] /\ n \notin D[b]
      /\ D[c] \cap D[b] = {} /\ D[n] \subseteq D[r.root]
      /\ c # NULL => c \in D[c] /\ c \in D[r.root] /\ c \in Keys /\ r.parent[c] = n
      /\ b # NULL => b \in D[b] /\ b \in D[r.root]
      /\ \A m \in D[b] : Before(Other(z), m, n)
      /\ D[b] \subseteq Keys
  BY <1>4 DEF Fork
<1>6. n # k => k \notin D[b]
  <2> SUFFICES ASSUME n # k, k \in D[b] PROVE FALSE OBVIOUS
  <2>1. Before(z, k, n) /\ Before(Other(z), k, n) BY <1>2, <1>5
  <2> QED BY <1>1, <1>2, <2>1, OrderFacts
<1>7. ASSUME NEW m \in D[n], NEW s \in Sides PROVE r.child[s][m] # n
  <2>1. m \in D[r.root] BY <1>5
  <2>2. Fork(r, D, m, s, r.child[s][m], r.child[Other(s)][m]) BY <2>1, ForkFacts
  <2>3. m \notin D[r.child[s][m]] /\ D[r.child[s][m]] \subseteq D[m] BY <2>2 DEF Fork
  <2>4. D[m] \subseteq D[n] BY <1>5, UnderUnder
  <2> QED BY <2>3, <2>4
<1>8. CASE n = k \/ c = NULL
  <2>1. W = {n} BY <1>8
  <2>2. n # k => D[c] = {} BY <1>8 DEF Shape
  <2>3. k \in W <=> k \in D[n] BY <1>5, <1>6, <2>1, <2>2
  <2>4. k \notin D[n] => c = NULL BY <1>5, <1>8
  <2>5. k \notin D[n] => \E p \in W : \A m \in W : r.child[Towards(k, m)][m] = NULL <=> m = p
    BY <2>1, <2>4
  <2>6. \A m \in W : m # k /\ r.child[Towards(k, m)][m] # NULL => r.child[Towards(k, m)][m] \in W
    BY <1>8, <2>1
  <2>7. \A m \in D[n], s \in Sides : r.child[s][m] \notin W BY <1>7, <2>1
  <2> QED BY <1>5, <2>1, <2>3, <2>5, <2>6, <2>7 DEF Way
<1>9. CASE n # k /\ c # NULL
  <2>1. W = {n} \cup X /\ Way(r, D, k, c, X) BY <1>9
  <2>2. /\ c \in X /\ X \subseteq D[c] /\ (k \in X <=> k \in D[c])
        /\ \A m \in D[c], s \in Sides : r.child[s][m] \in X => m \in X /\ m # k /\ s = Towards(k, m)
        /\ \A m \in X : m # k /\ r.child[Towards(k, m)][m] # NULL => r.child[Towards(k, m)][m] \in X
        /\ k \notin D[c] => \E p \in X : \A m \in X : r.child[Towards(k, m)][m] = NULL <=> m = p
    BY <2>1 DEF Way
  <2>3. n \in W /\ W \subseteq D[n] BY <1>5, <2>1, <2>2
  <2>4. k \in W <=> k \in D[n] BY <1>5, <1>6, <1>9, <2>1, <2>2
  <2>5. ASSUME NEW m \in D[n], NEW s \in Sides, r.child[s][m] \in W
        PROVE  m \in W /\ m # k /\ s = Towards(k, m)
    <3>0. PICK e : e = r.child[s][m] OBVIOUS
    <3>1. e \in X BY <1>7, <2>1, <2>5, <3>0
    <3>2. m \in D[r.root] BY <1>5
    <3>3. Fork(r, D, m, s, e, r.child[Other(s)][m]) BY <3>0, <3>2, ForkFacts
    <3>4. CASE m = n
      <4>1. e \in D[c] BY <2>2, <3>1
      <4>2. e # b
        <5>1. e = b => b = NULL \/ b \in D[b] BY <1>5
        <5>2. NULL \notin D[c] BY <1>4, NullIsNoKey DEF Fork
        <5> QED BY <1>5, <4>1, <5>1, <5>2
      <4>3. s = z BY <1>2, <1>3, <3>0, <3>4, <4>2, SideFacts
      <4> QED BY <1>9, <2>1, <3>4, <4>3 DEF z
    <3>5. CASE m \in D[c] BY <2>1, <2>2, <3>0, <3>1, <3>5
    <3>6. CASE m \in D[b]
      <4>1. D[m] \subseteq D[b] BY <1>5, <3>6, UnderUnder DEF Shape
      <4>2. D[e] \subseteq D[m] /\ (e # NULL => e \in D[e]) BY <3>3 DEF Fork
      <4>3. e \in D[c] /\ D[c] \subseteq Keys BY <1>4, <2>2, <3>1 DEF Fork
      <4>4. e # NULL BY <4>3, NullIsNoKey
      <4> QED BY <1>5, <4>1, <4>2, <4>3, <4>4
    <3> QED BY <1>5, <3>4, <3>5, <3>6
  <2>6. \A m \in W : m # k /\ r.child[Towards(k, m)][m] # NULL => r.child[Towards(k, m)][m] \in W
    BY <2>1, <2>2
  <2>7. k \notin D[n] => \E p \in W : \A m \in W : r.child[Towards(k, m)][m] = NULL <=> m = p
    <3> SUFFICES ASSUME k \notin D[n]
                 PROVE  \E p \in W : \A m \in W : r.child[Towards(k, m)][m] = NULL <=> m = p
      OBVIOUS
    <3>1. PICK p \in X : \A m \in X : r.child[Towards(k, m)][m] = NULL <=> m = p
      BY <1>5, <2>2
    <3>2. n # p BY <1>5, <2>2
    <3>3. \A m \in W : r.child[Towards(k, m)][m] = NULL <=> m = p BY <1>9, <2>1, <3>1, <3>2
    <3> QED BY <2>1, <3>3
  <2> QED BY <2>3, <2>4, <2>5, <2>6, <2>7 DEF Way
<1> QED BY <1>8, <1>9

\* Path leads from the root towards the key.
LEMMA PathIsAWay ==
  ASSUME NEW r, NEW D, Shape(r, D), Blank(r, D[r.root]), NEW k \in Keys
  PROVE  /\ r.root # NULL => Way(r, D, k, r.root, Path(r, k))
         /\ r.root = NULL => Path(r, k) = {}
<1> DEFINE V == SUBSET Keys
           Next1(n, a, b) == {n} \cup (IF n = k THEN {} ELSE IF k > n THEN b ELSE a)
           G == [n \in Keys |-> [a \in V |-> [b \in V |-> Next1(n, a, b)]]]
           Defines(f) ==
             f = [n \in Pointers |->
                    IF n = NULL THEN {}
                    ELSE {n} \cup (IF n = k THEN {} ELSE f[r.child[Towards(k, n)][n]])]
<1>0. r \in Trees BY DEF Shape
<1>1. \E f : Defines(f) /\ f \in [Pointers -> V] /\ f[NULL] = {}
                        /\ \A n \in Keys : f[n] = {n} \cup (IF n = k THEN {}
                                                            ELSE f[r.child[Towards(k, n)][n]])
  <2>1. PICK V0, z, G0 : V0 = V /\ z = {} /\ G0 = G OBVIOUS
  <2>2. \A n \in Keys, a \in V, b \in V : Next1(n, a, b) \in V OBVIOUS
  <2>3. G0 \in [Keys -> [V0 -> [V0 -> V0]]] /\ z \in V0
    <3> HIDE DEF V, Next1
    <3>1. G \in [Keys -> [V -> [V -> V]]] BY <2>2
    <3>2. {} \in V BY DEF V
    <3> QED BY <2>1, <3>1, <3>2
  <2>4. PICK f : Made(f, r.child["left"], r.child["right"], V0, z, G0) BY <2>3, Downwards, Zenon
  <2>5. /\ f \in [Pointers -> V] /\ f[NULL] = {}
        /\ \A n \in Keys : f[n] = G[n][f[r.child["left"][n]]][f[r.child["right"][n]]]
    BY <2>1, <2>4 DEF Made
  <2>6. ASSUME NEW n \in Keys
        PROVE  f[n] = {n} \cup (IF n = k THEN {} ELSE f[r.child[Towards(k, n)][n]])
    <3>1. PICK a, b : a = f[r.child["left"][n]] /\ b = f[r.child["right"][n]] OBVIOUS
    <3>2. r.child["left"][n] \in Pointers /\ r.child["right"][n] \in Pointers
      BY <1>0 DEF Trees, Sides
    <3>3. a \in V /\ b \in V BY <2>5, <3>1, <3>2, Zenon
    <3>4. f[n] = G[n][a][b] BY <2>5, <3>1
    <3> HIDE DEF V
    <3>5. f[n] = Next1(n, a, b)
      <4> HIDE DEF Next1
      <4> QED BY <3>3, <3>4
    <3> QED BY <3>1, <3>5 DEF Towards
  <2>7. \A n \in Pointers : f[n] = IF n = NULL THEN {}
           ELSE {n} \cup (IF n = k THEN {} ELSE f[r.child[Towards(k, n)][n]])
    BY <2>5, <2>6 DEF Pointers
  <2>8. f = [n \in Pointers |-> f[n]] BY <2>5
  <2>9. Defines(f) BY <2>7, <2>8
  <2> HIDE DEF Defines
  <2> QED BY <2>5, <2>6, <2>9
<1> DEFINE f == CHOOSE f : Defines(f)
<1>2. Defines(f)
  <2> HIDE DEF Defines
  <2> QED BY <1>1
<1>3. Path(r, k) = f[r.root] BY Zenon DEF Path
<1> HIDE DEF f
<1>4. f[NULL] = {} /\ \A n \in Keys : f[n] = {n} \cup (IF n = k THEN {}
                                                       ELSE f[r.child[Towards(k, n)][n]])
  <2>1. f[NULL] = {} BY <1>2, NullIsNoKey
  <2>2. \A n \in Keys : n \in Pointers /\ n # NULL BY NullIsNoKey
  <2> QED BY <1>2, <2>1, <2>2
<1> HIDE DEF Defines
<1> DEFINE P == {n \in D[r.root] : Way(r, D, k, n, f[n])}
<1>5. ASSUME NEW n \in D[r.root],
             \A s \in Sides : r.child[s][n] # NULL => r.child[s][n] \in P
      PROVE  n \in P
  <2>1. n \in Keys BY NodeFacts
  <2>2. PICK c : c = r.child[Towards(k, n)][n] OBVIOUS
  <2>3. Towards(k, n) \in Sides BY <2>1, TowardsFacts
  <2>4. PICK W, X : W = f[n] /\ X = f[c] OBVIOUS
  <2>5. n = k \/ c = NULL => W = {n} BY <1>4, <2>1, <2>2, <2>4
  <2>6. n # k /\ c # NULL => Way(r, D, k, c, X) /\ W = {n} \cup X
    BY <1>4, <1>5, <2>1, <2>2, <2>3, <2>4
  <2>7. Way(r, D, k, n, W) BY <2>2, <2>5, <2>6, WayStep
  <2> QED BY <2>4, <2>7
<1> HIDE DEF P
<1>6. D[r.root] \subseteq P BY <1>5, FromTheLeaves
<1>7. r.root # NULL => Way(r, D, k, r.root, f[r.root]) BY <1>6 DEF P, Shape
<1> QED BY <1>3, <1>4, <1>7

\* The way to a key that is not there ends at one node, whose place on that side is free.
LEMMA LastOfPath ==
  ASSUME NEW r, NEW D, Shape(r, D), Blank(r, D[r.root]), NEW k \in Keys, k \notin D[r.root],
         r.root # NULL
  PROVE  /\ LastOf(r, k) \in Path(r, k)
         /\ \A m \in Path(r, k) : r.child[Towards(k, m)][m] = NULL <=> m = LastOf(r, k)
<1>1. PICK W : W = Path(r, k) OBVIOUS
<1>2. Way(r, D, k, r.root, W) BY <1>1, PathIsAWay
<1>3. PICK p \in W : \A m \in W : r.child[Towards(k, m)][m] = NULL <=> m = p BY <1>2 DEF Way
<1>4. LastOf(r, k) = CHOOSE n \in W : r.child[Towards(k, n)][n] = NULL BY <1>1 DEF LastOf
<1>5. LastOf(r, k) = p BY <1>3, <1>4
<1> QED BY <1>1, <1>3, <1>5

-----------------------------------------------------------------------------
(* Insertion.                                                              *)

\* The tree in use, with its size.
Sound(r, D, H) ==
  RedBlackTree(r, D, H) /\ Blank(r, D[r.root]) /\ r.size = Cardinality(D[r.root])

\* k hangs under p on the side z.
Hangs(r, q, k, p, z) ==
  /\ q \in Trees /\ q.root = r.root /\ q.size = r.size /\ q.black = r.black
  /\ \A m \in Keys, s \in Sides :
       q.child[s][m] = IF m = p /\ s = z THEN k ELSE r.child[s][m]
  /\ \A m \in Keys : q.parent[m] = IF m = k THEN p ELSE r.parent[m]

\* What Hung writes.
LEMMA HungFields ==
  ASSUME NEW r \in Trees, NEW k \in Keys, NEW p \in Keys, p # k, NEW z \in Sides,
         NEW q, q = [r EXCEPT !.child[z][p] = k, !.parent[k] = p]
  PROVE  Hangs(r, q, k, p, z)
BY DEF Trees, Pointers, Hangs

HungInto(r, D, q, k, p, z) ==
  /\ p \in D[r.root] /\ r.child[z][p] = NULL /\ z \in Sides
  /\ \E E : Shape(q, E) /\ E[q.root] = D[r.root] \cup {k}

\* The new leaf is in order: it is on the right side of each node above it.
LEMMA HungShape ==
  ASSUME NEW r, NEW D, Shape(r, D), Blank(r, D[r.root]), NEW k \in Keys, k \notin D[r.root],
         r.root # NULL, NEW p, p = LastOf(r, k), NEW z, z = Towards(k, p),
         NEW q, Hangs(r, q, k, p, z)
  PROVE  HungInto(r, D, q, k, p, z)
<1> DEFINE S == D[r.root]
<1>1. /\ r \in Trees /\ D \in [Pointers -> SUBSET Keys] /\ D[NULL] = {} /\ IsFiniteSet(S)
      /\ r.root \in S
  BY DEF Shape
<1>2. PICK W : W = Path(r, k) OBVIOUS
<1>3. p \in W /\ \A m \in W : r.child[Towards(k, m)][m] = NULL <=> m = p
  BY <1>2, LastOfPath
<1>4. /\ r.root \in W /\ W \subseteq S /\ k \notin W
      /\ \A m \in S, s \in Sides : r.child[s][m] \in W => m \in W /\ m # k /\ s = Towards(k, m)
      /\ \A m \in W : m # k /\ r.child[Towards(k, m)][m] # NULL => r.child[Towards(k, m)][m] \in W
  <2>1. Way(r, D, k, r.root, W) BY <1>2, PathIsAWay
  <2> QED BY <2>1 DEF Way
<1>5. S \subseteq Keys BY NodeFacts
<1>6. p \in S /\ p \in Keys /\ p # k /\ z \in Sides /\ r.child[z][p] = NULL /\ Before(z, k, p)
  <2>1. p \in S /\ p \in Keys /\ p # k BY <1>3, <1>4, <1>5
  <2>2. z \in Sides /\ Before(z, k, p) BY <2>1, TowardsFacts
  <2> QED BY <1>3, <2>1, <2>2
<1>7. /\ q \in Trees /\ q.root = r.root
      /\ \A m \in Keys, s \in Sides :
           q.child[s][m] = IF m = p /\ s = z THEN k ELSE r.child[s][m]
      /\ \A m \in Keys : q.parent[m] = IF m = k THEN p ELSE r.parent[m]
  BY DEF Hangs
<1> DEFINE E == [m \in Pointers |-> IF m = k THEN {k} ELSE IF m \in W THEN D[m] \cup {k} ELSE D[m]]
<1>8. k \in Pointers /\ k # NULL /\ NULL \notin W /\ NULL \in Pointers
  BY <1>4, <1>5, NullIsNoKey
<1>9. /\ E \in [Pointers -> SUBSET Keys] /\ E[k] = {k} /\ E[NULL] = {}
      /\ \A m \in Pointers : m \in W => E[m] = D[m] \cup {k}
      /\ \A m \in Pointers : m \notin W /\ m # k => E[m] = D[m]
  BY <1>1, <1>4, <1>8
<1> HIDE DEF E
<1>10. E[q.root] = S \cup {k} /\ W \subseteq Pointers /\ S \subseteq Pointers
  BY <1>1, <1>4, <1>5, <1>7, <1>9, NullIsNoKey
<1>11. Node(q, E, k)
  <2>1. \A s \in Sides : q.child[s][k] = NULL BY <1>6, <1>7 DEF Blank
  <2>2. k # q.root BY <1>1, <1>7
  <2>3. q.parent[k] = p /\ q.child[z][p] = k BY <1>6, <1>7
  <2>4. Up(q, E, k) BY <1>6, <1>10, <2>2, <2>3 DEF Up
  <2>5. Other(z) \in Sides BY <1>6, SideFacts
  <2>6. Down(q, E, z, k) /\ Down(q, E, Other(z), k) BY <1>6, <1>9, <2>1, <2>5 DEF Down
  <2>7. E[k] = {k} \cup E[q.child[z][k]] \cup E[q.child[Other(z)][k]] BY <1>6, <1>9, <2>1, <2>5
  <2>8. E[k] \subseteq E[q.root] BY <1>9, <1>10
  <2> QED BY <1>6, <2>4, <2>6, <2>7, <2>8, MakeNode
<1>12. ASSUME NEW m \in S PROVE Node(q, E, m)
  <2>1. m \in Keys /\ m \in Pointers /\ m # k /\ m # NULL BY <1>5, NullIsNoKey
  <2>2. PICK y : y = Towards(k, m) OBVIOUS
  <2>3. y \in Sides /\ Before(y, k, m) BY <2>1, <2>2, TowardsFacts
  <2>4. PICK a, b : a = r.child[y][m] /\ b = r.child[Other(y)][m] OBVIOUS
  <2>5. Fork(r, D, m, y, a, b) BY <2>3, <2>4, ForkFacts
  <2>6. /\ D[m] = {m} \cup D[a] \cup D[b] /\ D[m] \subseteq S
        /\ a \in Pointers /\ b \in Pointers
        /\ a # NULL => a \in D[a] /\ a \in S /\ r.parent[a] = m
        /\ b # NULL => b \in D[b] /\ b \in S /\ r.parent[b] = m
        /\ \A l \in D[a] : Before(y, l, m)
        /\ \A l \in D[b] : Before(Other(y), l, m)
    BY <2>5 DEF Fork
  <2>7. Other(y) \in Sides /\ Other(y) # y BY <2>3, SideFacts
  <2>8. a # k /\ b # k /\ b \notin W BY <1>4, <1>8, <2>2, <2>3, <2>4, <2>6, <2>7
  <2>9. E[b] = D[b] BY <1>9, <2>6, <2>8
  <2>10. q.child[Other(y)][m] = b
    <3>1. m = p => Other(y) # z BY <2>2, <2>7
    <3> QED BY <1>7, <2>1, <2>4, <2>7, <3>1
  <2>11. Down(q, E, Other(y), m)
    <3>1. b # NULL => q.parent[b] = m BY <1>5, <1>7, <2>6, <2>8
    <3> QED BY <2>6, <2>9, <2>10, <3>1 DEF Down
  <2>12. Down(q, E, y, m) /\ E[m] = {m} \cup E[q.child[y][m]] \cup E[b]
    <3>1. CASE m = p
      <4>1. q.child[y][m] = k /\ q.parent[k] = m /\ a = NULL BY <1>6, <1>7, <2>2, <2>4, <3>1
      <4>2. Down(q, E, y, m) BY <1>9, <2>3, <4>1 DEF Down
      <4>3. E[m] = D[m] \cup {k} BY <1>3, <1>9, <2>1, <3>1
      <4>4. D[a] = {} BY <1>1, <4>1
      <4> QED BY <1>9, <2>6, <2>9, <4>1, <4>2, <4>3, <4>4
    <3>2. CASE m # p
      <4>1. q.child[y][m] = a BY <1>7, <2>1, <2>3, <2>4, <3>2
      <4>2. a # NULL => q.parent[a] = m BY <1>5, <1>7, <2>6, <2>8
      <4>3. CASE a \in W
        <5>1. m \in W BY <1>4, <2>3, <2>4, <4>3
        <5>2. E[a] = D[a] \cup {k} /\ E[m] = D[m] \cup {k} BY <1>9, <2>1, <2>6, <4>3, <5>1
        <5>3. \A l \in E[a] : Before(y, l, m) BY <2>3, <2>6, <5>2
        <5>4. a # NULL => a \in E[a] BY <2>6, <5>2
        <5>5. Down(q, E, y, m) BY <4>1, <4>2, <5>3, <5>4 DEF Down
        <5> QED BY <2>6, <2>9, <4>1, <5>2, <5>5
      <4>4. CASE a \notin W
        <5>1. m \notin W
          <6> SUFFICES ASSUME m \in W PROVE FALSE OBVIOUS
          <6>1. a # NULL BY <1>3, <2>2, <2>4, <3>2
          <6> QED BY <1>4, <2>1, <2>2, <2>4, <4>4, <6>1
        <5>2. E[a] = D[a] /\ E[m] = D[m] BY <1>9, <2>1, <2>6, <2>8, <4>4, <5>1
        <5>3. Down(q, E, y, m) BY <2>6, <4>1, <4>2, <5>2 DEF Down
        <5> QED BY <2>6, <2>9, <4>1, <5>2, <5>3
      <4> QED BY <4>3, <4>4
    <3> QED BY <3>1, <3>2
  <2>13. E[m] \subseteq E[q.root] BY <1>9, <1>10, <2>1, <2>6
  <2>14. Up(q, E, m)
    <3>1. CASE m = r.root
      <4>1. r.parent[m] = NULL BY <3>1, NodeFacts
      <4>2. q.parent[m] = NULL BY <1>7, <2>1, <4>1
      <4> QED BY <1>7, <3>1, <4>2 DEF Up
    <3>2. CASE m # r.root
      <4>1. PICK s \in Sides : r.parent[m] \in S /\ r.child[s][r.parent[m]] = m
        BY <3>2, NodeFacts
      <4>2. q.parent[m] = r.parent[m] BY <1>7, <2>1
      <4>3. ~(r.parent[m] = p /\ s = z) BY <1>6, <2>1, <4>1
      <4>4. q.child[s][r.parent[m]] = m BY <1>5, <1>7, <4>1, <4>3
      <4> QED BY <1>7, <1>10, <3>2, <4>1, <4>2, <4>4 DEF Up
    <3> QED BY <3>1, <3>2
  <2> QED BY <2>3, <2>9, <2>10, <2>11, <2>12, <2>13, <2>14, MakeNode
<1>13. IsFiniteSet(S \cup {k}) BY <1>1, FS_AddElement
<1>14. q.root \in E[q.root] BY <1>1, <1>7, <1>10
<1>15. \A m \in E[q.root] : Node(q, E, m) BY <1>10, <1>11, <1>12
<1>16. Shape(q, E) BY <1>7, <1>9, <1>10, <1>13, <1>14, <1>15 DEF Shape
<1> QED BY <1>6, <1>10, <1>16 DEF HungInto

\* k becomes the root of an empty tree.
Plants(r, q, k) ==
  /\ q \in Trees /\ q.root = k /\ q.size = r.size
  /\ q.child = r.child /\ q.parent = r.parent /\ q.black = r.black

\* The first node is a tree.
LEMMA FirstShape ==
  ASSUME NEW r, NEW D, Shape(r, D), Blank(r, D[r.root]), NEW k \in Keys, r.root = NULL,
         NEW q, Plants(r, q, k)
  PROVE  D[r.root] = {} /\ \E E : Shape(q, E) /\ E[q.root] = {k}
<1>1. /\ r \in Trees /\ D \in [Pointers -> SUBSET Keys] /\ D[NULL] = {} /\ D[r.root] = {}
  BY DEF Shape
<1>2. k \in Pointers /\ k # NULL /\ NULL \in Pointers BY NullIsNoKey
<1>3. q \in Trees /\ q.root = k /\ q.child = r.child /\ q.parent = r.parent
  BY DEF Plants
<1> DEFINE E == [D EXCEPT ![k] = {k}]
<1>4. E \in [Pointers -> SUBSET Keys] /\ E[k] = {k} /\ E[NULL] = {} BY <1>1, <1>2
<1> HIDE DEF E
<1>5. q.parent[k] = NULL /\ \A s \in Sides : q.child[s][k] = NULL BY <1>1, <1>3 DEF Blank
<1>6. "left" \in Sides /\ "right" \in Sides BY DEF Sides
<1>7. Node(q, E, k) BY <1>3, <1>4, <1>5, <1>6 DEF Node
<1>8. IsFiniteSet({k}) BY FS_Singleton
<1>9. Shape(q, E) BY <1>3, <1>4, <1>7, <1>8 DEF Shape
<1> QED BY <1>1, <1>3, <1>4, <1>9

\* With its new red leaf a tree is what rb_insert_fixup begins with.
LEMMA HungGrows ==
  ASSUME NEW r, NEW D, NEW H, RedBlackTree(r, D, H), Blank(r, D[r.root]),
         NEW k \in Keys, k \notin D[r.root], NEW q, q = Hung(r, k)
  PROVE  /\ \E E, G : Growing(q, E, G, k) /\ E[q.root] = D[r.root] \cup {k}
         /\ q.size = r.size /\ Blank(q, D[r.root] \cup {k})
<1> DEFINE S == D[r.root]
<1>1. /\ Shape(r, D) /\ Levels(r, H, S, NULL, "left") /\ Pales(r, S, NULL, NULL)
      /\ IsBlack(r, r.root)
  BY DEF RedBlackTree
<1>2. r \in Trees /\ S \subseteq Keys BY <1>1, NodeFacts DEF Shape
<1>3. k \in Pointers /\ k # NULL /\ NULL \in Pointers /\ k \notin S BY NullIsNoKey
<1>4. r.black[k] = FALSE /\ r.parent[k] = NULL /\ \A s \in Sides : r.child[s][k] = NULL
  BY <1>3 DEF Blank
<1>5. /\ H \in [Pointers -> Nat] /\ H[NULL] = 0
      /\ \A m \in S : H[m] \in Nat /\ Weight(r, m) \in {0, 1}
      /\ \A m \in S, s \in Sides : H[r.child[s][m]] \in Nat
      /\ \A m \in S, s \in Sides : H[m] = H[r.child[s][m]] + Weight(r, m) + Lack(m, s, NULL, "left")
  <2>1. Heights(r, H, S, NULL, "left") BY <1>1, HeightTypes
  <2> QED BY <2>1 DEF Heights
<1>6. \A m, s, z : m # NULL => Lack(m, s, NULL, z) = 0 BY DEF Lack
<1>7. CASE r.root = NULL
  <2>1. LastOf(r, k) = NULL BY <1>7 DEF LastOf
  <2>2. q = [r EXCEPT !.root = k] BY <2>1 DEF Hung
  <2>5. /\ q \in Trees /\ q.root = k /\ q.size = r.size
        /\ q.child = r.child /\ q.parent = r.parent /\ q.black = r.black
    BY <1>2, <1>3, <2>2 DEF Trees
  <2>11. Plants(r, q, k) BY <2>5 DEF Plants
  <2>3. S = {} /\ \E E : Shape(q, E) /\ E[q.root] = {k} BY <1>1, <1>7, <2>11, FirstShape
  <2>4. PICK E : Shape(q, E) /\ E[q.root] = {k} BY <2>3
  <2> DEFINE G == [m \in Pointers |-> 0]
  <2>6. Levels(q, G, {k}, NULL, "left")
    <3>1. Weight(q, k) = 0 BY <1>4, <2>5 DEF Weight
    <3>2. \A s \in Sides : q.child[s][k] = NULL BY <1>4, <2>5
    <3>3. \A s \in Sides : Level(q, G, k, s, NULL, "left") BY <1>3, <1>6, <3>1, <3>2 DEF Level
    <3> QED BY <1>3, <3>3 DEF Levels
  <2>7. Pales(q, {k}, NULL, k) BY <1>4, <2>5 DEF Pales, Pale, IsRed, IsBlack
  <2>8. IsRed(q, k) BY <1>3, <1>4, <2>5 DEF IsRed, IsBlack
  <2> HIDE DEF G
  <2>9. Growing(q, E, G, k) BY <2>4, <2>5, <2>6, <2>7, <2>8 DEF Growing
  <2>10. Blank(q, S \cup {k}) BY <2>5 DEF Blank
  <2> QED BY <2>3, <2>4, <2>5, <2>9, <2>10
<1>8. CASE r.root # NULL
  <2>1. PICK p : p = LastOf(r, k) OBVIOUS
  <2>2. PICK z : z = Towards(k, p) OBVIOUS
  <2>3. LastOf(r, k) \in Path(r, k) BY <1>1, <1>8, LastOfPath
  <2>4. Path(r, k) \subseteq S
    <3>1. PICK W : W = Path(r, k) OBVIOUS
    <3>2. Way(r, D, k, r.root, W) BY <1>1, <1>8, <3>1, PathIsAWay
    <3> QED BY <3>1, <3>2 DEF Way
  <2>5. p \in S /\ p \in Keys /\ p # NULL /\ p # k BY <1>2, <1>3, <2>1, <2>3, <2>4, NullIsNoKey
  <2>6. q = [r EXCEPT !.child[z][p] = k, !.parent[k] = p] BY <2>1, <2>2, <2>5 DEF Hung
  <2>18. Hangs(r, q, k, p, z)
    <3>1. z \in Sides BY <2>2, <2>5, TowardsFacts
    <3> QED BY <1>2, <2>5, <2>6, <3>1, HungFields, Zenon
  <2>7. /\ r.child[z][p] = NULL /\ z \in Sides
        /\ \E E : Shape(q, E) /\ E[q.root] = S \cup {k}
    <3>1. HungInto(r, D, q, k, p, z) BY <1>1, <1>8, <2>1, <2>2, <2>18, HungShape
    <3> QED BY <3>1 DEF HungInto
  <2>8. PICK E : Shape(q, E) /\ E[q.root] = S \cup {k} BY <2>7
  <2>9. /\ q \in Trees /\ q.root = r.root /\ q.size = r.size /\ q.black = r.black
        /\ \A m \in Keys, s \in Sides :
             q.child[s][m] = IF m = p /\ s = z THEN k ELSE r.child[s][m]
        /\ \A m \in Keys : q.parent[m] = IF m = k THEN p ELSE r.parent[m]
    BY <2>18 DEF Hangs
  <2> DEFINE G == [H EXCEPT ![k] = 0]
  <2>10. /\ G \in [Pointers -> Nat] /\ G[NULL] = 0 /\ G[k] = 0
         /\ \A m \in Pointers \ {k} : G[m] = H[m]
    BY <1>3, <1>5
  <2> HIDE DEF G
  <2>11. ASSUME NEW m \in S, NEW s \in Sides
         PROVE  m \in Keys /\ m \in Pointers \ {k} /\ r.child[s][m] \in Pointers \ {k}
    <3>1. m \in Keys /\ m \in Pointers /\ r.child[s][m] \in Pointers
      BY <1>1, NodeFacts, NullIsNoKey
    <3>2. r.child[s][m] # NULL => r.child[s][m] \in S BY <1>1, NodeFacts
    <3> QED BY <1>3, <3>1, <3>2
  <2>12. Levels(q, G, S \cup {k}, NULL, "left")
    <3>1. ASSUME NEW s \in Sides PROVE Level(q, G, k, s, NULL, "left")
      <4>1. q.child[s][k] = NULL BY <1>4, <2>5, <2>9
      <4>2. Weight(q, k) = 0 BY <1>4, <2>9 DEF Weight
      <4> QED BY <1>3, <1>6, <2>10, <4>1, <4>2 DEF Level
    <3>2. ASSUME NEW m \in S, NEW s \in Sides PROVE Level(q, G, m, s, NULL, "left")
      <4>1. Weight(q, m) = Weight(r, m) BY <2>9 DEF Weight
      <4>2. H[m] = H[r.child[s][m]] + Weight(r, m) + Lack(m, s, NULL, "left") BY <1>5
      <4>3. G[m] = H[m] /\ G[q.child[s][m]] = H[r.child[s][m]]
        <5>1. CASE m = p /\ s = z BY <1>5, <2>5, <2>7, <2>9, <2>10, <2>11, <5>1
        <5>2. CASE ~(m = p /\ s = z) BY <2>9, <2>10, <2>11, <5>2
        <5> QED BY <5>1, <5>2
      <4> QED BY <4>1, <4>2, <4>3 DEF Level
    <3> QED BY <2>10, <3>1, <3>2 DEF Levels
  <2>13. \A m : IsRed(q, m) <=> IsRed(r, m) BY <2>9 DEF IsRed, IsBlack
  <2>14. Pales(q, S \cup {k}, NULL, k)
    <3>1. ASSUME NEW s \in Sides PROVE Pale(q, k, s, NULL, k)
      <4>1. q.child[s][k] = NULL BY <1>4, <2>5, <2>9
      <4> QED BY <4>1 DEF Pale, IsRed, IsBlack
    <3>2. ASSUME NEW m \in S, NEW s \in Sides PROVE Pale(q, m, s, NULL, k)
      <4>1. CASE m = p /\ s = z BY <2>5, <2>9, <4>1 DEF Pale
      <4>2. CASE ~(m = p /\ s = z)
        <5>1. q.child[s][m] = r.child[s][m] /\ m # NULL BY <2>9, <2>11, <4>2, NullIsNoKey
        <5>2. Pale(r, m, s, NULL, NULL) BY <1>1 DEF Pales
        <5>3. ~IsRed(r, NULL) BY DEF IsRed, IsBlack
        <5> QED BY <2>13, <5>1, <5>2, <5>3 DEF Pale
      <4> QED BY <4>1, <4>2
    <3> QED BY <3>1, <3>2 DEF Pales
  <2>15. IsRed(q, k) /\ ~IsRed(q, q.root)
    <3>1. IsRed(r, k) BY <1>3, <1>4 DEF IsRed, IsBlack
    <3>2. ~IsRed(r, r.root) BY <1>1 DEF IsRed
    <3> QED BY <2>9, <2>13, <3>1, <3>2
  <2>16. Growing(q, E, G, k) BY <2>8, <2>12, <2>14, <2>15 DEF Growing
  <2>17. Blank(q, S \cup {k})
    <3> SUFFICES ASSUME NEW m \in Keys \ (S \cup {k})
                 PROVE  /\ q.parent[m] = NULL /\ q.black[m] = FALSE
                        /\ \A s \in Sides : q.child[s][m] = NULL
      BY DEF Blank
    <3>1. /\ r.parent[m] = NULL /\ r.black[m] = FALSE
          /\ \A s \in Sides : r.child[s][m] = NULL
      BY DEF Blank
    <3>2. m # p /\ m # k BY <2>5
    <3> QED BY <2>9, <3>1, <3>2
  <2> QED BY <2>8, <2>9, <2>16, <2>17
<1> QED BY <1>7, <1>8

\* Only the size differs.
Measured(r, q, i) ==
  /\ q \in Trees /\ q.root = r.root /\ q.size = i
  /\ q.child = r.child /\ q.parent = r.parent /\ q.black = r.black

\* A red-black tree with the right size is sound.
LEMMA Resized ==
  ASSUME NEW r, NEW D, NEW H, RedBlackTree(r, D, H), Blank(r, D[r.root]), NEW i \in Nat,
         i = Cardinality(D[r.root]), NEW q, Measured(r, q, i)
  PROVE  Sound(q, D, H) /\ q.root = r.root
<1>1. /\ Shape(r, D) /\ Levels(r, H, D[r.root], NULL, "left") /\ Pales(r, D[r.root], NULL, NULL)
      /\ IsBlack(r, r.root) /\ r \in Trees
  BY DEF RedBlackTree, Shape
<1>2. /\ q \in Trees /\ q.root = r.root /\ q.size = i /\ q.child = r.child
      /\ q.parent = r.parent /\ q.black = r.black
  BY DEF Measured
<1>3. Shape(q, D) BY <1>1, <1>2 DEF Shape, Node
<1>4. \A m : Weight(q, m) = Weight(r, m) /\ (IsBlack(q, m) <=> IsBlack(r, m))
  BY <1>2 DEF Weight, IsBlack
<1>5. Levels(q, H, D[r.root], NULL, "left") BY <1>1, <1>2, <1>4 DEF Levels, Level
<1>6. Pales(q, D[r.root], NULL, NULL) BY <1>1, <1>2, <1>4 DEF Pales, Pale, IsRed
<1>7. Blank(q, D[r.root]) BY <1>2 DEF Blank
<1> QED BY <1>1, <1>2, <1>3, <1>4, <1>5, <1>6, <1>7 DEF Sound, RedBlackTree

\* What lgx_rb_set makes of a tree without k.
Inserted(r, k) == [Balanced(Hung(r, k), k) EXCEPT !.size = @ + 1]

\* lgx_rb_set makes a sound tree with the key of one without it.
LEMMA SetKeeps ==
  ASSUME NEW r, NEW D, NEW H, Sound(r, D, H), NEW k \in Keys, k \notin D[r.root],
         NEW q, q = Inserted(r, k)
  PROVE  \E E, G : Sound(q, E, G) /\ E[q.root] = D[r.root] \cup {k}
<1> DEFINE S == D[r.root]
<1>1. /\ RedBlackTree(r, D, H) /\ Blank(r, S) /\ r.size = Cardinality(S) /\ Shape(r, D)
      /\ IsFiniteSet(S) /\ r \in Trees
  BY DEF Sound, RedBlackTree, Shape
<1>2. PICK h : h = Hung(r, k) OBVIOUS
<1>3. /\ \E E, G : Growing(h, E, G, k) /\ E[h.root] = S \cup {k}
      /\ h.size = r.size /\ Blank(h, S \cup {k})
  BY <1>1, <1>2, HungGrows
<1>4. PICK E, G : Growing(h, E, G, k) /\ E[h.root] = S \cup {k} BY <1>3
<1>5. Cardinality(S \cup {k}) = Cardinality(S) + 1 /\ Cardinality(S) \in Nat
  BY <1>1, FS_AddElement, FS_CardinalityType
<1>6. PICK b : b = Balanced(h, k) OBVIOUS
<1>7. Cardinality(E[h.root]) = h.size + 1 BY <1>1, <1>3, <1>4, <1>5
<1>8. \E E2, G2 : /\ RedBlackTree(b, E2, G2) /\ E2[b.root] = E[h.root]
                  /\ Elsewhere(h, b, E[h.root])
  BY <1>4, <1>6, <1>7, BalancedKeeps
<1>9. PICK E2, G2 : /\ RedBlackTree(b, E2, G2) /\ E2[b.root] = S \cup {k}
                    /\ Elsewhere(h, b, S \cup {k})
  BY <1>4, <1>8
<1>10. Blank(b, S \cup {k}) BY <1>3, <1>9 DEF Blank, Elsewhere
<1>11. b.size = r.size BY <1>3, <1>9 DEF Elsewhere
<1>12. PICK i : i = Cardinality(S) + 1 OBVIOUS
<1>13. i \in Nat /\ i = Cardinality(S \cup {k}) /\ b.size + 1 = i BY <1>1, <1>5, <1>11, <1>12
<1>14. q = [b EXCEPT !.size = i]
  <2>1. q = [b EXCEPT !.size = @ + 1] BY <1>2, <1>6 DEF Inserted
  <2> QED BY <1>13, <2>1
<1>15. Sound(q, E2, G2) /\ q.root = b.root
  <2>1. b \in Trees BY <1>9 DEF RedBlackTree, Shape
  <2>2. Measured(b, q, i) BY <1>13, <1>14, <2>1 DEF Trees, Measured
  <2>3. Blank(b, E2[b.root]) /\ i = Cardinality(E2[b.root]) BY <1>9, <1>10, <1>13
  <2> QED BY <1>9, <1>13, <2>2, <2>3, Resized
<1> QED BY <1>9, <1>15
=============================================================================
