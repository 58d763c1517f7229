--------------------------- MODULE RBTreeDeletion ----------------------------
(***************************************************************************)
(* Deletion from the red-black trees of RBTree: a node with at most one    *)
(* child leaves the tree, and the loop of lgx_rb_del makes a red-black     *)
(* tree of one with a place whose paths lack a black node.                 *)
(***************************************************************************)
EXTENDS RBTreeInsertion

-----------------------------------------------------------------------------
(* Deletion: the node leaves the tree.                                     *)

\* Whoever pointed down to n, among the nodes of S, points to m.
Relinks(r, q, S, n, m) ==
  /\ q \in Trees /\ q.size = r.size /\ q.black = r.black /\ q.parent = r.parent
  /\ q.root = IF r.root = n THEN m ELSE r.root
  /\ \A l \in S, s \in Sides : q.child[s][l] = IF r.child[s][l] = n THEN m ELSE r.child[s][l]
  /\ \A l \in Keys \ S, s \in Sides : q.child[s][l] = r.child[s][l]

\* a has the links of r around n.
Alike(r, a, S, n) ==
  /\ a \in Trees /\ a.root = r.root /\ a.parent[n] = r.parent[n]
  /\ \A l \in S, s \in Sides : a.child[s][l] = r.child[s][l]

\* Exactly one link leads to a node, the one Relinked writes.
LEMMA RelinkedFields ==
  ASSUME NEW r, NEW D, Shape(r, D), NEW n \in D[r.root], NEW a, Alike(r, a, D[r.root], n),
         NEW m \in Pointers
  PROVE  Relinks(a, Relinked(a, n, m), D[r.root], n, m)
<1> DEFINE S == D[r.root]
<1>1. /\ a \in Trees /\ a.root = r.root /\ a.parent[n] = r.parent[n]
      /\ \A l \in S, s \in Sides : a.child[s][l] = r.child[s][l]
  BY DEF Alike
<1>2. S \subseteq Keys /\ n # NULL BY NodeFacts
<1>3. PICK q : q = Relinked(a, n, m) OBVIOUS
<1>4. CASE r.root = n
  <2>1. q = [a EXCEPT !.root = m] BY <1>1, <1>3, <1>4 DEF Relinked
  <2>2. /\ q \in Trees /\ q.size = a.size /\ q.black = a.black /\ q.parent = a.parent
        /\ q.root = m /\ q.child = a.child
    BY <1>1, <2>1 DEF Trees
  <2>3. ASSUME NEW l \in S, NEW s \in Sides PROVE r.child[s][l] # n
    <3>1. r.parent[n] = NULL BY <1>4, NodeFacts
    <3>2. r.child[s][l] # NULL => r.parent[r.child[s][l]] = l BY NodeFacts
    <3>3. l # NULL BY NodeFacts
    <3> QED BY <1>2, <3>1, <3>2, <3>3
  <2>4. Relinks(a, q, S, n, m) BY <1>1, <1>4, <2>2, <2>3 DEF Relinks
  <2> QED BY <1>3, <2>4
<1>5. CASE r.root # n
  <2>1. PICK p : p = r.parent[n] OBVIOUS
  <2>2. PICK z : z = SideOf(r, n, p) OBVIOUS
  <2>3. /\ z \in Sides /\ p \in S /\ r.child[z][p] = n
        /\ \A l \in S, s \in Sides : r.child[s][l] = n => l = p /\ s = z
    BY <1>5, <2>1, <2>2, SideOfFacts
  <2>4. SideOf(a, n, p) = z BY <1>1, <2>2, <2>3 DEF SideOf, Sides
  <2>5. q = [a EXCEPT !.child[z][p] = m] BY <1>1, <1>3, <1>5, <2>1, <2>4 DEF Relinked
  <2>6. /\ q \in Trees /\ q.size = a.size /\ q.black = a.black /\ q.parent = a.parent
        /\ q.root = a.root
        /\ \A l \in Keys, s \in Sides : q.child[s][l] = IF l = p /\ s = z THEN m ELSE a.child[s][l]
    BY <1>1, <1>2, <2>3, <2>5 DEF Trees
  <2>7. ASSUME NEW l \in S, NEW s \in Sides
        PROVE  q.child[s][l] = IF a.child[s][l] = n THEN m ELSE a.child[s][l]
    BY <1>1, <1>2, <2>3, <2>6
  <2>8. \A l \in Keys \ S, s \in Sides : q.child[s][l] = a.child[s][l] BY <2>3, <2>6
  <2>9. Relinks(a, q, S, n, m) BY <1>1, <1>5, <2>6, <2>7, <2>8 DEF Relinks
  <2> QED BY <1>3, <2>9
<1> QED BY <1>4, <1>5

\* q is r with x in the place of n.
Takes(r, q, S, n, x) ==
  /\ q \in Trees /\ q.size = r.size /\ q.black = r.black
  /\ q.root = IF r.root = n THEN x ELSE r.root
  /\ \A m \in S, s \in Sides : q.child[s][m] = IF r.child[s][m] = n THEN x ELSE r.child[s][m]
  /\ \A m \in Keys \ S, s \in Sides : q.child[s][m] = r.child[s][m]
  /\ \A m \in Keys : q.parent[m] = IF m = x THEN r.parent[n] ELSE r.parent[m]

\* x is the only child of n, or NULL, on the side s.
Lone(r, D, n, s, x) ==
  s \in Sides /\ x = OnlyChild(r, n) /\ r.child[s][n] = x /\ Fork(r, D, n, s, x, NULL)

\* A node without two children is one with OnlyChild on some side.
LEMMA LoneFacts ==
  ASSUME NEW r, NEW D, Shape(r, D), NEW n \in D[r.root],
         NULL \in {r.child["left"][n], r.child["right"][n]}
  PROVE  \E s : Lone(r, D, n, s, OnlyChild(r, n))
<1>1. PICK x : x = OnlyChild(r, n) OBVIOUS
<1>2. \E s \in Sides : r.child[s][n] = x /\ r.child[Other(s)][n] = NULL
  <2>1. CASE r.child["left"][n] = NULL
    <3>1. r.child["right"][n] = x BY <1>1, <2>1 DEF OnlyChild
    <3> QED BY <2>1, <3>1 DEF Sides, Other
  <2>2. CASE r.child["left"][n] # NULL
    <3>1. r.child["left"][n] = x /\ r.child["right"][n] = NULL BY <1>1, <2>2 DEF OnlyChild
    <3> QED BY <3>1 DEF Sides, Other
  <2> QED BY <2>1, <2>2
<1>3. PICK s \in Sides : r.child[s][n] = x /\ r.child[Other(s)][n] = NULL BY <1>2
<1>4. Fork(r, D, n, s, r.child[s][n], r.child[Other(s)][n]) BY ForkFacts
<1> QED BY <1>1, <1>3, <1>4 DEF Lone

\* What TakenOut writes.
LEMMA TakenFields ==
  ASSUME NEW r, NEW D, Shape(r, D), NEW n \in D[r.root], NEW s, NEW x, Lone(r, D, n, s, x)
  PROVE  /\ TakenOut(r, n).x = x /\ TakenOut(r, n).p = r.parent[n]
         /\ TakenOut(r, n).black = r.black[n]
         /\ Takes(r, TakenOut(r, n).tree, D[r.root], n, x)
<1> DEFINE S == D[r.root]
<1>1. x = OnlyChild(r, n) /\ Fork(r, D, n, s, x, NULL) BY DEF Lone
<1>2. PICK p : p = r.parent[n] OBVIOUS
<1>3. PICK a : a = WithParent(r, x, p) OBVIOUS
<1>4. PICK q : q = Relinked(a, n, x) OBVIOUS
<1>5. TakenOut(r, n) = [tree |-> q, x |-> x, p |-> p, black |-> r.black[n]]
  BY <1>1, <1>2, <1>3, <1>4 DEF TakenOut
<1>6. r \in Trees /\ n \in Keys /\ x \in Pointers /\ x # n /\ p \in Pointers
  <2>1. r \in Trees /\ n \in Keys BY NodeFacts DEF Shape
  <2>2. x \in Pointers /\ x # n BY <1>1, <2>1, NullIsNoKey DEF Fork
  <2> QED BY <1>2, <2>1, <2>2 DEF Trees
<1>7. /\ a \in Trees /\ a.root = r.root /\ a.size = r.size /\ a.black = r.black
      /\ a.child = r.child
      /\ \A m \in Keys : a.parent[m] = IF m = x THEN p ELSE r.parent[m]
  <2>1. CASE x = NULL BY <1>3, <1>6, <2>1, NullIsNoKey DEF WithParent
  <2>2. CASE x # NULL
    <3>1. a = [r EXCEPT !.parent[x] = p] /\ x \in Keys BY <1>3, <1>6, <2>2 DEF WithParent, Pointers
    <3> QED BY <1>6, <3>1 DEF Trees
  <2> QED BY <2>1, <2>2
<1>8. Alike(r, a, S, n) BY <1>6, <1>7 DEF Alike
<1>9. Relinks(a, q, S, n, x) BY <1>4, <1>6, <1>8, RelinkedFields
<1>10. Takes(r, q, S, n, x) BY <1>2, <1>7, <1>9 DEF Takes, Relinks
<1> QED BY <1>2, <1>5, <1>10

\* The nodes under each node, without n.
Without(D, n) == [m \in Pointers |-> D[m] \ {n}]

\* A tree without a node that had one child at most is a tree of the other nodes.
LEMMA TakenShape ==
  ASSUME NEW r, NEW D, Shape(r, D), NEW n \in D[r.root], NEW z, NEW x, Lone(r, D, n, z, x),
         NEW q, Takes(r, q, D[r.root], n, x)
  PROVE  /\ Shape(q, Without(D, n)) /\ Without(D, n)[q.root] = D[r.root] \ {n}
         /\ x # n /\ (x # NULL => x \in D[r.root] /\ r.parent[x] = n)
<1> DEFINE S == D[r.root]
<1>1. /\ r \in Trees /\ D \in [Pointers -> SUBSET Keys] /\ D[NULL] = {} /\ IsFiniteSet(S)
      /\ (r.root # NULL => r.root \in S) /\ S \subseteq Keys
  BY NodeFacts DEF Shape
<1>2. /\ z \in Sides /\ n \in Keys /\ n # NULL /\ n \in D[n] /\ D[n] \subseteq S
      /\ D[n] = {n} \cup D[x] /\ n \notin D[x] /\ x \in Pointers /\ x # n
      /\ x # NULL => x \in D[x] /\ x \in S /\ x \in Keys /\ r.parent[x] = n
  <2>1. z \in Sides /\ Fork(r, D, n, z, x, NULL) BY DEF Lone
  <2>2. D[NULL] = {} BY <1>1
  <2> QED BY <2>1, <2>2 DEF Fork
<1>3. /\ q \in Trees /\ q.root = IF r.root = n THEN x ELSE r.root
      /\ \A m \in S, s \in Sides : q.child[s][m] = IF r.child[s][m] = n THEN x ELSE r.child[s][m]
      /\ \A m \in Keys : q.parent[m] = IF m = x THEN r.parent[n] ELSE r.parent[m]
  BY DEF Takes
<1>4. PICK E : E = Without(D, n) OBVIOUS
<1>5. E \in [Pointers -> SUBSET Keys] /\ E[NULL] = {} /\ \A m \in Pointers : E[m] = D[m] \ {n}
  BY <1>1, <1>4, NullIsNoKey DEF Without
<1>6. q.root \in Pointers /\ r.root \in Pointers /\ r.root # NULL BY <1>1, <1>2, <1>3 DEF Trees
<1>7. E[q.root] = S \ {n}
  <2>1. CASE r.root = n BY <1>2, <1>3, <1>5, <1>6, <2>1
  <2>2. CASE r.root # n BY <1>3, <1>5, <1>6, <2>2
  <2> QED BY <2>1, <2>2
<1>8. IsFiniteSet(E[q.root]) BY <1>1, <1>7, FS_Subset
<1>9. q.root # NULL => q.root \in E[q.root]
  <2>1. CASE r.root = n BY <1>2, <1>3, <1>7, <2>1
  <2>2. CASE r.root # n BY <1>1, <1>3, <1>6, <1>7, <2>2
  <2> QED BY <2>1, <2>2
<1>10. ASSUME NEW m \in S \ {n} PROVE Node(q, E, m)
  <2>1. m \in Keys /\ m \in Pointers /\ m # NULL BY <1>1, NullIsNoKey
  <2>2. ASSUME NEW s \in Sides
        PROVE  /\ E[q.child[s][m]] = D[r.child[s][m]] \ {n} /\ Down(q, E, s, m)
    <3>1. PICK c : c = r.child[s][m] OBVIOUS
    <3>2. Fork(r, D, m, s, c, r.child[Other(s)][m]) BY <3>1, ForkFacts
    <3>3. /\ c \in Pointers /\ \A k \in D[c] : Before(s, k, m)
          /\ c # NULL => c \in D[c] /\ c \in Keys /\ r.parent[c] = m
      BY <3>2 DEF Fork
    <3>4. CASE c = n
      <4>1. q.child[s][m] = x BY <1>3, <3>1, <3>4
      <4>2. E[x] = D[n] \ {n} BY <1>2, <1>5
      <4>3. x # NULL => q.parent[x] = m /\ x \in E[x] BY <1>2, <1>3, <1>5, <3>3, <3>4
      <4>4. \A k \in E[x] : Before(s, k, m) BY <3>3, <3>4, <4>2
      <4> QED BY <3>1, <3>4, <4>1, <4>2, <4>3, <4>4 DEF Down
    <3>5. CASE c # n
      <4>1. q.child[s][m] = c BY <1>3, <3>1, <3>5
      <4>2. E[c] = D[c] \ {n} BY <1>5, <3>3
      <4>3. c # NULL => c # x BY <1>2, <3>3
      <4>4. c # NULL => q.parent[c] = m /\ c \in E[c] BY <1>3, <3>3, <3>5, <4>2, <4>3
      <4>5. \A k \in E[c] : Before(s, k, m) BY <3>3, <4>2
      <4> QED BY <3>1, <4>1, <4>2, <4>4, <4>5 DEF Down
    <3> QED BY <3>4, <3>5
  <2>3. PICK L, R : L = "left" /\ R = "right" OBVIOUS
  <2>4. L \in Sides /\ R \in Sides /\ Other(L) = R BY <2>3 DEF Sides, Other
  <2>5. E[m] = {m} \cup E[q.child[L][m]] \cup E[q.child[R][m]]
    <3>1. D[m] = {m} \cup D[r.child[L][m]] \cup D[r.child[R][m]] BY <2>4, NodeFacts
    <3> QED BY <1>5, <2>1, <2>2, <2>4, <3>1
  <2>6. E[m] \subseteq E[q.root]
    <3>1. D[m] \subseteq S BY NodeFacts
    <3> QED BY <1>5, <1>7, <2>1, <3>1
  <2>7. Up(q, E, m)
    <3>1. CASE m = x
      <4>1. q.parent[m] = r.parent[n] BY <1>3, <2>1, <3>1
      <4>2. CASE r.root = n
        <5>1. r.parent[n] = NULL BY <4>2, NodeFacts
        <5> QED BY <1>3, <3>1, <4>1, <4>2, <5>1 DEF Up
      <4>3. CASE r.root # n
        <5>1. PICK s \in Sides : r.parent[n] \in S /\ r.child[s][r.parent[n]] = n
          BY <4>3, NodeLinks, Zenon DEF Up
        <5>2. r.parent[n] # n
          <6>1. Fork(r, D, r.parent[n], s, n, r.child[Other(s)][r.parent[n]]) BY <5>1, ForkFacts
          <6> QED BY <1>2, <6>1 DEF Fork
        <5>3. q.child[s][r.parent[n]] = m BY <1>3, <3>1, <5>1
        <5>4. q.root # m
          <6>1. r.parent[m] = n BY <1>2, <2>1, <3>1
          <6>2. r.root # m
            <7>1. m = r.root => r.parent[m] = NULL BY NodeFacts
            <7> QED BY <1>2, <6>1, <7>1
          <6> QED BY <1>3, <4>3, <6>2
        <5> QED BY <1>7, <4>1, <5>1, <5>2, <5>3, <5>4 DEF Up
      <4> QED BY <4>2, <4>3
    <3>2. CASE m # x
      <4>1. q.parent[m] = r.parent[m] BY <1>3, <2>1, <3>2
      <4>2. CASE m = r.root
        <5>1. q.root = m /\ r.parent[m] = NULL BY <1>3, <4>2, NodeFacts
        <5> QED BY <4>1, <5>1 DEF Up
      <4>3. CASE m # r.root
        <5>1. PICK s \in Sides : r.parent[m] \in S /\ r.child[s][r.parent[m]] = m
          BY <4>3, NodeFacts
        <5>2. r.parent[m] # n
          <6> SUFFICES ASSUME r.parent[m] = n PROVE FALSE OBVIOUS
          <6>1. Fork(r, D, n, s, m, r.child[Other(s)][n]) BY <5>1, ForkFacts
          <6>2. m \in D[m] /\ D[m] \subseteq D[n] /\ n \notin D[m] BY <2>1, <6>1 DEF Fork
          <6>3. x # NULL /\ m \in D[x] BY <1>1, <1>2, <6>2
          <6>4. r.parent[m] \in D[x] BY <1>2, <3>2, <6>3, ParentUnder
          <6> QED BY <1>2, <6>4
        <5>3. q.child[s][r.parent[m]] = m BY <1>3, <5>1
        <5>4. q.root # m BY <1>3, <3>2, <4>3
        <5> QED BY <1>7, <4>1, <5>1, <5>2, <5>3, <5>4 DEF Up
      <4> QED BY <4>2, <4>3
    <3> QED BY <3>1, <3>2
  <2>8. Down(q, E, L, m) /\ Down(q, E, R, m) BY <2>2, <2>4
  <2> QED BY <2>4, <2>5, <2>6, <2>7, <2>8, MakeNode
<1>11. Shape(q, E) BY <1>3, <1>5, <1>7, <1>8, <1>9, <1>10 DEF Shape
<1> QED BY <1>2, <1>4, <1>7, <1>11

\* All is right with the tree but that the paths through x, the child of p on the side s
\* unless x is the root, lack a black node, and that x may be red next to red nodes.
Lacking(r, D, H, x, p, s) ==
  /\ Shape(r, D) /\ Pales(r, D[r.root], x, x)
  /\ IsRed(r, r.root) => r.root = x
  /\ IF x = r.root THEN Levels(r, H, D[r.root], NULL, "left")
     ELSE /\ p \in D[r.root] /\ s \in Sides /\ x = r.child[s][p]
          /\ Levels(r, H, D[r.root], p, s)

\* What the paths through the child lack is the colour of the node taken out.
LEMMA TakenLevels ==
  ASSUME NEW r, NEW D, NEW H, RedBlackTree(r, D, H), NEW n \in D[r.root],
         NEW z, NEW x, Lone(r, D, n, z, x), NEW q, Takes(r, q, D[r.root], n, x),
         NEW p, NEW s, NEW S, S = D[r.root] \ {n},
         IF r.black[n] /\ r.root # n THEN p = r.parent[n] /\ s = SideOf(r, n, p) ELSE p = NULL
  PROVE  Levels(q, H, S, p, s)
<1> DEFINE A == D[r.root]
<1>1. Shape(r, D) /\ Heights(r, H, A, NULL, "left") BY HeightTypes DEF RedBlackTree
<1>2. /\ H \in [Pointers -> Nat] /\ H[NULL] = 0
      /\ \A m \in A : H[m] \in Nat /\ Weight(r, m) \in {0, 1}
      /\ \A m \in A, y \in Sides : H[r.child[y][m]] \in Nat
      /\ \A m \in A, y \in Sides : H[m] = H[r.child[y][m]] + Weight(r, m) + Lack(m, y, NULL, "left")
  BY <1>1 DEF Heights
<1>3. A \subseteq Keys /\ n \in A /\ n # NULL BY <1>1, NodeFacts
<1>4. \A m \in A : \A y, v : Lack(m, y, NULL, v) = 0 BY <1>3, NullIsNoKey DEF Lack
<1>5. z \in Sides /\ r.child[z][n] = x BY DEF Lone
<1>6. H[x] \in Nat /\ H[n] = H[x] + Weight(r, n)
  <2>1. H[x] \in Nat /\ H[n] = H[x] + Weight(r, n) + Lack(n, z, NULL, "left") BY <1>2, <1>3, <1>5
  <2>2. Lack(n, z, NULL, "left") = 0 BY <1>3, <1>4
  <2>3. Weight(r, n) \in Nat BY DEF Weight
  <2> QED BY <2>1, <2>2, <2>3
<1>7. /\ q.black = r.black
      /\ \A m \in A, y \in Sides : q.child[y][m] = IF r.child[y][m] = n THEN x ELSE r.child[y][m]
  BY DEF Takes
<1>8. ASSUME NEW m \in S, NEW y \in Sides PROVE Level(q, H, m, y, p, s)
  <2>1. PICK w, i, j, l : /\ w = Weight(r, m) /\ i = H[m] /\ j = H[r.child[y][m]]
                          /\ l = Lack(m, y, p, s)
    OBVIOUS
  <2>2. /\ w \in Nat /\ i \in Nat /\ j \in Nat /\ i = j + w /\ m \in A /\ m # NULL /\ m # n
    <3>1. m \in A /\ m # n BY <1>1
    <3>2. w \in Nat /\ i \in Nat /\ j \in Nat BY <1>2, <2>1, <3>1
    <3>3. i = j + w + Lack(m, y, NULL, "left") BY <1>2, <2>1, <3>1
    <3>4. Lack(m, y, NULL, "left") = 0 BY <1>4, <3>1
    <3> QED BY <1>3, <3>1, <3>2, <3>3, <3>4, NullIsNoKey
  <2>3. Weight(q, m) = w BY <1>7, <2>1 DEF Weight
  <2>4. CASE r.child[y][m] = n
    <3>1. q.child[y][m] = x BY <1>7, <2>2, <2>4
    <3>2. r.root # n
      <4>1. r.parent[n] = m BY <1>1, <1>3, <2>2, <2>4, NodeFacts
      <4>2. r.root = n => r.parent[n] = NULL BY <1>1, <1>3, NodeFacts
      <4> QED BY <2>2, <4>1, <4>2
    <3>3. m = r.parent[n] /\ y = SideOf(r, n, r.parent[n])
      <4>1. n # r.root BY <3>2
      <4>2. \A k \in D[r.root], v \in Sides :
              r.child[v][k] = n => k = r.parent[n] /\ v = SideOf(r, n, r.parent[n])
        BY <1>1, <4>1, SideOfFacts
      <4> QED BY <2>2, <2>4, <4>2, Zenon
    <3>4. l = Weight(r, n)
      <4>1. CASE r.black[n] BY <2>1, <3>2, <3>3, <4>1 DEF Lack, Weight
      <4>2. CASE ~r.black[n] BY <2>1, <2>2, <4>2 DEF Lack, Weight
      <4> QED BY <4>1, <4>2
    <3>5. PICK h : h = H[x] OBVIOUS
    <3>6. l \in Nat /\ h \in Nat /\ j = h + l
      <4>1. Weight(r, n) \in Nat BY DEF Weight
      <4> QED BY <1>6, <2>1, <2>4, <3>4, <3>5, <4>1
    <3>7. i = h + w + l BY <2>2, <3>6
    <3> QED BY <2>1, <2>3, <3>1, <3>5, <3>7 DEF Level
  <2>5. CASE r.child[y][m] # n
    <3>1. q.child[y][m] = r.child[y][m] BY <1>7, <2>2, <2>5
    <3>2. l = 0
      <4>1. CASE r.black[n] /\ r.root # n
        <5>1. r.child[s][p] = n BY <1>1, <1>3, <4>1, SideOfFacts
        <5> QED BY <2>1, <2>5, <5>1 DEF Lack
      <4>2. CASE ~(r.black[n] /\ r.root # n) BY <2>1, <2>2, <4>2 DEF Lack
      <4> QED BY <4>1, <4>2
    <3>3. i = j + w + l BY <2>2, <3>2
    <3> QED BY <2>1, <2>3, <3>1, <3>3 DEF Level
  <2> QED BY <2>4, <2>5
<1> QED BY <1>2, <1>8 DEF Levels

\* After a red node a red-black tree is left, after a black one a tree with a place that
\* lacks one.
LEMMA TakenKeeps ==
  ASSUME NEW r, NEW D, NEW H, RedBlackTree(r, D, H), NEW n \in D[r.root],
         NEW z, NEW x, Lone(r, D, n, z, x), NEW q, Takes(r, q, D[r.root], n, x),
         NEW p, p = r.parent[n], NEW E, E = Without(D, n)
  PROVE  /\ r.black[n] => \E s : Lacking(q, E, H, x, p, s)
         /\ ~r.black[n] => RedBlackTree(q, E, H)
<1> DEFINE A == D[r.root]
           S == D[r.root] \ {n}
<1>1. Shape(r, D) /\ Pales(r, A, NULL, NULL) /\ IsBlack(r, r.root) BY DEF RedBlackTree
<1>2. /\ Shape(q, E) /\ E[q.root] = S /\ x # n
      /\ x # NULL => x \in D[r.root] /\ r.parent[x] = n
  BY <1>1, TakenShape
<1>3. A \subseteq Keys /\ n # NULL BY <1>1, NodeFacts
<1>4. /\ q.black = r.black /\ q.root = IF r.root = n THEN x ELSE r.root
      /\ \A m \in A, y \in Sides : q.child[y][m] = IF r.child[y][m] = n THEN x ELSE r.child[y][m]
  BY DEF Takes
<1>5. \A m : IsRed(q, m) <=> IsRed(r, m) BY <1>4 DEF IsRed, IsBlack
<1>6. ASSUME NEW m \in S, NEW y \in Sides, IsRed(q, m), IsRed(q, q.child[y][m])
      PROVE  r.black[n] /\ q.child[y][m] = x /\ x # NULL
  <2>1. m \in A /\ m \in Keys /\ m # NULL BY <1>3, NullIsNoKey
  <2>2. Pale(r, m, y, NULL, NULL) BY <1>1, <2>1 DEF Pales
  <2>3. IsBlack(r, r.child[y][m])
    <3>1. r.child[y][m] = NULL => IsBlack(r, r.child[y][m]) BY DEF IsBlack
    <3> QED BY <1>5, <1>6, <2>1, <2>2, <3>1 DEF Pale, IsRed
  <2>4. r.child[y][m] = n BY <1>4, <1>5, <1>6, <2>1, <2>3 DEF IsRed
  <2>5. q.child[y][m] = x BY <1>4, <2>1, <2>4
  <2> QED BY <1>3, <1>6, <2>3, <2>4, <2>5 DEF IsRed, IsBlack
<1>7. CASE r.black[n]
  <2>1. Pales(q, S, x, x) BY <1>6 DEF Pales, Pale
  <2>2. IsRed(q, q.root) => q.root = x BY <1>1, <1>4, <1>5 DEF IsRed
  <2>3. CASE r.root = n
    <3>1. q.root = x BY <1>4, <2>3
    <3>2. PICK v, y : v = NULL /\ y = "left" OBVIOUS
    <3>3. Levels(q, H, S, v, y) BY <2>3, <3>2, TakenLevels
    <3>4. Lacking(q, E, H, x, p, y) BY <1>2, <2>1, <2>2, <3>1, <3>2, <3>3 DEF Lacking
    <3> QED BY <1>7, <3>4
  <2>4. CASE r.root # n
    <3>1. PICK y : y = SideOf(r, n, p) OBVIOUS
    <3>2. y \in Sides /\ p \in A /\ r.child[y][p] = n
      <4>1. /\ SideOf(r, n, r.parent[n]) \in Sides /\ r.parent[n] \in D[r.root]
            /\ r.child[SideOf(r, n, r.parent[n])][r.parent[n]] = n
        <5>1. Shape(r, D) /\ n # r.root BY <1>1, <2>4
        <5> QED BY <5>1, SideOfFacts
      <4> QED BY <3>1, <4>1, Zenon
    <3>3. p # n
      <4>1. Fork(r, D, p, y, n, r.child[Other(y)][p]) BY <1>1, <3>2, ForkFacts
      <4> QED BY <1>3, <4>1 DEF Fork
    <3>4. q.child[y][p] = x BY <1>4, <3>2
    <3>5. q.root # x
      <4>1. r.root # NULL /\ (r.root \in A => r.parent[r.root] = NULL) BY <1>1, NodeFacts DEF Shape
      <4>2. r.root \in A BY <1>1, <4>1 DEF Shape
      <4> QED BY <1>2, <1>3, <1>4, <2>4, <4>1, <4>2
    <3>6. Levels(q, H, S, p, y) BY <1>7, <2>4, <3>1, TakenLevels
    <3>7. Lacking(q, E, H, x, p, y)
      BY <1>2, <2>1, <2>2, <3>2, <3>3, <3>4, <3>5, <3>6 DEF Lacking
    <3> QED BY <1>7, <3>7
  <2> QED BY <2>3, <2>4
<1>8. CASE ~r.black[n]
  <2>1. Pales(q, S, NULL, NULL) BY <1>6, <1>8 DEF Pales, Pale
  <2>2. r.root # n BY <1>1, <1>3, <1>8 DEF IsBlack
  <2>3. IsBlack(q, q.root) BY <1>1, <1>4, <2>2 DEF IsBlack
  <2>4. PICK v, y : v = NULL /\ y = "left" OBVIOUS
  <2>5. Levels(q, H, S, v, y) BY <1>8, <2>4, TakenLevels
  <2>6. RedBlackTree(q, E, H) BY <1>2, <2>1, <2>3, <2>4, <2>5 DEF RedBlackTree
  <2> QED BY <1>8, <2>6
<1> QED BY <1>7, <1>8

-----------------------------------------------------------------------------
(* Deletion: the loop of lgx_rb_del.                                       *)

\* x is black and not the root: its paths lack a black node, and nothing else is wrong.
Torn(r, D, H, x, p, s) ==
  /\ Shape(r, D) /\ Levels(r, H, D[r.root], p, s) /\ Pales(r, D[r.root], NULL, NULL)
  /\ ~IsRed(r, r.root) /\ ~IsRed(r, x)
  /\ p \in D[r.root] /\ s \in Sides /\ x = r.child[s][p] /\ x # r.root

\* While x is black and no root, the loop of lgx_rb_del has work to do.
LEMMA Tears ==
  ASSUME NEW r, NEW D, NEW H, NEW x, NEW p, NEW s, Lacking(r, D, H, x, p, s),
         x # r.root, ~IsRed(r, x)
  PROVE  Torn(r, D, H, x, p, s)
<1>1. /\ Shape(r, D) /\ Pales(r, D[r.root], x, x) /\ ~IsRed(r, r.root)
      /\ p \in D[r.root] /\ s \in Sides /\ x = r.child[s][p] /\ Levels(r, H, D[r.root], p, s)
  BY DEF Lacking
<1>2. Pales(r, D[r.root], NULL, NULL) BY <1>1 DEF Pales, Pale
<1> QED BY <1>1, <1>2 DEF Torn

\* The sibling u of x, which has more black nodes below than x.
Brother(r, D, H, x, p, s, u) ==
  /\ p \in D[r.root] /\ p \in Keys /\ p # NULL /\ x \in Pointers
  /\ u = r.child[Other(s)][p] /\ u \in D[r.root] /\ u \in Keys /\ u # NULL
  /\ x # u /\ x # p /\ u # p /\ u # r.root /\ r.parent[u] = p
  /\ SideOf(r, x, p) = s
  /\ H[x] \in Nat /\ H[u] = H[x] + 1 /\ H[p] = H[u] + Weight(r, p)
  /\ \A y \in Sides : /\ r.child[y][u] \in Pointers /\ H[r.child[y][u]] \in Nat
                      /\ H[u] = H[r.child[y][u]] + Weight(r, u)
  /\ D[x] \subseteq D[p] /\ p \in D[p] /\ p \notin D[x]

\* A place that lacks a black node has a sibling: the other side has black nodes.
LEMMA Brothers ==
  ASSUME NEW r, NEW D, NEW H, NEW x, NEW p, NEW s, Torn(r, D, H, x, p, s),
         NEW u, u = r.child[Other(s)][p]
  PROVE  Brother(r, D, H, x, p, s, u)
<1> DEFINE S == D[r.root]
<1>1. /\ Shape(r, D) /\ Levels(r, H, S, p, s) /\ p \in S /\ s \in Sides
      /\ x = r.child[s][p]
  BY DEF Torn
<1>2. Other(s) \in Sides /\ Other(s) # s /\ Sides = {s, Other(s)} BY <1>1, SideFacts
<1>3. Heights(r, H, S, p, s) BY <1>1, HeightTypes
<1>4. Fork(r, D, p, s, x, u) BY <1>1, ForkFacts
<1>5. /\ p \in Keys /\ p # NULL /\ x \in Pointers /\ u \in Pointers /\ p \in D[p]
      /\ p \notin D[x] /\ p \notin D[u] /\ D[x] \subseteq D[p]
      /\ u # NULL => u \in D[u] /\ u \in S /\ u \in Keys /\ r.parent[u] = p /\ x # u
      /\ x # NULL => x \in D[x]
  BY <1>4 DEF Fork
<1>6. /\ H[x] \in Nat /\ H[u] \in Nat /\ H[NULL] = 0
      /\ H[p] = H[x] + Weight(r, p) + Lack(p, s, p, s)
      /\ H[p] = H[u] + Weight(r, p) + Lack(p, Other(s), p, s)
  BY <1>1, <1>2, <1>3 DEF Heights
<1>7. Lack(p, s, p, s) = 1 /\ Lack(p, Other(s), p, s) = 0 /\ Weight(r, p) \in Nat
  BY <1>2 DEF Lack, Weight
<1>8. H[u] = H[x] + 1 /\ H[p] = H[u] + Weight(r, p)
  <2>1. PICK i, j, k, w : i = H[x] /\ j = H[u] /\ k = H[p] /\ w = Weight(r, p) OBVIOUS
  <2>2. i \in Nat /\ j \in Nat /\ w \in Nat /\ k = i + w + 1 /\ k = j + w + 0
    BY <1>6, <1>7, <2>1
  <2>3. j = i + 1 /\ k = j + w BY <2>2
  <2> QED BY <2>1, <2>3
<1>9. u # NULL /\ x # p /\ u # p
  <2>1. u # NULL BY <1>6, <1>8
  <2> QED BY <1>5, <2>1
<1>10. u # r.root
  <2>1. u \in S /\ r.parent[u] = p BY <1>5, <1>9
  <2> QED BY <1>1, <1>5, <2>1, NodeFacts
<1>11. SideOf(r, x, p) = s
  <2>1. r.child[Other(s)][p] # x BY <1>5, <1>9
  <2> QED BY <1>1, <1>2, <2>1 DEF SideOf, Sides, Other
<1>12. ASSUME NEW y \in Sides
       PROVE  /\ r.child[y][u] \in Pointers /\ H[r.child[y][u]] \in Nat
              /\ H[u] = H[r.child[y][u]] + Weight(r, u)
  <2>1. u \in S BY <1>5, <1>9
  <2>2. r.child[y][u] \in Pointers BY <1>1, <2>1, NodeFacts
  <2>3. /\ H[r.child[y][u]] \in Nat
        /\ H[u] = H[r.child[y][u]] + Weight(r, u) + Lack(u, y, p, s)
    BY <1>3, <2>1 DEF Heights
  <2>4. Lack(u, y, p, s) = 0 BY <1>9 DEF Lack
  <2>5. Weight(r, u) \in Nat BY DEF Weight
  <2> QED BY <2>2, <2>3, <2>4, <2>5
<1> QED BY <1>1, <1>5, <1>6, <1>8, <1>9, <1>10, <1>11, <1>12, Zenon DEF Brother

\* What a repainting of two nodes, and of others black, leaves right with the others.
LEMMA RestPale ==
  ASSUME NEW r, NEW D, Shape(r, D), Pales(r, D[r.root], NULL, NULL), NEW n, NEW side, NEW top,
         NEW low, NEW mid, NEW out, Pivot(r, D, n, side, top, low, mid, out),
         NEW q, q.child = r.child, \A m \in Keys \ {n, top} : r.black[m] => q.black[m],
         NEW m \in D[r.root] \ {n, top}, NEW s \in Sides, r.child[s][m] # n
  PROVE  Pale(q, m, s, NULL, NULL)
<1>1. Fork(r, D, m, s, r.child[s][m], r.child[Other(s)][m]) BY ForkFacts, Zenon
<1>2. Fork(r, D, n, side, low, top) /\ top # NULL BY DEF Pivot
<1>3. PICK c : c = r.child[s][m] OBVIOUS
<1>4. /\ m \in Keys /\ m # NULL /\ c \in Pointers
      /\ c # NULL => c \in Keys /\ r.parent[c] = m
  BY <1>1, <1>3 DEF Fork
<1>5. c # top
  <2>1. r.parent[top] = n BY <1>2 DEF Fork
  <2> QED BY <1>2, <1>4, <2>1
<1>6. Pale(r, m, s, NULL, NULL) BY DEF Pales
<1>7. SUFFICES ASSUME IsRed(q, m), IsRed(q, c) PROVE c = NULL
  BY <1>3 DEF Pale
<1>8. IsRed(r, m) BY <1>4, <1>7 DEF IsRed, IsBlack
<1>9. c # NULL => IsRed(r, c) BY <1>3, <1>4, <1>5, <1>7 DEF IsRed, IsBlack
<1> QED BY <1>3, <1>4, <1>6, <1>8, <1>9 DEF Pale

\* Two nodes that change colour disturb the numbers of no others.
LEMMA RestLevel ==
  ASSUME NEW r, NEW D, Shape(r, D), NEW H, NEW p, NEW s0, Levels(r, H, D[r.root], p, s0),
         NEW n, NEW top, NEW q, q.child = r.child,
         \A m \in Keys \ {n, top} : Weight(q, m) = Weight(r, m),
         NEW m \in D[r.root] \ {n, top}, NEW s \in Sides
  PROVE  Level(q, H, m, s, p, s0)
<1>1. m \in Keys BY NodeFacts
<1>2. Level(r, H, m, s, p, s0) BY DEF Levels
<1> QED BY <1>1, <1>2 DEF Level

\* A red sibling is rotated away: x gets a black one.
LEMMA RedSiblingKeeps ==
  ASSUME NEW r, NEW D, NEW H, NEW x, NEW p, NEW s, Torn(r, D, H, x, p, s),
         NEW u, u = r.child[Other(s)][p], IsRed(r, u),
         NEW q1, Painted(r, q1, {u}, {p}), NEW q, q = Rotated(q1, s, p)
  PROVE  \E E, G : /\ Torn(q, E, G, x, p, s) /\ E[q.root] = D[r.root] /\ E[x] = D[x]
                   /\ Elsewhere(r, q, D[r.root]) /\ IsBlack(q, q.child[Other(s)][p])
<1> DEFINE far == Other(s)
           S == D[r.root]
           mid == r.child[s][u]
           out == r.child[far][u]
<1>1. /\ Shape(r, D) /\ Levels(r, H, S, p, s) /\ Pales(r, S, NULL, NULL)
      /\ ~IsRed(r, r.root) /\ ~IsRed(r, x) /\ p \in S /\ s \in Sides /\ x = r.child[s][p]
      /\ x # r.root
  BY DEF Torn
<1>2. far \in Sides /\ Other(far) = s /\ far # s /\ \A y \in Sides : y \in {s, far}
  BY <1>1, SideFacts
<1>3. Brother(r, D, H, x, p, s, u) BY Brothers, Zenon
<1>4. /\ p \in Keys /\ p # NULL /\ u \in Keys /\ u # NULL /\ u \in S /\ u # p /\ x # u /\ x # p
      /\ x \in Pointers /\ u # r.root
  BY <1>3 DEF Brother
<1>5. ~r.black[u] /\ r.black[p]
  <2>1. ~r.black[u] BY DEF IsRed, IsBlack
  <2>2. Pale(r, p, far, NULL, NULL) BY <1>1, <1>2 DEF Pales
  <2>3. ~IsRed(r, p) BY <1>4, <2>2 DEF Pale
  <2> QED BY <1>4, <2>1, <2>3 DEF IsRed, IsBlack
<1>6. Pivot(r, D, p, s, u, x, mid, out) BY <1>1, <1>4, Pivots, Zenon
<1>7. /\ mid \in Pointers /\ mid \notin {p, u} /\ out \in Pointers /\ out \notin {p, u}
  BY <1>6 DEF Pivot
<1>8. /\ q1 \in Trees /\ q1.root = r.root /\ q1.child = r.child /\ q1.parent = r.parent
      /\ Shape(q1, D) /\ q1.black[u] /\ ~q1.black[p] /\ Weight(q1, u) = 1 /\ Weight(q1, p) = 0
      /\ \A m \in Keys \ {p, u} : q1.black[m] = r.black[m] /\ Weight(q1, m) = Weight(r, m)
  <2>1. Shade(r, q1, {u}, {p}) BY PaintedFacts
  <2> QED BY <1>1, <1>4, <2>1 DEF Shade
<1>9. Pivot(q1, D, p, s, u, x, mid, out) BY <1>6, PivotPainted
<1>10. PICK g : g = H[x] + 1 BY Zenon
<1> DEFINE E == Under(D, p, u, x, mid)
           G == [H EXCEPT ![u] = H[p], ![p] = g]
<1>11. Shape(q, E) /\ E[q.root] = S /\ Turned(q1, q, S, s, p, u, x, mid, out)
  BY <1>8, <1>9, Rotation
<1>12. E[x] = D[x] BY <1>1, <1>4, NullIsNoKey DEF Under, Shape
<1>13. Levels(q, G, S, p, s)
  <2>1. /\ H[x] \in Nat /\ H[u] = H[x] + 1 /\ H[p] = H[u] + Weight(r, p)
        /\ H[mid] \in Nat /\ H[u] = H[mid] + Weight(r, u)
        /\ H[out] \in Nat /\ H[u] = H[out] + Weight(r, u)
    BY <1>1, <1>2, <1>3 DEF Brother
  <2>2. Weight(r, p) = 1 /\ Weight(r, u) = 0 BY <1>5 DEF Weight
  <2>3. /\ Lack(p, s, p, s) = 1 /\ Lack(p, far, p, s) = 0
        /\ Lack(u, s, p, s) = 0 /\ Lack(u, far, p, s) = 0
    BY <1>2, <1>4, Zenon DEF Lack
  <2>4. /\ g \in Nat /\ g = H[x] + Weight(q1, p) + Lack(p, s, p, s)
        /\ g = H[mid] + Weight(q1, p) + Lack(p, far, p, s)
        /\ H[p] = g + Weight(q1, u) + Lack(u, s, p, s)
        /\ H[p] = H[out] + Weight(q1, u) + Lack(u, far, p, s)
    <3>1. PICK i, j, k, l, m : i = H[x] /\ j = H[u] /\ k = H[p] /\ l = H[mid] /\ m = H[out]
      BY Zenon
    <3>2. i \in Nat /\ l \in Nat /\ m \in Nat /\ j = i + 1 /\ k = j + 1 /\ j = l + 0 /\ j = m + 0
          /\ g = i + 1
      BY <1>10, <2>1, <2>2, <3>1
    <3>3. g \in Nat /\ g = i + 0 + 1 /\ g = l + 0 + 0 /\ k = g + 1 + 0 /\ k = m + 1 + 0 BY <3>2
    <3> QED BY <1>8, <2>3, <3>1, <3>3
  <2>5. H \in [Pointers -> Nat] /\ H[NULL] = 0 BY <1>1 DEF Levels
  <2>6. \A m \in S \ {p, u}, y \in Sides : Level(q1, H, m, y, p, s)
    BY <1>1, <1>8, RestLevel
  <2> HIDE DEF mid, out
  <2>7. Fits(q1, H, D[q1.root], p, s, u, x, mid, out, p, s, g)
    BY <1>8, <2>4, <2>5, <2>6 DEF Fits
  <2>8. Levels(Rotated(q1, s, p), G, D[q1.root], p, s) BY <1>8, <1>9, <2>7, RotationLevels, Zenon
  <2> QED BY <1>8, <2>8, Zenon
<1>14. ~IsRed(q1, u) /\ ~IsRed(q1, x) /\ ~IsRed(q1, mid)
  <2>1. ~IsRed(r, mid)
    <3>1. Pale(r, u, s, NULL, NULL) BY <1>1, <1>4 DEF Pales
    <3> QED BY <1>4, <3>1 DEF Pale, IsRed, IsBlack
  <2> QED BY <1>1, <1>4, <1>7, <1>8, <2>1, Zenon DEF IsRed, IsBlack, Pointers
<1>15. Pales(q, S, NULL, NULL)
  <2>1. \A m \in Keys \ {p, u} : r.black[m] => q1.black[m] BY <1>8, Zenon
  <2>2. \A m \in D[r.root] \ {p, u}, y \in Sides : r.child[y][m] # p => Pale(q1, m, y, NULL, NULL)
    BY <1>1, <1>6, <1>8, <2>1, RestPale
  <2> HIDE DEF mid, out
  <2>3. Contrasts(q1, D[q1.root], p, u, x, mid, out, NULL, NULL)
    BY <1>8, <1>14, <2>2 DEF Contrasts
  <2>4. Pales(Rotated(q1, s, p), D[q1.root], NULL, NULL) BY <1>8, <1>9, <2>3, RotationPales
  <2> QED BY <1>8, <2>4
<1>16. /\ q.black = q1.black /\ q.root = IF r.root = p THEN u ELSE r.root
       /\ \A m : IsRed(q, m) <=> IsRed(q1, m)
  <2>1. Keeps(q1, q, p, u, mid) BY <1>11, TurnedFields
  <2> QED BY <1>8, <2>1, Zenon DEF Keeps
<1>17. ~IsRed(q, q.root)
  <2>1. CASE r.root = p BY <1>14, <1>16, <2>1
  <2>2. CASE r.root # p
    <3>1. r.root \in S /\ r.root \in Keys
      <4>1. r.root \in S BY <1>1 DEF Shape
      <4> QED BY <1>1, <4>1, NodeFacts
    <3>2. ~IsRed(q1, r.root) BY <1>1, <1>4, <1>8, <2>2, <3>1, Zenon DEF IsRed, IsBlack
    <3> QED BY <1>16, <2>2, <3>2, Zenon
  <2> QED BY <2>1, <2>2
<1>18. q.child[s][p] = x /\ q.child[far][p] = mid BY <1>11 DEF Turned
<1>19. Elsewhere(r, q, S)
  <2>1. Elsewhere(r, q1, S) BY <1>1, <1>4, ElsewhereFacts, Zenon
  <2>2. Elsewhere(q1, q, S) BY <1>11, ElsewhereFacts
  <2> QED BY <2>1, <2>2, ElsewhereFacts
<1>20. x # q.root BY <1>1, <1>4, <1>16
<1>21. ~IsRed(q, x) /\ IsBlack(q, q.child[far][p]) BY <1>14, <1>16, <1>18, Zenon DEF IsRed
<1> HIDE DEF E, G
<1>22. Torn(q, E, G, x, p, s)
  BY <1>1, <1>11, <1>13, <1>15, <1>17, <1>18, <1>20, <1>21 DEF Torn
<1> QED BY <1>11, <1>12, <1>19, <1>21, <1>22

\* The state of the loop.
Case(r, x, p) == [tree |-> r, x |-> x, p |-> p]

\* x is torn and its sibling is black.
Calm(r, D, H, x, p, s) == Torn(r, D, H, x, p, s) /\ IsBlack(r, r.child[Other(s)][p])

\* The side and the sibling of x in the loop of lgx_rb_del.
LEMMA CaseFacts ==
  ASSUME NEW r, NEW D, NEW H, NEW x, NEW p, NEW s, Torn(r, D, H, x, p, s)
  PROVE  /\ Side(Case(r, x, p)) = s
         /\ Sibling(Case(r, x, p)) = r.child[Other(s)][p]
<1>1. PICK c : c = Case(r, x, p) OBVIOUS
<1>2. c.tree = r /\ c.x = x /\ c.p = p BY <1>1 DEF Case
<1>3. SideOf(r, x, p) = s BY Brothers DEF Brother
<1>4. Side(c) = s BY <1>2, <1>3 DEF Side
<1>5. Sibling(c) = r.child[Other(s)][p] BY <1>2, <1>4 DEF Sibling
<1> QED BY <1>1, <1>4, <1>5

\* A red sibling is rotated away; x has a black one then, and lacks as much as before.
LEMMA BlackSiblingKeeps ==
  ASSUME NEW r, NEW D, NEW H, NEW x, NEW p, NEW s, Torn(r, D, H, x, p, s)
  PROVE  \E q, E, G : /\ BlackSibling(Case(r, x, p)) = Case(q, x, p) /\ Calm(q, E, G, x, p, s)
                      /\ E[q.root] = D[r.root] /\ E[x] = D[x] /\ Elsewhere(r, q, D[r.root])
<1>1. PICK c : c = Case(r, x, p) OBVIOUS
<1>2. PICK u : u = r.child[Other(s)][p] OBVIOUS
<1>3. c.tree = r /\ c.x = x /\ c.p = p BY <1>1 DEF Case
<1>4. Side(c) = s /\ Sibling(c) = u BY <1>1, <1>2, CaseFacts
<1>5. CASE IsBlack(r, u)
  <2>1. BlackSibling(c) = c BY <1>3, <1>4, <1>5 DEF BlackSibling
  <2>2. Elsewhere(r, r, D[r.root]) BY DEF Elsewhere
  <2>3. Calm(r, D, H, x, p, s) BY <1>2, <1>5 DEF Calm
  <2> QED BY <1>1, <2>1, <2>2, <2>3
<1>6. CASE ~IsBlack(r, u)
  <2>1. PICK q1 : q1 = [r EXCEPT !.black[u] = TRUE, !.black[p] = FALSE] OBVIOUS
  <2>2. PICK q : q = Rotated(q1, s, p) OBVIOUS
  <2>3. BlackSibling(c) = [c EXCEPT !.tree = q] BY <1>3, <1>4, <1>6, <2>1, <2>2 DEF BlackSibling
  <2>4. BlackSibling(c) = Case(q, x, p) BY <1>1, <2>3, Zenon DEF Case
  <2>5. r \in Trees /\ p \in Keys /\ u \in Keys
    <3>1. Brother(r, D, H, x, p, s, u) BY <1>2, Brothers
    <3> QED BY <3>1 DEF Brother, Torn, Shape
  <2>6. Painted(r, q1, {u}, {p}) BY <2>1, <2>5 DEF Painted, Recoloured, Trees
  <2>7. IsRed(r, u) BY <1>6 DEF IsRed
  <2>8. PICK E, G : /\ Torn(q, E, G, x, p, s) /\ E[q.root] = D[r.root] /\ E[x] = D[x]
                    /\ Elsewhere(r, q, D[r.root]) /\ IsBlack(q, q.child[Other(s)][p])
    BY <1>2, <2>2, <2>6, <2>7, RedSiblingKeeps
  <2>9. Calm(q, E, G, x, p, s) BY <2>8, Zenon DEF Calm
  <2> QED BY <1>1, <2>4, <2>8, <2>9
<1> QED BY <1>5, <1>6

\* The sibling turns red: now the paths through the parent lack a black node.
LEMMA ClimbedKeeps ==
  ASSUME NEW r, NEW D, NEW H, NEW x, NEW p, NEW s, Calm(r, D, H, x, p, s),
         NEW u, u = r.child[Other(s)][p], \A y \in Sides : IsBlack(r, r.child[y][u]),
         NEW q, Painted(r, q, {u}, {u})
  PROVE  /\ \E G, z : Lacking(q, D, G, p, r.parent[p], z)
         /\ q.root = r.root /\ q.parent = r.parent /\ Elsewhere(r, q, D[r.root])
         /\ D[x] \subseteq D[p] /\ D[x] # D[p]
<1> DEFINE S == D[r.root]
           far == Other(s)
<1>1. /\ Shape(r, D) /\ Levels(r, H, S, p, s) /\ Pales(r, S, NULL, NULL)
      /\ ~IsRed(r, r.root) /\ ~IsRed(r, x) /\ p \in S /\ s \in Sides /\ x = r.child[s][p]
      /\ x # r.root
  BY DEF Torn, Calm
<1>2. far \in Sides /\ Other(far) = s /\ far # s /\ \A y \in Sides : y \in {s, far}
  BY <1>1, SideFacts
<1>3. Brother(r, D, H, x, p, s, u) BY Brothers, Zenon DEF Calm
<1>4. /\ p \in Keys /\ p # NULL /\ u \in Keys /\ u # NULL /\ u \in S /\ u # p /\ x # u /\ x # p
      /\ x \in Pointers /\ u # r.root /\ r.parent[u] = p
      /\ H[x] \in Nat /\ H[u] = H[x] + 1 /\ H[p] = H[u] + Weight(r, p)
      /\ \A y \in Sides : /\ r.child[y][u] \in Pointers /\ H[r.child[y][u]] \in Nat
                          /\ H[u] = H[r.child[y][u]] + Weight(r, u)
      /\ D[x] \subseteq D[p] /\ p \in D[p] /\ p \notin D[x]
  BY <1>3 DEF Brother
<1>5. r.black[u] BY <1>1, <1>4, ZenonT(60) DEF Calm, IsBlack
<1>6. /\ q \in Trees /\ q.root = r.root /\ q.child = r.child /\ q.parent = r.parent
      /\ Shape(q, D) /\ ~q.black[u] /\ Weight(q, u) = 0
      /\ \A m \in Keys \ {u} : q.black[m] = r.black[m] /\ Weight(q, m) = Weight(r, m)
  <2>1. Shade(r, q, {u}, {u}) BY PaintedFacts, Zenon
  <2> QED BY <1>1, <1>4, <2>1 DEF Shade
<1>7. Elsewhere(r, q, S) BY <1>4, ElsewhereFacts, Zenon
<1>8. S \subseteq Keys BY <1>1, NodeFacts
<1>9. PICK pp, z : IF p = r.root THEN pp = NULL /\ z = "left"
                   ELSE pp = r.parent[p] /\ z = SideOf(r, p, pp)
  <2>1. CASE p = r.root BY <2>1
  <2>2. CASE p # r.root BY <2>2
  <2> QED BY <2>1, <2>2
<1>10. /\ pp # p /\ pp # u
       /\ \A m \in S, y \in Sides : r.child[y][m] = p <=> m = pp /\ y = z
  <2>1. CASE p = r.root
    <3>1. ASSUME NEW m \in S, NEW y \in Sides PROVE r.child[y][m] # p
      <4>1. r.child[y][m] # NULL => r.parent[r.child[y][m]] = m BY <1>1, NodeFacts
      <4>2. r.parent[p] = NULL /\ m # NULL BY <1>1, <1>8, <2>1, NodeFacts, NullIsNoKey
      <4> QED BY <1>4, <4>1, <4>2, Zenon
    <3> QED BY <1>4, <1>8, <1>9, <2>1, <3>1, NullIsNoKey, Zenon
  <2>2. CASE p # r.root
    <3>1. /\ pp \in S /\ z \in Sides /\ r.child[z][pp] = p
          /\ \A m \in S, y \in Sides : r.child[y][m] = p => m = pp /\ y = z
      BY <1>1, <1>9, <2>2, SideOfFacts
    <3>2. Fork(r, D, pp, z, p, r.child[Other(z)][pp]) BY <1>1, <3>1, ForkFacts
    <3>3. pp \notin D[p] BY <3>2, Zenon DEF Fork
    <3>4. u \in D[p]
      <4>1. Fork(r, D, p, s, x, u) BY <1>1, ForkFacts
      <4> QED BY <1>4, <4>1 DEF Fork
    <3> QED BY <1>4, <3>1, <3>3, <3>4
  <2> QED BY <2>1, <2>2
<1>11. PICK i, j : i = H[x] /\ j = H[x] + Weight(r, p) OBVIOUS
<1>12. i \in Nat /\ j \in Nat /\ H[u] = i + 1 /\ H[p] = j + 1 /\ j = i + Weight(r, p)
  <2>1. PICK w, k, l : w = Weight(r, p) /\ k = H[u] /\ l = H[p] OBVIOUS
  <2>2. w \in Nat BY <2>1, Zenon DEF Weight
  <2>3. k = i + 1 /\ l = k + w /\ i \in Nat /\ j = i + w BY <1>4, <1>11, <2>1
  <2>4. l = j + 1 /\ j \in Nat BY <2>2, <2>3
  <2> QED BY <2>1, <2>3, <2>4
<1> DEFINE G == [H EXCEPT ![u] = i, ![p] = j]
<1>13. /\ H \in [Pointers -> Nat] /\ H[NULL] = 0
       /\ \A m \in S : H[m] \in Nat /\ Weight(r, m) \in {0, 1}
       /\ \A m \in S, y \in Sides : H[r.child[y][m]] \in Nat
       /\ \A m \in S, y \in Sides : H[m] = H[r.child[y][m]] + Weight(r, m) + Lack(m, y, p, s)
  <2>1. Heights(r, H, S, p, s) BY <1>1, HeightTypes, Zenon
  <2> QED BY <2>1 DEF Heights
<1>14. /\ G \in [Pointers -> Nat] /\ G[NULL] = 0 /\ G[u] = i /\ G[p] = j
       /\ \A m \in Pointers \ {u, p} : G[m] = H[m]
  BY <1>4, <1>12, <1>13, NullIsNoKey
<1> HIDE DEF G
<1>15. ASSUME NEW m \in S, NEW y \in Sides PROVE Level(q, G, m, y, pp, z)
  <2>1. PICK c : c = r.child[y][m] OBVIOUS
  <2>2. /\ c \in Pointers /\ m \in Keys /\ m \in Pointers /\ m # NULL
        /\ c # NULL => r.parent[c] = m
    BY <1>1, <1>8, <2>1, NodeFacts, NullIsNoKey
  <2>3. q.child[y][m] = c BY <1>6, <2>1
  <2>4. CASE m = p
    <3>1. c \in {x, u} BY <1>1, <1>2, <2>1, <2>4, Zenon
    <3>2. G[c] = i BY <1>4, <1>11, <1>14, <3>1, Zenon
    <3>3. Weight(q, m) = Weight(r, p) BY <1>4, <1>6, <2>4
    <3>4. Lack(m, y, pp, z) = 0 BY <1>10, <2>4 DEF Lack
    <3>5. PICK w : w = Weight(r, p) OBVIOUS
    <3>6. w \in Nat /\ j = i + w + 0 BY <1>12, <3>5 DEF Weight
    <3> QED BY <1>14, <2>3, <2>4, <3>2, <3>3, <3>4, <3>5, <3>6 DEF Level
  <2>5. CASE m = u
    <3>1. H[c] \in Nat /\ H[u] = H[c] + 1
      <4>1. Weight(r, u) = 1 BY <1>5 DEF Weight
      <4> QED BY <1>4, <2>1, <2>5, <4>1
    <3>2. c \notin {u, p}
      <4>1. Fork(r, D, m, y, c, r.child[Other(y)][m]) BY <1>1, <2>1, ForkFacts
      <4>2. c # u BY <1>4, <2>5, <4>1, Zenon DEF Fork
      <4>3. c # p BY <1>4, <1>10, <2>1, <2>5
      <4> QED BY <4>2, <4>3
    <3>3. G[c] = H[c] BY <1>14, <2>2, <3>2
    <3>4. Lack(m, y, pp, z) = 0 BY <1>10, <2>5 DEF Lack
    <3>5. PICK k : k = H[c] OBVIOUS
    <3>6. k \in Nat /\ i = k + 0 + 0
      <4>1. k \in Nat /\ i + 1 = k + 1 BY <1>12, <3>1, <3>5
      <4> QED BY <1>12, <4>1
    <3> QED BY <1>6, <1>14, <2>3, <2>5, <3>3, <3>4, <3>5, <3>6, Zenon DEF Level
  <2>6. CASE m \notin {u, p}
    <3>1. PICK h, k, w : h = H[m] /\ k = H[c] /\ w = Weight(r, m) OBVIOUS
    <3>2. h \in Nat /\ k \in Nat /\ w \in Nat /\ h = k + w
      <4>1. Lack(m, y, p, s) = 0 BY <2>6 DEF Lack
      <4>2. H[m] = H[c] + Weight(r, m) + Lack(m, y, p, s) /\ w \in Nat /\ h \in Nat /\ k \in Nat
        BY <1>13, <2>1, <3>1 DEF Weight
      <4> QED BY <3>1, <4>1, <4>2
    <3>3. Weight(q, m) = w /\ G[m] = h BY <1>6, <1>14, <2>2, <2>6, <3>1, Zenon
    <3>4. c # u BY <1>4, <2>2, <2>6
    <3>5. CASE c = p
      <4>1. Lack(m, y, pp, z) = 1 BY <1>10, <2>1, <3>5 DEF Lack
      <4>2. k = j + 1 BY <1>12, <3>1, <3>5
      <4>3. h = j + w + 1 BY <1>12, <3>2, <4>2
      <4> QED BY <1>14, <2>3, <3>3, <3>5, <4>1, <4>3 DEF Level
    <3>6. CASE c # p
      <4>1. Lack(m, y, pp, z) = 0 BY <1>10, <2>1, <3>6 DEF Lack
      <4>2. G[c] = k BY <1>14, <2>2, <3>1, <3>4, <3>6
      <4>3. h = k + w + 0 BY <3>2
      <4> QED BY <2>3, <3>3, <4>1, <4>2, <4>3 DEF Level
    <3> QED BY <3>5, <3>6
  <2> QED BY <2>4, <2>5, <2>6
<1>16. Levels(q, G, S, pp, z) BY <1>14, <1>15 DEF Levels
<1>17. ASSUME NEW m \in S, NEW y \in Sides, IsRed(q, m), IsRed(q, q.child[y][m])
       PROVE  m = p
  <2>1. PICK c : c = r.child[y][m] /\ q.child[y][m] = c BY <1>6, Zenon
  <2>2. /\ c \in Pointers /\ m \in Keys /\ m # NULL
        /\ c # NULL => r.parent[c] = m
    BY <1>1, <1>8, <2>1, NodeFacts, NullIsNoKey
  <2>3. c # NULL /\ c \in Keys BY <1>17, <2>1, <2>2, Zenon DEF IsRed, IsBlack, Pointers
  <2>4. CASE c = u BY <1>4, <2>2, <2>4
  <2>5. CASE c # u
    <3>1. IsRed(r, c) BY <1>6, <1>17, <2>1, <2>3, <2>5 DEF IsRed, IsBlack
    <3>2. m # u
      <4>1. m = u => IsBlack(r, c) BY <2>1, Zenon
      <4> QED BY <3>1, <4>1 DEF IsRed
    <3>3. IsRed(r, m) BY <1>6, <1>17, <2>2, <3>2 DEF IsRed, IsBlack
    <3>4. Pale(r, m, y, NULL, NULL) BY <1>1 DEF Pales
    <3> QED BY <2>1, <2>2, <2>3, <3>1, <3>3, <3>4, Zenon DEF Pale
  <2> QED BY <2>4, <2>5
<1>18. Pales(q, S, p, p) BY <1>17 DEF Pales, Pale
<1>19. ~IsRed(q, q.root)
  <2>1. r.root \in S /\ r.root \in Keys
    <3>1. r.root # NULL BY <1>1 DEF Shape
    <3>2. r.root \in S BY <1>1, <3>1 DEF Shape
    <3> QED BY <1>8, <3>2
  <2> QED BY <1>1, <1>4, <1>6, <2>1, Zenon DEF IsRed, IsBlack
<1>20. \E v : Lacking(q, D, G, p, r.parent[p], v)
  <2>1. CASE p = r.root
    <3>1. Levels(q, G, S, NULL, "left") BY <1>9, <1>16, <2>1
    <3> QED BY <1>6, <1>18, <1>19, <2>1, <3>1 DEF Lacking
  <2>2. CASE p # r.root
    <3>1. pp = r.parent[p] BY <1>9, <2>2
    <3>2. pp \in S /\ z \in Sides /\ r.child[z][pp] = p BY <1>1, <1>9, <2>2, SideOfFacts
    <3>3. Lacking(q, D, G, p, pp, z)
      BY <1>6, <1>16, <1>18, <1>19, <2>2, <3>2, Zenon DEF Lacking
    <3> QED BY <3>1, <3>3
  <2> QED BY <2>1, <2>2
<1> QED BY <1>4, <1>6, <1>7, <1>20

\* The sibling of x and its red nephew on the far side.
Ready(r, D, H, x, p, s, u, f) ==
  /\ Calm(r, D, H, x, p, s) /\ u = r.child[Other(s)][p] /\ f = r.child[Other(s)][u]
  /\ IsRed(r, f)

\* Of the sibling's children only the one next to x is red: it becomes the sibling.
LEMMA NearNephewKeeps ==
  ASSUME NEW r, NEW D, NEW H, NEW x, NEW p, NEW s, Calm(r, D, H, x, p, s),
         NEW u, u = r.child[Other(s)][p], NEW near, near = r.child[s][u], IsRed(r, near),
         NEW low, low = r.child[Other(s)][u], ~IsRed(r, low),
         NEW q1, Painted(r, q1, {near}, {u}), NEW q, q = Rotated(q1, Other(s), u)
  PROVE  \E E, G : /\ Ready(q, E, G, x, p, s, near, u) /\ E[q.root] = D[r.root]
                   /\ Elsewhere(r, q, D[r.root])
<1> DEFINE S == D[r.root]
<1>0. PICK far, mid, out : far = Other(s) /\ mid = r.child[far][near] /\ out = r.child[s][near]
  OBVIOUS
<1>1. /\ Shape(r, D) /\ Levels(r, H, S, p, s) /\ Pales(r, S, NULL, NULL)
      /\ ~IsRed(r, r.root) /\ ~IsRed(r, x) /\ p \in S /\ s \in Sides /\ x = r.child[s][p]
      /\ x # r.root
  BY DEF Torn, Calm
<1>2. far \in Sides /\ Other(far) = s /\ far # s /\ \A y \in Sides : y \in {s, far}
  BY <1>0, <1>1, SideFacts
<1>3. Brother(r, D, H, x, p, s, u) BY Brothers DEF Calm
<1>4. /\ p \in Keys /\ p # NULL /\ u \in Keys /\ u # NULL /\ u \in S /\ u # p /\ x # u /\ x # p
      /\ x \in Pointers /\ u # r.root /\ near \in Pointers
  BY <1>1, <1>3, ZenonT(60) DEF Brother
<1>5. near # NULL /\ near \in Keys /\ ~r.black[near] /\ r.black[u]
  <2>1. near # NULL /\ ~r.black[near] BY DEF IsRed, IsBlack
  <2>2. r.black[u] BY <1>4, Zenon DEF Calm, IsBlack
  <2> QED BY <1>4, <2>1, <2>2, Zenon DEF Pointers
<1>6. Pivot(r, D, u, far, near, low, mid, out) BY <1>0, <1>1, <1>2, <1>4, <1>5, Pivots
<1>7. /\ mid \in Pointers /\ mid \notin {u, near} /\ out \in Pointers /\ out \notin {u, near}
      /\ low \in Pointers /\ low \notin {u, near} /\ near \in S /\ near # u
  BY <1>6, Zenon DEF Pivot
<1>8. /\ q1 \in Trees /\ q1.root = r.root /\ q1.child = r.child /\ q1.parent = r.parent
      /\ Shape(q1, D) /\ q1.black[near] /\ ~q1.black[u] /\ Weight(q1, near) = 1
      /\ Weight(q1, u) = 0
      /\ \A m \in Keys \ {u, near} : q1.black[m] = r.black[m] /\ Weight(q1, m) = Weight(r, m)
  <2>1. Shade(r, q1, {near}, {u}) BY PaintedFacts, Zenon
  <2> QED BY <1>1, <1>4, <1>5, <1>7, <2>1, Zenon DEF Shade
<1>81. Shape(q1, D) /\ q1.child = r.child /\ q1.root = r.root BY <1>8, Zenon
<1>9. Pivot(q1, D, u, far, near, low, mid, out) BY <1>6, PivotPainted, Zenon
<1>10. PICK g : g = H[near] OBVIOUS
<1> DEFINE E == Under(D, u, near, low, mid)
           G == [H EXCEPT ![near] = H[u], ![u] = g]
<1>11. Shape(q, E) /\ E[q.root] = S /\ Turned(q1, q, S, far, u, near, low, mid, out)
  <2>1. /\ Turned(q1, Rotated(q1, far, u), D[q1.root], far, u, near, low, mid, out)
        /\ Shape(Rotated(q1, far, u), Under(D, u, near, low, mid))
        /\ Under(D, u, near, low, mid)[Rotated(q1, far, u).root] = D[q1.root]
    BY <1>81, <1>9, Rotation
  <2> QED BY <1>0, <1>81, <2>1, ZenonT(60)
<1>12. /\ near # p /\ near # x /\ near # r.root
  <2>1. Fork(r, D, p, s, x, u) BY <1>1, ForkFacts
  <2>2. r.parent[near] = u /\ near \in D[u]
    <3>1. Fork(r, D, u, far, low, near) BY <1>6, ZenonT(60) DEF Pivot
    <3> QED BY <1>5, <3>1, Zenon DEF Fork
  <2>3. near # p BY <2>1, <2>2 DEF Fork
  <2>4. near # x BY <1>4, <1>5, <2>1, <2>2, ZenonT(60) DEF Fork
  <2>5. near # r.root BY <1>1, <1>4, <1>7, <2>2, NodeFacts, Zenon
  <2> QED BY <2>3, <2>4, <2>5
<1>13. Levels(q, G, S, p, s)
  <2>1. /\ H[low] \in Nat /\ H[u] = H[low] + Weight(r, u)
        /\ H[near] \in Nat /\ H[u] = H[near] + Weight(r, u)
    BY <1>0, <1>1, <1>2, <1>3, Zenon DEF Brother
  <2>2. /\ H[mid] \in Nat /\ H[near] = H[mid] + Weight(r, near) + Lack(near, far, p, s)
        /\ H[out] \in Nat /\ H[near] = H[out] + Weight(r, near) + Lack(near, s, p, s)
    <3>1. Heights(r, H, S, p, s) BY <1>1, HeightTypes, Zenon
    <3> QED BY <1>0, <1>1, <1>2, <1>7, <3>1, Zenon DEF Heights
  <2>3. Weight(r, u) = 1 /\ Weight(r, near) = 0 BY <1>5 DEF Weight
  <2>4. /\ Lack(u, far, p, s) = 0 /\ Lack(u, s, p, s) = 0
        /\ Lack(near, far, p, s) = 0 /\ Lack(near, s, p, s) = 0
    BY <1>4, <1>12, Zenon DEF Lack
  <2>5. /\ g \in Nat /\ g = H[low] + Weight(q1, u) + Lack(u, far, p, s)
        /\ g = H[mid] + Weight(q1, u) + Lack(u, s, p, s)
        /\ H[u] = g + Weight(q1, near) + Lack(near, far, p, s)
        /\ H[u] = H[out] + Weight(q1, near) + Lack(near, s, p, s)
    <3>1. PICK i, j, l, m : i = H[low] /\ j = H[u] /\ l = H[mid] /\ m = H[out] BY Zenon
    <3>2. i \in Nat /\ l \in Nat /\ m \in Nat /\ g \in Nat /\ j = i + 1 /\ j = g + 1
          /\ g = l + 0 + 0 /\ g = m + 0 + 0
      BY <1>10, <2>1, <2>2, <2>3, <2>4, <3>1
    <3>3. g = i + 0 + 0 /\ g = l + 0 + 0 /\ j = g + 1 + 0 /\ j = m + 1 + 0 BY <3>2
    <3> QED BY <1>8, <2>4, <3>1, <3>2, <3>3
  <2>6. H \in [Pointers -> Nat] /\ H[NULL] = 0 BY <1>1 DEF Levels
  <2>7. \A m \in S \ {u, near}, y \in Sides : Level(q1, H, m, y, p, s)
    BY <1>1, <1>8, RestLevel, ZenonT(60)
  <2>8. Fits(q1, H, D[q1.root], u, far, near, low, mid, out, p, s, g)
    BY <1>0, <1>2, <1>81, <2>5, <2>6, <2>7, Zenon DEF Fits
  <2>9. Levels(Rotated(q1, far, u), G, D[q1.root], p, s) BY <1>81, <1>9, <2>8, RotationLevels, Zenon
  <2> QED BY <1>0, <1>81, <2>9
<1>14. ~IsRed(q1, near) /\ ~IsRed(q1, x) /\ ~IsRed(q1, mid) /\ ~IsRed(q1, low) /\ IsRed(q1, u)
  <2>1. ~IsRed(r, mid)
    <3>1. Pale(r, near, far, NULL, NULL) BY <1>1, <1>2, <1>7 DEF Pales
    <3> QED BY <1>0, <1>5, <3>1, Zenon DEF Pale, IsRed, IsBlack
  <2> QED BY <1>1, <1>4, <1>7, <1>8, <1>12, <2>1, Zenon DEF IsRed, IsBlack, Pointers
<1>15. Pales(q, S, NULL, NULL)
  <2>1. \A m \in Keys \ {u, near} : r.black[m] => q1.black[m] BY <1>8, Zenon
  <2>2. ASSUME NEW m \in D[r.root] \ {u, near}, NEW y \in Sides, r.child[y][m] # u
        PROVE  Pale(q1, m, y, NULL, NULL)
    BY <1>1, <1>6, <1>81, <2>1, <2>2, RestPale
  <2>3. Contrasts(q1, D[q1.root], u, near, low, mid, out, NULL, NULL)
    BY <1>81, <1>14, <2>2, Zenon DEF Contrasts
  <2>4. Pales(Rotated(q1, far, u), D[q1.root], NULL, NULL)
    BY <1>81, <1>9, <2>3, RotationPales, Zenon
  <2> QED BY <1>0, <1>81, <2>4, Zenon
<1>16. /\ q.black = q1.black /\ q.root = r.root /\ \A m : IsRed(q, m) <=> IsRed(q1, m)
  <2>1. Keeps(q1, q, u, near, mid) BY <1>11, TurnedFields, Zenon
  <2> QED BY <1>4, <1>8, <2>1, ZenonT(60) DEF Keeps
<1>17. ~IsRed(q, q.root)
  <2>1. r.root \in S /\ r.root \in Keys
    <3>1. r.root \in S BY <1>1, Zenon DEF Shape
    <3> QED BY <1>1, <3>1, NodeFacts
  <2>2. ~IsRed(q1, r.root) BY <1>1, <1>4, <1>8, <1>12, <2>1, Zenon DEF IsRed, IsBlack
  <2> QED BY <1>16, <2>2, Zenon
<1>18. q.child[s][p] = x /\ q.child[far][p] = near /\ q.child[far][near] = u
  <2>1. /\ q.child[far][near] = u
        /\ \A y \in Sides : q.child[y][p] = IF q1.child[y][p] = u THEN near ELSE q1.child[y][p]
    BY <1>1, <1>4, <1>11, <1>12, Zenon DEF Turned
  <2> QED BY <1>0, <1>1, <1>2, <1>4, <1>8, <2>1, ZenonT(60)
<1>19. Elsewhere(r, q, S)
  <2>1. Elsewhere(r, q1, S) BY <1>4, <1>7, ElsewhereFacts
  <2>2. Elsewhere(q1, q, S) BY <1>11, ElsewhereFacts, Zenon
  <2> QED BY <2>1, <2>2, ElsewhereFacts
<1>20. ~IsRed(q, x) /\ IsBlack(q, q.child[far][p]) /\ IsRed(q, u)
  BY <1>14, <1>16, <1>18, Zenon DEF IsRed
<1> HIDE DEF E, G
<1>21. Torn(q, E, G, x, p, s)
  BY <1>0, <1>1, <1>11, <1>13, <1>15, <1>16, <1>17, <1>18, <1>20, Zenon DEF Torn
<1>22. Ready(q, E, G, x, p, s, near, u) BY <1>0, <1>18, <1>20, <1>21, Zenon DEF Ready, Calm
<1> QED BY <1>11, <1>19, <1>22, Zenon

\* With a red nephew, the far one can be made red.
LEMMA RedNephewKeeps ==
  ASSUME NEW r, NEW D, NEW H, NEW x, NEW p, NEW s, Calm(r, D, H, x, p, s),
         ~Climbs(Case(r, x, p))
  PROVE  \E q, E, G, u, f :
           /\ RedNephew(Case(r, x, p)) = Case(q, x, p) /\ Ready(q, E, G, x, p, s, u, f)
           /\ E[q.root] = D[r.root] /\ Elsewhere(r, q, D[r.root])
<1>1. PICK c : c = Case(r, x, p) OBVIOUS
<1>2. PICK u : u = r.child[Other(s)][p] OBVIOUS
<1>3. PICK near, f : near = r.child[s][u] /\ f = r.child[Other(s)][u] OBVIOUS
<1>4. c.tree = r /\ c.x = x /\ c.p = p BY <1>1 DEF Case
<1>5. Side(c) = s /\ Sibling(c) = u BY <1>1, <1>2, CaseFacts DEF Calm
<1>6. IsRed(r, near) \/ IsRed(r, f)
  <2>1. PICK y \in Sides : ~IsBlack(r, r.child[y][u]) BY <1>1, <1>4, <1>5 DEF Climbs
  <2>2. s \in Sides BY DEF Calm, Torn
  <2>3. y = s \/ y = Other(s) BY <2>2, SideFacts
  <2> QED BY <1>3, <2>1, <2>3 DEF IsRed
<1>7. CASE IsRed(r, f)
  <2>1. RedNephew(c) = c BY <1>3, <1>4, <1>5, <1>7 DEF RedNephew
  <2>2. Elsewhere(r, r, D[r.root]) BY DEF Elsewhere
  <2>3. Ready(r, D, H, x, p, s, u, f) BY <1>2, <1>3, <1>7 DEF Ready
  <2> QED BY <1>1, <2>1, <2>2, <2>3
<1>8. CASE ~IsRed(r, f)
  <2>1. near # NULL /\ IsRed(r, near) BY <1>6, <1>8 DEF IsRed, IsBlack
  <2>2. PICK q1 : q1 = [[r EXCEPT !.black[near] = TRUE] EXCEPT !.black[u] = FALSE] OBVIOUS
  <2>3. PICK q : q = Rotated(q1, Other(s), u) OBVIOUS
  <2>4. Coloured(r, near, TRUE) = [r EXCEPT !.black[near] = TRUE] BY <2>1 DEF Coloured
  <2>5. RedNephew(c) = [c EXCEPT !.tree = q]
    BY <1>3, <1>4, <1>5, <1>8, <2>2, <2>3, <2>4 DEF RedNephew
  <2>6. RedNephew(c) = Case(q, x, p) BY <1>1, <2>5 DEF Case
  <2>7. r \in Trees /\ u \in Keys /\ near \in Keys
    <3>1. Brother(r, D, H, x, p, s, u) BY <1>2, Brothers, Zenon DEF Calm
    <3>2. near \in Pointers BY <1>3, <3>1 DEF Brother, Calm, Torn
    <3> QED BY <2>1, <3>1, <3>2, Zenon DEF Brother, Torn, Calm, Shape, Pointers
  <2>8. Painted(r, q1, {near}, {u}) BY <2>2, <2>7 DEF Painted, Recoloured, Trees
  <2>9. PICK E, G : /\ Ready(q, E, G, x, p, s, near, u) /\ E[q.root] = D[r.root]
                    /\ Elsewhere(r, q, D[r.root])
    BY <1>2, <1>3, <1>8, <2>1, <2>3, <2>8, NearNephewKeeps
  <2> QED BY <1>1, <2>6, <2>9
<1> QED BY <1>7, <1>8

\* The sibling u takes the colour of the parent p, which turns black like the red nephew f.
Refills(r, q, p, u, f) ==
  /\ Recoloured(r, q) /\ q.black[u] = r.black[p] /\ q.black[p] /\ q.black[f]
  /\ \A m \in Keys \ {u, p, f} : q.black[m] = r.black[m]

Refilled(r, q, p, u, f) ==
  /\ q.child = r.child /\ q.root = r.root /\ q.parent = r.parent
  /\ Weight(q, u) = Weight(r, p) /\ Weight(q, p) = 1 /\ Weight(q, f) = 1
  /\ \A m \in Keys \ {u, p, f} : Weight(q, m) = Weight(r, m)
  /\ IsRed(q, u) <=> IsRed(r, p)
  /\ ~IsRed(q, p) /\ ~IsRed(q, f)
  /\ \A m \in Keys \ {u, p, f} : IsRed(q, m) <=> IsRed(r, m)

\* The colours the last case writes before it rotates.
LEMMA RefilledFields ==
  ASSUME NEW r, NEW D, Shape(r, D), NEW q, NEW p \in Keys, NEW u \in Keys, NEW f \in Keys,
         p # u, p # f, u # f, Refills(r, q, p, u, f)
  PROVE  Shape(q, D) /\ Refilled(r, q, p, u, f)
<1>1. Shape(q, D) BY RecolouredShape DEF Refills
<1>2. q.child = r.child /\ q.root = r.root /\ q.parent = r.parent
  BY DEF Refills, Recoloured
<1>3. /\ q.black[u] = r.black[p] /\ q.black[p] /\ q.black[f]
      /\ \A m \in Keys \ {u, p, f} : q.black[m] = r.black[m]
  BY DEF Refills
<1>4. /\ Weight(q, u) = Weight(r, p) /\ Weight(q, p) = 1 /\ Weight(q, f) = 1
      /\ \A m \in Keys \ {u, p, f} : Weight(q, m) = Weight(r, m)
  BY <1>3 DEF Weight
<1>5. /\ IsRed(q, u) <=> IsRed(r, p)
      /\ ~IsRed(q, p) /\ ~IsRed(q, f)
      /\ \A m \in Keys \ {u, p, f} : IsRed(q, m) <=> IsRed(r, m)
  BY <1>3, NullIsNoKey DEF IsRed, IsBlack
<1> QED BY <1>1, <1>2, <1>4, <1>5 DEF Refilled

\* A change of colours does not move the pivot.
LEMMA PivotRecoloured ==
  ASSUME NEW r, NEW D, NEW n, NEW side, NEW top, NEW low, NEW mid, NEW out,
         Pivot(r, D, n, side, top, low, mid, out), NEW q, Recoloured(r, q)
  PROVE  Pivot(q, D, n, side, top, low, mid, out)
BY Zenon DEF Pivot, Fork, Recoloured

\* What is where when a red nephew is on the far side, and the numbers of black nodes below.
Nephew(r, D, H, x, p, s, u, mid, f, S) ==
  /\ Pivot(r, D, p, s, u, x, mid, f)
  /\ f \in Keys /\ f \in S /\ f # x /\ f # mid /\ f # p /\ f # u /\ u # p /\ f # r.root /\ u # r.root
  /\ r.parent[f] = u /\ r.parent[u] = p
  /\ x \in Pointers /\ x \notin {p, u} /\ mid \in Pointers /\ mid \notin {p, u}
  /\ H \in [Pointers -> Nat] /\ H[NULL] = 0
  /\ H[mid] = H[x] /\ H[f] = H[x] /\ H[p] = H[x] + 1 + Weight(r, p)
  /\ r.black[u] /\ ~r.black[f] /\ ~IsRed(r, x)

\* The sibling and its children in the last case.
LEMMA Nephews ==
  ASSUME NEW r, NEW D, NEW H, NEW x, NEW p, NEW s, NEW u, NEW f, Ready(r, D, H, x, p, s, u, f),
         NEW mid, mid = r.child[s][u]
  PROVE  Nephew(r, D, H, x, p, s, u, mid, f, D[r.root])
<1> DEFINE S == D[r.root]
<1>0. PICK far : far = Other(s) OBVIOUS
<1>1. /\ Shape(r, D) /\ Levels(r, H, S, p, s) /\ ~IsRed(r, x) /\ p \in S /\ s \in Sides
      /\ x = r.child[s][p] /\ u = r.child[far][p] /\ f = r.child[far][u]
      /\ IsBlack(r, u) /\ IsRed(r, f)
  BY <1>0 DEF Torn, Calm, Ready
<1>2. far \in Sides /\ far # s BY <1>0, <1>1, SideFacts
<1>3. Brother(r, D, H, x, p, s, u)
  <2>1. Torn(r, D, H, x, p, s) /\ u = r.child[Other(s)][p] BY DEF Ready, Calm
  <2> QED BY <2>1, Brothers
<1>4. /\ p \in Keys /\ p # NULL /\ u \in Keys /\ u # NULL /\ u \in S /\ u # p /\ x # u /\ x # p
      /\ x \in Pointers /\ u # r.root /\ r.parent[u] = p
  BY <1>3 DEF Brother
<1>5. f # NULL /\ ~r.black[f] /\ r.black[u] BY <1>1, <1>4 DEF IsRed, IsBlack
<1>6. Pivot(r, D, p, s, u, x, mid, f) BY <1>0, <1>1, <1>4, Pivots, Zenon
<1>7. /\ mid \in Pointers /\ mid \notin {p, u} /\ f \notin {p, u} /\ Fork(r, D, u, s, mid, f)
      /\ Fork(r, D, p, s, x, u)
  BY <1>6 DEF Pivot
<1>8. f \in Keys /\ f \in S /\ f # mid /\ r.parent[f] = u /\ f \in D[f] BY <1>5, <1>7 DEF Fork
<1>9. f # x
  <2>1. x # NULL => r.parent[x] = p BY <1>7 DEF Fork
  <2> QED BY <1>4, <1>5, <1>8, <2>1
<1>10. f # r.root
  <2>1. Shape(r, D) BY <1>1
  <2>2. f = r.root => r.parent[f] = NULL BY <1>8, <2>1, NodeFacts
  <2> QED BY <1>4, <1>8, <2>2
<1>11. /\ H \in [Pointers -> Nat] /\ H[NULL] = 0
  BY <1>1 DEF Levels
<1>12. H[mid] = H[x] /\ H[f] = H[x] /\ H[p] = H[x] + 1 + Weight(r, p)
  <2>1. PICK i, j, k, l, m, w : /\ i = H[x] /\ j = H[u] /\ k = H[p] /\ l = H[mid] /\ m = H[f]
                                /\ w = Weight(r, p)
    BY Zenon
  <2>2. /\ i \in Nat /\ j = i + 1 /\ k = j + w
    BY <1>3, <2>1 DEF Brother
  <2>3. /\ l \in Nat /\ j = l + Weight(r, u) /\ m \in Nat /\ j = m + Weight(r, u)
    BY <1>1, <1>2, <1>3, <2>1, Zenon DEF Brother
  <2>4. Weight(r, u) = 1 /\ w \in Nat BY <1>5, <2>1 DEF Weight
  <2>5. l = i /\ m = i /\ k = i + 1 + w BY <2>2, <2>3, <2>4
  <2> QED BY <2>1, <2>5
<1> QED BY <1>1, <1>4, <1>5, <1>6, <1>7, <1>8, <1>9, <1>10, <1>11, <1>12, Zenon DEF Nephew

\* The loop ends: the sibling goes up and the parent comes down to x, black.
LEMMA RefilledKeeps ==
  ASSUME NEW r, NEW D, NEW H, NEW x, NEW p, NEW s, NEW u, NEW f, Ready(r, D, H, x, p, s, u, f),
         NEW q1, Refills(r, q1, p, u, f), NEW q, q = Rotated(q1, s, p)
  PROVE  \E E, G : /\ RedBlackTree(q, E, G) /\ E[q.root] = D[r.root]
                   /\ Elsewhere(r, q, D[r.root]) /\ ~IsRed(q, x)
<1> DEFINE S == D[r.root]
<1>0. PICK far, mid : far = Other(s) /\ mid = r.child[s][u] OBVIOUS
<1>1. /\ Shape(r, D) /\ Levels(r, H, S, p, s) /\ Pales(r, S, NULL, NULL)
      /\ ~IsRed(r, r.root) /\ s \in Sides
  BY DEF Torn, Calm, Ready
<1>2. far \in Sides /\ Other(far) = s /\ far # s BY <1>0, <1>1, SideFacts
<1>3. Nephew(r, D, H, x, p, s, u, mid, f, S) BY <1>0, Nephews
<1>4. /\ Pivot(r, D, p, s, u, x, mid, f) /\ p \in Keys /\ u \in Keys /\ p \in S /\ u \in S
      /\ p # NULL /\ u # NULL
  BY <1>3, Zenon DEF Nephew, Pivot
<1>5. /\ f \in Keys /\ f \in S /\ f # x /\ f # mid /\ f # p /\ f # u /\ u # p /\ f # r.root
      /\ u # r.root /\ r.parent[f] = u /\ r.parent[u] = p
      /\ x \in Pointers /\ x \notin {p, u} /\ mid \in Pointers /\ mid \notin {p, u}
  BY <1>3 DEF Nephew
<1>6. /\ H \in [Pointers -> Nat] /\ H[NULL] = 0 /\ H[mid] = H[x] /\ H[f] = H[x]
      /\ H[p] = H[x] + 1 + Weight(r, p)
  BY <1>3 DEF Nephew
<1>71. Refilled(r, q1, p, u, f) BY <1>1, <1>4, <1>5, RefilledFields
<1>7. /\ Shape(q1, D) /\ q1.child = r.child /\ q1.root = r.root /\ Recoloured(r, q1)
  BY <1>1, <1>4, <1>5, RefilledFields DEF Refilled, Refills
<1>8. /\ Weight(q1, u) = Weight(r, p) /\ Weight(q1, p) = 1 /\ Weight(q1, f) = 1
      /\ \A m \in Keys \ {u, p, f} : Weight(q1, m) = Weight(r, m)
  BY <1>71 DEF Refilled
<1>9. Pivot(q1, D, p, s, u, x, mid, f) BY <1>4, <1>7, PivotRecoloured
<1>10. PICK g : g = H[x] + 1 OBVIOUS
<1>11. g \in Nat BY <1>5, <1>6, <1>10
<1> DEFINE E == Under(D, p, u, x, mid)
           H2 == [H EXCEPT ![f] = g]
           G == [H2 EXCEPT ![u] = H2[p], ![p] = g]
<1>12. Shape(q, E) /\ E[q.root] = S /\ Turned(q1, q, S, s, p, u, x, mid, f)
  BY <1>7, <1>9, Rotation
<1>13. /\ H2 \in [Pointers -> Nat] /\ H2[NULL] = 0 /\ H2[f] = g
       /\ \A m \in Pointers \ {f} : H2[m] = H[m]
  BY <1>5, <1>6, <1>11, NullIsNoKey
<1> HIDE DEF H2, E
<1>14. ASSUME NEW m \in S \ {p, u}, NEW y \in Sides PROVE Level(q1, H2, m, y, NULL, "left")
  <2>1. PICK c : c = r.child[y][m] /\ q1.child[y][m] = c BY <1>7
  <2>2. /\ m \in Keys /\ m \in Pointers /\ m # NULL /\ c \in Pointers
        /\ c # NULL => r.parent[c] = m
    BY <1>1, <2>1, NodeFacts, NullIsNoKey
  <2>3. c # f BY <1>5, <2>2, NullIsNoKey
  <2>4. PICK i, j, w : i = H[m] /\ j = H[c] /\ w = Weight(r, m) OBVIOUS
  <2>5. i \in Nat /\ j \in Nat /\ w \in Nat /\ i = j + w
    <3>1. Heights(r, H, S, p, s) BY <1>1, HeightTypes
    <3>2. i \in Nat /\ j \in Nat /\ w \in {0, 1} /\ i = j + w + Lack(m, y, p, s)
      BY <2>1, <2>4, <3>1 DEF Heights
    <3>3. Lack(m, y, p, s) = 0 BY DEF Lack
    <3> QED BY <3>2, <3>3
  <2>6. H2[c] = j BY <1>13, <2>2, <2>3, <2>4
  <2>7. Lack(m, y, NULL, "left") = 0 BY <2>2 DEF Lack
  <2>8. CASE m = f
    <3>1. w = 0
      <4>1. ~r.black[f] BY <1>3 DEF Nephew
      <4> QED BY <2>4, <2>8, <4>1 DEF Weight
    <3>2. H2[m] = g /\ g = i + 1 BY <1>6, <1>10, <1>13, <2>4, <2>8
    <3>3. g = j + 1 + 0 BY <2>5, <3>1, <3>2
    <3> QED BY <1>8, <2>1, <2>6, <2>7, <2>8, <3>2, <3>3 DEF Level
  <2>9. CASE m # f
    <3>1. H2[m] = i /\ Weight(q1, m) = w BY <1>8, <1>13, <2>2, <2>4, <2>9
    <3>2. i = j + w + 0 BY <2>5
    <3> QED BY <2>1, <2>6, <2>7, <3>1, <3>2 DEF Level
  <2> QED BY <2>8, <2>9
<1>15. PICK none : none = NULL OBVIOUS
<1>16. /\ g = H2[x] + Weight(q1, p) + Lack(p, s, none, "left")
       /\ g = H2[mid] + Weight(q1, p) + Lack(p, far, none, "left")
       /\ H2[p] = g + Weight(q1, u) + Lack(u, s, none, "left")
       /\ H2[p] = H2[f] + Weight(q1, u) + Lack(u, far, none, "left")
  <2>1. PICK i, w : i = H[x] /\ w = Weight(r, p) OBVIOUS
  <2>2. i \in Nat /\ w \in Nat BY <1>5, <1>6, <2>1 DEF Weight
  <2>3. /\ H2[x] = i /\ H2[mid] = i /\ H2[f] = i + 1 /\ H2[p] = i + 1 + w
    BY <1>4, <1>5, <1>6, <1>10, <1>13, <2>1, NullIsNoKey
  <2>4. \A y : Lack(p, y, none, "left") = 0 /\ Lack(u, y, none, "left") = 0
    BY <1>4, <1>15 DEF Lack
  <2>5. g = i + 1 + 0 /\ i + 1 + w = g + w + 0 /\ i + 1 + w = (i + 1) + w + 0
    BY <1>10, <2>1, <2>2
  <2> QED BY <1>8, <2>1, <2>3, <2>4, <2>5
<1>17. Levels(q, G, S, none, "left")
  <2>1. Fits(q1, H2, D[q1.root], p, s, u, x, mid, f, none, "left", g)
    BY <1>0, <1>7, <1>11, <1>13, <1>14, <1>15, <1>16 DEF Fits
  <2>2. Levels(Rotated(q1, s, p), G, D[q1.root], none, "left") BY <1>7, <1>9, <2>1, RotationLevels
  <2> QED BY <1>7, <2>2
<1>18. /\ IsRed(q1, u) <=> IsRed(r, p)
       /\ ~IsRed(q1, p) /\ ~IsRed(q1, f)
       /\ \A m \in Keys \ {u, p, f} : IsRed(q1, m) <=> IsRed(r, m)
  BY <1>71 DEF Refilled
<1>19. ~IsRed(q1, x)
  <2>1. ~IsRed(r, x) BY <1>3 DEF Nephew
  <2> QED BY <1>5, <1>18, <2>1 DEF Pointers, IsRed, IsBlack
<1>20. ASSUME NEW m \in S \ {p, u}, NEW y \in Sides
       PROVE  IF q1.child[y][m] = p THEN ~(IsRed(q1, m) /\ IsRed(q1, u))
              ELSE Pale(q1, m, y, NULL, NULL)
  <2>1. PICK c : c = r.child[y][m] /\ q1.child[y][m] = c BY <1>7
  <2>2. m \in Keys /\ m # NULL /\ c \in Pointers /\ (c # NULL => r.parent[c] = m)
    BY <1>1, <2>1, NodeFacts
  <2>3. ~(IsRed(r, m) /\ IsRed(r, c)) \/ c = NULL
    <3>1. Pale(r, m, y, NULL, NULL) BY <1>1 DEF Pales
    <3> QED BY <2>1, <2>2, <3>1 DEF Pale
  <2>4. IsRed(q1, m) => IsRed(r, m) BY <1>18, <2>2
  <2>5. CASE c = p BY <1>4, <1>18, <2>1, <2>3, <2>4, <2>5
  <2>6. CASE c # p
    <3>1. c = NULL => ~IsRed(q1, c) BY DEF IsRed, IsBlack
    <3>2. c # u BY <1>4, <1>5, <2>2
    <3>3. IsRed(q1, c) => IsRed(r, c) BY <1>18, <2>2, <2>6, <3>1, <3>2 DEF Pointers
    <3> QED BY <2>1, <2>3, <2>4, <2>6, <3>1, <3>3 DEF Pale
  <2> QED BY <2>5, <2>6
<1>21. Pales(q, S, none, none)
  <2>1. Contrasts(q1, D[q1.root], p, u, x, mid, f, none, none)
    BY <1>7, <1>15, <1>18, <1>20 DEF Contrasts
  <2>2. Pales(Rotated(q1, s, p), D[q1.root], none, none) BY <1>7, <1>9, <2>1, RotationPales
  <2> QED BY <1>7, <2>2
<1>22. /\ q.root = IF r.root = p THEN u ELSE r.root
       /\ \A m : IsRed(q, m) <=> IsRed(q1, m)
  <2>1. Keeps(q1, q, p, u, mid) BY <1>12, TurnedFields
  <2> QED BY <1>7, <2>1 DEF Keeps
<1>23. IsBlack(q, q.root)
  <2>1. CASE r.root = p BY <1>1, <1>18, <1>22, <2>1 DEF IsRed
  <2>2. CASE r.root # p
    <3>1. r.root \in S BY <1>1, <1>4 DEF Shape
    <3>2. r.root \in Keys BY <1>1, <3>1, NodeFacts
    <3>3. ~IsRed(q1, r.root) BY <1>1, <1>5, <1>18, <2>2, <3>2
    <3> QED BY <1>22, <2>2, <3>3 DEF IsRed
  <2> QED BY <2>1, <2>2
<1>24. Elsewhere(r, q, S)
  <2>1. Elsewhere(r, q1, S) BY <1>4, <1>5 DEF Elsewhere, Refills, Recoloured
  <2>2. Elsewhere(q1, q, S) BY <1>12, ElsewhereFacts
  <2> QED BY <2>1, <2>2, ElsewhereFacts
<1>25. ~IsRed(q, x) BY <1>19, <1>22
<1> HIDE DEF G
<1>26. RedBlackTree(q, E, G) BY <1>12, <1>15, <1>17, <1>21, <1>23 DEF RedBlackTree
<1> QED BY <1>12, <1>24, <1>25, <1>26

\* The last case fills the place: a red-black tree is left.
LEMMA FilledKeeps ==
  ASSUME NEW r, NEW D, NEW H, NEW x, NEW p, NEW s, NEW u, NEW f, Ready(r, D, H, x, p, s, u, f),
         NEW q, q = Filled(Case(r, x, p))
  PROVE  \E E, G : /\ RedBlackTree(q, E, G) /\ E[q.root] = D[r.root]
                   /\ Elsewhere(r, q, D[r.root]) /\ ~IsRed(q, x)
<1>1. PICK c : c = Case(r, x, p) OBVIOUS
<1>2. c.tree = r /\ c.x = x /\ c.p = p BY <1>1 DEF Case
<1>3. Side(c) = s /\ Sibling(c) = u BY <1>1, CaseFacts DEF Ready, Calm
<1>4. PICK far, mid : far = Other(s) /\ mid = r.child[s][u] OBVIOUS
<1>5. Nephew(r, D, H, x, p, s, u, mid, f, D[r.root]) BY <1>4, Nephews
<1>6. p \in Keys /\ u \in Keys /\ f \in Keys /\ p # u /\ p # f /\ u # f /\ r \in Trees /\ f # NULL
  <2>1. r \in Trees BY DEF Ready, Calm, Torn, Shape
  <2> QED BY <1>5, <2>1, NullIsNoKey, Zenon DEF Nephew, Pivot
<1>7. PICK r1 : r1 = [r EXCEPT !.black[u] = r.black[p], !.black[p] = TRUE] OBVIOUS
<1>8. r1.child[far][u] = f
  <2>1. r.child[far][u] = f BY <1>4 DEF Ready
  <2> QED BY <1>6, <1>7, <2>1 DEF Trees
<1>9. PICK q1 : q1 = [r1 EXCEPT !.black[f] = TRUE] OBVIOUS
<1>10. Coloured(r1, f, TRUE) = q1 BY <1>6, <1>9 DEF Coloured
<1>11. q = Rotated(q1, s, p) BY <1>1, <1>2, <1>3, <1>4, <1>7, <1>8, <1>10 DEF Filled
<1>12. Refills(r, q1, p, u, f) BY <1>6, <1>7, <1>9 DEF Refills, Recoloured, Trees
<1> QED BY <1>11, <1>12, RefilledKeeps

\* When the loop stops.
Stops(c) == Enough(c) \/ ~Climbs(BlackSibling(c))

\* The sets of nodes of a tree with a place that lacks one are finite.
LEMMA LackingFacts ==
  ASSUME NEW r, NEW D, NEW H, NEW x, NEW p, NEW s, Lacking(r, D, H, x, p, s)
  PROVE  /\ r \in Trees /\ x \in Pointers /\ IsFiniteSet(D[r.root]) /\ IsFiniteSet(D[x])
         /\ D[x] \subseteq D[r.root]
<1>1. Shape(r, D) BY DEF Lacking
<1>2. r \in Trees /\ IsFiniteSet(D[r.root]) BY <1>1 DEF Shape
<1>3. x \in Pointers /\ D[x] \subseteq D[r.root]
  <2>1. CASE x = r.root BY <1>2, <2>1 DEF Trees
  <2>2. CASE x # r.root
    <3>1. p \in D[r.root] /\ s \in Sides /\ x = r.child[s][p] BY <2>2 DEF Lacking
    <3>2. Fork(r, D, p, s, x, r.child[Other(s)][p]) BY <1>1, <3>1, ForkFacts
    <3> QED BY <3>2 DEF Fork
  <2> QED BY <2>1, <2>2
<1> QED BY <1>2, <1>3, FS_Subset

\* The loop with a new state: it lost nothing, and goes on with more nodes under x, if at all.
Goes(r, D, x, q, E, G, y, o) ==
  /\ \E z : Lacking(q, E, G, y, o, z)
  /\ o \in Pointers /\ E[q.root] = D[r.root] /\ Elsewhere(r, q, D[r.root])
  /\ D[x] \subseteq E[y] /\ D[x] # E[y]

\* A round that goes on moves the place up to the parent.
LEMMA ClimbKeeps ==
  ASSUME NEW r, NEW D, NEW H, NEW x, NEW p, NEW s, Lacking(r, D, H, x, p, s),
         NEW c, c = Case(r, x, p), ~Stops(c)
  PROVE  \E q, E, G, y, o : Climb(c) = Case(q, y, o) /\ Goes(r, D, x, q, E, G, y, o)
<1>1. c.tree = r /\ c.x = x /\ c.p = p BY DEF Case
<1>2. ~Enough(c) /\ Climbs(BlackSibling(c)) BY DEF Stops
<1>3. x # r.root /\ ~IsRed(r, x) BY <1>1, <1>2 DEF Enough
<1>4. Torn(r, D, H, x, p, s) BY <1>3, Tears
<1>5. PICK q, E, G : /\ BlackSibling(c) = Case(q, x, p) /\ Calm(q, E, G, x, p, s)
                     /\ E[q.root] = D[r.root] /\ E[x] = D[x] /\ Elsewhere(r, q, D[r.root])
  BY <1>4, BlackSiblingKeeps
<1>6. PICK b : b = Case(q, x, p) OBVIOUS
<1>7. b.tree = q /\ b.x = x /\ b.p = p BY <1>6 DEF Case
<1>8. PICK u : u = q.child[Other(s)][p] OBVIOUS
<1>9. Sibling(b) = u BY <1>5, <1>6, <1>8, CaseFacts DEF Calm
<1>10. \A y \in Sides : IsBlack(q, q.child[y][u])
  BY <1>2, <1>5, <1>6, <1>7, <1>9, Zenon DEF Climbs
<1>11. Shape(q, E) /\ q \in Trees /\ u \in Keys /\ p \in Keys
  <2>1. Torn(q, E, G, x, p, s) BY <1>5 DEF Calm
  <2>2. Brother(q, E, G, x, p, s, u) BY <1>8, <2>1, Brothers
  <2> QED BY <2>1, <2>2 DEF Brother, Torn, Shape
<1>12. PICK q2, o : q2 = [q EXCEPT !.black[u] = FALSE] /\ o = q.parent[p] OBVIOUS
<1>13. Painted(q, q2, {u}, {u}) BY <1>11, <1>12 DEF Painted, Recoloured, Trees
<1>14. Climb(c) = Case(q2, p, o)
  <2>1. Climb(c) = [tree |-> q2, x |-> p, p |-> o]
    BY <1>2, <1>5, <1>6, <1>7, <1>9, <1>12 DEF Climb
  <2> QED BY <2>1 DEF Case
<1>15. PICK G2, z : Lacking(q2, E, G2, p, q.parent[p], z)
  BY <1>5, <1>8, <1>10, <1>13, ClimbedKeeps
<1>16. /\ q2.root = q.root /\ Elsewhere(q, q2, E[q.root])
       /\ E[x] \subseteq E[p] /\ E[x] # E[p]
  <2>1. Calm(q, E, G, x, p, s) BY <1>5
  <2>2. Brother(q, E, G, x, p, s, u) BY <1>8, <2>1, Brothers, Zenon DEF Calm
  <2>3. E[x] \subseteq E[p] /\ E[x] # E[p] /\ u \in E[q.root] BY <2>2 DEF Brother
  <2>4. q2.root = q.root BY <1>13 DEF Painted, Recoloured
  <2>5. Elsewhere(q, q2, E[q.root]) BY <1>13, <2>3, ElsewhereFacts
  <2> QED BY <2>3, <2>4, <2>5
<1>17. Elsewhere(r, q2, D[r.root])
  <2>1. Elsewhere(q, q2, D[r.root]) BY <1>5, <1>16
  <2> QED BY <1>5, <2>1, ElsewhereFacts
<1>18. o \in Pointers BY <1>11, <1>12 DEF Trees
<1>19. Goes(r, D, x, q2, E, G2, p, o)
  BY <1>5, <1>12, <1>15, <1>16, <1>17, <1>18 DEF Goes
<1> QED BY <1>14, <1>19

\* x turns black.
Blackens(r, q, x) ==
  /\ Recoloured(r, q) /\ q.black[x]
  /\ \A m \in Keys \ {x} : q.black[m] = r.black[m]

\* One node turns black.
LEMMA BlackenedFields ==
  ASSUME NEW r \in Trees, NEW x \in Keys, NEW q, q = [r EXCEPT !.black[x] = TRUE]
  PROVE  Blackens(r, q, x)
<1>1. Recoloured(r, q) BY DEF Recoloured, Trees
<1>2. \A m \in Keys : q.black[m] = IF m = x THEN TRUE ELSE r.black[m] BY DEF Trees
<1> QED BY <1>1, <1>2 DEF Blackens

\* The loop ends at the root or at a red node, which turns black.
LEMMA EnoughKeeps ==
  ASSUME NEW r, NEW D, NEW H, NEW x, NEW p, NEW s, Lacking(r, D, H, x, p, s),
         x = r.root \/ IsRed(r, x), NEW q, q = Coloured(r, x, TRUE)
  PROVE  \E E, G : /\ RedBlackTree(q, E, G) /\ E[q.root] = D[r.root]
                   /\ Elsewhere(r, q, D[r.root])
<1> DEFINE S == D[r.root]
<1>1. Shape(r, D) /\ Pales(r, S, x, x) /\ (IsRed(r, r.root) => r.root = x) BY DEF Lacking
<1>2. CASE x = NULL
  <2>1. q = r /\ ~IsRed(r, x) BY <1>2 DEF Coloured, IsRed, IsBlack
  <2>2. x = r.root /\ D[r.root] = {} BY <1>1, <1>2, <2>1 DEF Shape
  <2>3. Levels(r, H, S, NULL, "left") BY <2>2 DEF Lacking
  <2>4. Pales(r, S, NULL, NULL) BY <2>2 DEF Pales
  <2>5. IsBlack(r, r.root) BY <2>1, <2>2 DEF IsRed
  <2>6. RedBlackTree(q, D, H) BY <1>1, <2>1, <2>3, <2>4, <2>5 DEF RedBlackTree
  <2>7. Elsewhere(r, q, S) BY <2>1 DEF Elsewhere
  <2> QED BY <2>1, <2>6, <2>7
<1>3. CASE x # NULL
  <2>1. PICK pp, z : /\ Levels(r, H, S, pp, z)
                     /\ IF x = r.root THEN pp = NULL
                        ELSE pp = p /\ z = s /\ p \in S /\ s \in Sides /\ x = r.child[s][p]
    <3>1. CASE x = r.root BY <3>1 DEF Lacking
    <3>2. CASE x # r.root BY <3>2 DEF Lacking
    <3> QED BY <3>1, <3>2
  <2>2. x \in S /\ x \in Keys
    <3>1. CASE x = r.root BY <1>1, <1>3, <3>1, NodeFacts DEF Shape
    <3>2. CASE x # r.root BY <1>1, <1>3, <2>1, <3>2, NodeFacts
    <3> QED BY <3>1, <3>2
  <2>3. r \in Trees /\ q = [r EXCEPT !.black[x] = TRUE] BY <1>1, <1>3 DEF Shape, Coloured
  <2>4. /\ Recoloured(r, q) /\ q.black[x] /\ q.child = r.child /\ q.root = r.root
        /\ \A m \in Keys \ {x} : q.black[m] = r.black[m]
    <3>1. Blackens(r, q, x) BY <2>2, <2>3, BlackenedFields
    <3> QED BY <3>1 DEF Blackens, Recoloured
  <2>5. Shape(q, D) BY <1>1, <2>4, RecolouredShape
  <2>6. Elsewhere(r, q, S) BY <2>2, <2>4 DEF Elsewhere, Recoloured
  <2>7. /\ Weight(q, x) = 1 /\ ~IsRed(q, x)
        /\ \A m \in Keys \ {x} : Weight(q, m) = Weight(r, m) /\ (IsRed(q, m) <=> IsRed(r, m))
    BY <2>4, NullIsNoKey DEF Weight, IsRed, IsBlack
  <2>8. ASSUME NEW m \in S, NEW y \in Sides
        PROVE  r.child[y][m] = x <=> m = pp /\ y = z
    <3>1. r.child[y][m] # NULL => r.parent[r.child[y][m]] = m BY <1>1, NodeFacts
    <3>2. m # NULL BY <1>1, NodeFacts
    <3>3. CASE x = r.root
      <4>1. r.parent[x] = NULL BY <1>1, <2>2, <3>3, NodeFacts
      <4> QED BY <1>3, <2>1, <3>1, <3>2, <3>3, <4>1
    <3>4. CASE x # r.root
      <4>1. Fork(r, D, p, s, x, r.child[Other(s)][p]) BY <1>1, <2>1, <3>4, ForkFacts
      <4>2. r.parent[x] = p /\ r.child[Other(s)][p] # x BY <1>3, <4>1 DEF Fork
      <4>3. y = s \/ y = Other(s) BY <2>1, <3>4, SideFacts
      <4> QED BY <1>3, <2>1, <3>1, <3>4, <4>2, <4>3
    <3> QED BY <3>3, <3>4
  <2>9. Heights(r, H, S, pp, z) BY <1>1, <2>1, HeightTypes
  <2>10. /\ H \in [Pointers -> Nat] /\ H[NULL] = 0
         /\ \A m \in S, y \in Sides : /\ H[m] \in Nat /\ H[r.child[y][m]] \in Nat
                                      /\ Weight(r, m) \in {0, 1}
         /\ \A m \in S, y \in Sides : H[m] = H[r.child[y][m]] + Weight(r, m) + Lack(m, y, pp, z)
    BY <2>9 DEF Heights
  <2>11. PICK i, v, g : i = H[x] /\ v = Weight(r, x) /\ g = i + 1 - v OBVIOUS
  <2>12. i \in Nat /\ v \in {0, 1} /\ g \in Nat
    <3>1. i \in Nat BY <2>2, <2>10, <2>11, NullIsNoKey
    <3>2. v \in {0, 1} BY <2>11 DEF Weight
    <3> QED BY <2>11, <3>1, <3>2
  <2> DEFINE G == [H EXCEPT ![x] = g]
  <2>13. /\ G \in [Pointers -> Nat] /\ G[NULL] = 0 /\ G[x] = g
         /\ \A m \in Pointers \ {x} : G[m] = H[m]
    BY <1>3, <2>2, <2>10, <2>12, NullIsNoKey
  <2> HIDE DEF G
  <2>14. PICK none : none = NULL OBVIOUS
  <2>15. ASSUME NEW m \in S, NEW y \in Sides PROVE Level(q, G, m, y, none, "left")
    <3>1. PICK c : c = r.child[y][m] /\ q.child[y][m] = c BY <2>4
    <3>2. m \in Keys /\ m \in Pointers /\ m # NULL /\ c \in Pointers /\ c # m
      <4>1. m \in Keys /\ m # NULL /\ c \in Pointers BY <1>1, <3>1, NodeFacts
      <4>2. Fork(r, D, m, y, c, r.child[Other(y)][m]) BY <1>1, <3>1, ForkFacts
      <4>3. c # m BY <4>2, NullIsNoKey DEF Fork
      <4> QED BY <4>1, <4>3, NullIsNoKey
    <3>3. Lack(m, y, none, "left") = 0 BY <2>14, <3>2 DEF Lack
    <3>4. PICK h, j, w, l : h = H[m] /\ j = H[c] /\ w = Weight(r, m) /\ l = Lack(m, y, pp, z)
      OBVIOUS
    <3>5. h \in Nat /\ j \in Nat /\ w \in {0, 1} /\ l \in {0, 1} /\ h = j + w + l
      BY <2>10, <3>1, <3>4 DEF Lack
    <3>6. c # x => l = 0 BY <2>8, <3>1, <3>4 DEF Lack
    <3>7. CASE m = x
      <4>1. G[c] = j /\ l = 0 /\ h = i /\ w = v BY <2>11, <2>13, <3>2, <3>4, <3>6, <3>7
      <4>2. g = j + 1 + 0 BY <2>11, <3>5, <4>1
      <4> QED BY <2>7, <2>13, <3>1, <3>3, <3>7, <4>1, <4>2 DEF Level
    <3>8. CASE m # x
      <4>1. G[m] = h /\ Weight(q, m) = w BY <2>7, <2>13, <3>2, <3>4, <3>8
      <4>2. CASE c = x
        <5>1. m = pp /\ y = z /\ l = 1 BY <2>8, <3>1, <3>4, <4>2 DEF Lack
        <5>2. x # r.root BY <2>1, <3>2, <5>1
        <5>3. v = 0
          <6>1. IsRed(r, x) BY <5>2
          <6> QED BY <1>3, <2>11, <6>1 DEF IsRed, IsBlack, Weight
        <5>4. j = i BY <2>11, <3>4, <4>2
        <5>5. g = i + 1 /\ h = g + w + 0 BY <2>11, <2>12, <3>5, <5>1, <5>3, <5>4
        <5> QED BY <2>13, <3>1, <3>3, <4>1, <4>2, <5>5 DEF Level
      <4>3. CASE c # x
        <5>1. G[c] = j /\ h = j + w + 0 BY <2>13, <3>2, <3>4, <3>5, <3>6, <4>3
        <5> QED BY <3>1, <3>3, <4>1, <5>1 DEF Level
      <4> QED BY <4>2, <4>3
    <3> QED BY <3>7, <3>8
  <2>16. Levels(q, G, S, none, "left") BY <2>13, <2>15 DEF Levels
  <2>17. ASSUME NEW m \in S, NEW y \in Sides, IsRed(q, m), IsRed(q, q.child[y][m])
         PROVE  FALSE
    <3>1. PICK c : c = r.child[y][m] /\ q.child[y][m] = c BY <2>4
    <3>2. m \in Keys /\ c \in Pointers /\ c # NULL
      <4>1. c # NULL BY <2>17, <3>1 DEF IsRed, IsBlack
      <4> QED BY <1>1, <3>1, <4>1, NodeFacts
    <3>3. m # x /\ c # x BY <2>7, <2>17, <3>1
    <3>4. IsRed(r, m) /\ IsRed(r, c) BY <2>7, <2>17, <3>1, <3>2, <3>3 DEF Pointers
    <3>5. Pale(r, m, y, x, x) BY <1>1 DEF Pales
    <3> QED BY <3>1, <3>3, <3>4, <3>5 DEF Pale
  <2>18. Pales(q, S, NULL, NULL) BY <2>17 DEF Pales, Pale
  <2>19. IsBlack(q, q.root)
    <3>1. CASE r.root = x BY <2>4, <2>7, <3>1 DEF IsRed
    <3>2. CASE r.root # x
      <4>1. r.root \in Keys \/ r.root = NULL BY <2>3 DEF Trees, Pointers
      <4>2. IsBlack(q, NULL) BY DEF IsBlack
      <4>3. ~IsRed(r, r.root) BY <1>1, <3>2
      <4> QED BY <2>4, <2>7, <3>2, <4>1, <4>2, <4>3 DEF IsRed
    <3> QED BY <3>1, <3>2
  <2>20. RedBlackTree(q, D, G)
    BY <2>4, <2>5, <2>14, <2>16, <2>18, <2>19 DEF RedBlackTree
  <2> QED BY <2>4, <2>6, <2>20
<1> QED BY <1>2, <1>3

\* The last step when the loop stops at a sibling with a red child.
LEMMA FillingKeeps ==
  ASSUME NEW r, NEW D, NEW H, NEW x, NEW p, NEW s, Lacking(r, D, H, x, p, s),
         NEW c, c = Case(r, x, p), Stops(c), ~Enough(c),
         NEW q, q = Coloured(Filled(RedNephew(BlackSibling(c))), x, TRUE)
  PROVE  \E E, G : /\ RedBlackTree(q, E, G) /\ E[q.root] = D[r.root]
                   /\ Elsewhere(r, q, D[r.root])
<1>1. c.tree = r /\ c.x = x /\ c.p = p BY DEF Case
<1>2. x # r.root /\ ~IsRed(r, x) BY <1>1 DEF Enough
<1>3. Torn(r, D, H, x, p, s) BY <1>2, Tears
<1>4. PICK q1, E1, G1 : /\ BlackSibling(c) = Case(q1, x, p) /\ Calm(q1, E1, G1, x, p, s)
                        /\ E1[q1.root] = D[r.root] /\ Elsewhere(r, q1, D[r.root])
  BY <1>3, BlackSiblingKeeps
<1>5. ~Climbs(Case(q1, x, p)) BY <1>4 DEF Stops
<1>6. PICK q2, E2, G2, u, f :
        /\ RedNephew(Case(q1, x, p)) = Case(q2, x, p) /\ Ready(q2, E2, G2, x, p, s, u, f)
        /\ E2[q2.root] = E1[q1.root] /\ Elsewhere(q1, q2, E1[q1.root])
  BY <1>4, <1>5, RedNephewKeeps
<1>7. PICK q3 : q3 = Filled(Case(q2, x, p)) OBVIOUS
<1>8. PICK E, G : /\ RedBlackTree(q3, E, G) /\ E[q3.root] = E2[q2.root]
                  /\ Elsewhere(q2, q3, E2[q2.root]) /\ ~IsRed(q3, x)
  BY <1>6, <1>7, FilledKeeps
<1>9. E[q3.root] = D[r.root] /\ Elsewhere(r, q3, D[r.root])
  <2>1. Elsewhere(q1, q2, D[r.root]) BY <1>4, <1>6
  <2>2. Elsewhere(q2, q3, D[r.root]) BY <1>4, <1>6, <1>8
  <2>3. Elsewhere(r, q2, D[r.root]) BY <1>4, <2>1, ElsewhereFacts
  <2>4. Elsewhere(r, q3, D[r.root]) BY <2>2, <2>3, ElsewhereFacts
  <2> QED BY <1>4, <1>6, <1>8, <2>4
<1>10. Coloured(q3, x, TRUE) = q3
  <2>1. CASE x = NULL BY <2>1 DEF Coloured
  <2>2. CASE x # NULL
    <3>1. q3 \in Trees BY <1>8 DEF RedBlackTree, Shape
    <3>2. x \in Keys BY <2>2, LackingFacts DEF Pointers
    <3>3. q3.black[x] = TRUE
      <4>1. q3.black[x] BY <1>8, <2>2 DEF IsRed, IsBlack
      <4>2. q3.black[x] \in BOOLEAN BY <3>1, <3>2 DEF Trees
      <4> QED BY <4>1, <4>2
    <3>4. PICK d : d = q3.black OBVIOUS
    <3>5. [d EXCEPT ![x] = TRUE] = d
      <4>1. d \in [Keys -> BOOLEAN] /\ d[x] = TRUE BY <3>1, <3>3, <3>4 DEF Trees
      <4> QED BY <4>1
    <3>6. [q3 EXCEPT !.black = d] = q3 BY <3>1, <3>4 DEF Trees
    <3>7. Coloured(q3, x, TRUE) = [q3 EXCEPT !.black[x] = TRUE] BY <2>2 DEF Coloured
    <3>8. [q3 EXCEPT !.black[x] = TRUE] = [q3 EXCEPT !.black = [d EXCEPT ![x] = TRUE]]
      BY <3>1, <3>4 DEF Trees
    <3> QED BY <3>5, <3>6, <3>7, <3>8
  <2> QED BY <2>1, <2>2, Zenon
<1>11. q = q3 BY <1>4, <1>6, <1>7, <1>10
<1> QED BY <1>8, <1>9, <1>11

\* What the loop keeps; r is the tree it began with and S are its nodes.
Loop(r, S, c, E, G) ==
  /\ \E z : Lacking(c.tree, E, G, c.x, c.p, z)
  /\ c = Case(c.tree, c.x, c.p) /\ c.p \in Pointers
  /\ E[c.tree.root] = S /\ Elsewhere(r, c.tree, S)

\* A round changes nothing, or goes on with more nodes under x.
LEMMA LoopStep ==
  ASSUME NEW r, NEW S, NEW c, NEW E, NEW G, Loop(r, S, c, E, G), NEW d, d = Climb(c)
  PROVE  /\ Stops(c) => d = c
         /\ ~Stops(c) => \E E2, G2 : /\ Loop(r, S, d, E2, G2)
                                     /\ E[c.x] \subseteq E2[d.x] /\ E[c.x] # E2[d.x]
<1>1. ASSUME Stops(c) PROVE d = c BY <1>1 DEF Stops, Climb
<1>2. ASSUME ~Stops(c)
      PROVE  \E E2, G2 : /\ Loop(r, S, d, E2, G2)
                         /\ E[c.x] \subseteq E2[d.x] /\ E[c.x] # E2[d.x]
  <2>1. PICK a, x, p : a = c.tree /\ x = c.x /\ p = c.p OBVIOUS
  <2>2. PICK z : Lacking(a, E, G, x, p, z) BY <2>1 DEF Loop
  <2>3. c = Case(a, x, p) /\ E[a.root] = S /\ Elsewhere(r, a, S) BY <2>1 DEF Loop
  <2>4. PICK q, E2, G2, y, o : Climb(c) = Case(q, y, o) /\ Goes(a, E, x, q, E2, G2, y, o)
    BY <1>2, <2>2, <2>3, ClimbKeeps
  <2>5. d = Case(q, y, o) /\ d.tree = q /\ d.x = y /\ d.p = o BY <2>4 DEF Case
  <2>6. /\ \E v : Lacking(q, E2, G2, y, o, v)
        /\ o \in Pointers /\ E2[q.root] = E[a.root] /\ Elsewhere(a, q, E[a.root])
        /\ E[x] \subseteq E2[y] /\ E[x] # E2[y]
    BY <2>4 DEF Goes
  <2>7. Elsewhere(r, q, S)
    <3>1. Elsewhere(a, q, S) BY <2>3, <2>6
    <3> QED BY <2>3, <3>1, ElsewhereFacts
  <2>8. Loop(r, S, d, E2, G2) BY <2>3, <2>5, <2>6, <2>7 DEF Loop
  <2> QED BY <2>1, <2>5, <2>6, <2>8
<1> QED BY <1>1, <1>2

\* What the loop runs on.
LEMMA LoopFacts ==
  ASSUME NEW r, NEW S, NEW c, NEW E, NEW G, Loop(r, S, c, E, G)
  PROVE  /\ c \in [tree : Trees, x : Pointers, p : Pointers]
         /\ IsFiniteSet(S) /\ IsFiniteSet(E[c.x]) /\ E[c.x] \subseteq S
<1>1. PICK a, x, p : a = c.tree /\ x = c.x /\ p = c.p OBVIOUS
<1>2. PICK z : Lacking(a, E, G, x, p, z) BY <1>1 DEF Loop
<1>3. /\ a \in Trees /\ x \in Pointers /\ IsFiniteSet(E[a.root]) /\ IsFiniteSet(E[x])
      /\ E[x] \subseteq E[a.root]
  BY <1>2, LackingFacts
<1>4. c = [tree |-> a, x |-> x, p |-> p] /\ p \in Pointers /\ E[a.root] = S
  BY <1>1 DEF Loop, Case
<1> QED BY <1>1, <1>3, <1>4

\* The loop and what follows it make a red-black tree of the same nodes, within its rounds.
LEMMA RebalancedKeeps ==
  ASSUME NEW r, NEW D, NEW H, NEW x, NEW p \in Pointers, NEW z, Lacking(r, D, H, x, p, z),
         r.size = Cardinality(D[r.root]) + 1
  PROVE  \E E, G : /\ RedBlackTree(Rebalanced(r, x, p), E, G)
                   /\ E[Rebalanced(r, x, p).root] = D[r.root]
                   /\ Elsewhere(r, Rebalanced(r, x, p), D[r.root])
<1>1. PICK S : S = D[r.root] OBVIOUS
<1>2. PICK s0 : s0 = Case(r, x, p) OBVIOUS
<1>3. s0.tree = r /\ s0.x = x /\ s0.p = p /\ s0 = [tree |-> r, x |-> x, p |-> p]
  BY <1>2 DEF Case
<1>4. Loop(r, S, s0, D, H) BY <1>1, <1>2, <1>3 DEF Loop, Elsewhere
<1>5. r \in Trees BY LackingFacts
<1>6. PICK N \in Nat : N = r.size BY <1>5 DEF Trees
<1> DEFINE T == {c \in [tree : Trees, x : Pointers, p : Pointers] : \E E, G : Loop(r, S, c, E, G)}
           F == [c \in T |-> Climb(c)]
<1>7. s0 \in T BY <1>4, LoopFacts
<1>8. ASSUME NEW c \in T PROVE Climb(c) \in T
  <2>1. PICK E, G : Loop(r, S, c, E, G) OBVIOUS
  <2>2. CASE Stops(c)
    <3>1. Climb(c) = c BY <2>1, <2>2, LoopStep
    <3> QED BY <3>1
  <2>3. CASE ~Stops(c)
    <3>1. PICK E2, G2 : Loop(r, S, Climb(c), E2, G2) BY <2>1, <2>3, LoopStep
    <3> QED BY <3>1, LoopFacts
  <2> QED BY <2>2, <2>3
<1>9. F \in [T -> T] BY <1>8
<1> DEFINE Defines(rounds) ==
             rounds = [i \in 0 .. r.size |-> IF i = 0 THEN [tree |-> r, x |-> x, p |-> p]
                                             ELSE Climb(rounds[i - 1])]
<1>10. \E rounds : Defines(rounds)
  <2> HIDE DEF T, F
  <2>0. PICK T0, F0 : T0 = T /\ F0 = F OBVIOUS
  <2>1. PICK f : f \in [0 .. N -> T] /\ f = [i \in 0 .. N |-> IF i = 0 THEN s0 ELSE F[f[i - 1]]]
    <3>1. s0 \in T0 /\ F0 \in [T0 -> T0] BY <1>7, <1>9, <2>0
    <3>2. PICK f : Runs(f, N, T0, s0, F0) BY <3>1, Rounds
    <3> QED BY <2>0, <3>2 DEF Runs
  <2>2. ASSUME NEW i \in 0 .. N
        PROVE  f[i] = IF i = 0 THEN s0 ELSE Climb(f[i - 1])
    <3>1. CASE i = 0 BY <2>1, <3>1
    <3>2. CASE i # 0
      <4>1. i - 1 \in 0 .. N BY <3>2
      <4>2. f[i - 1] \in T /\ f[i] = F[f[i - 1]] BY <2>1, <3>2, <4>1
      <4> QED BY <3>2, <4>2 DEF F
    <3> QED BY <3>1, <3>2
  <2>3. f = [i \in 0 .. N |-> IF i = 0 THEN s0 ELSE Climb(f[i - 1])] BY <2>1, <2>2
  <2>4. Defines(f) BY <1>3, <1>6, <2>3
  <2> QED BY <2>4
<1> DEFINE rounds == CHOOSE rounds : Defines(rounds)
<1>11. Defines(rounds) BY <1>10
<1>12. Rebalanced(r, x, p) =
         Coloured(IF Enough(rounds[r.size]) THEN rounds[r.size].tree
                  ELSE Filled(RedNephew(BlackSibling(rounds[r.size]))), rounds[r.size].x, TRUE)
  BY DEF Rebalanced
<1> HIDE DEF rounds
<1>13. rounds[0] = s0 /\ \A i \in 1 .. N : rounds[i] = Climb(rounds[i - 1])
  <2>1. 0 \in 0 .. r.size BY <1>6
  <2>2. rounds[0] = s0 BY <1>3, <1>11, <2>1
  <2>3. ASSUME NEW i \in 1 .. N PROVE rounds[i] = Climb(rounds[i - 1])
    <3>1. i \in 0 .. r.size /\ i # 0 BY <1>6
    <3> QED BY <1>11, <3>1
  <2> QED BY <2>2, <2>3
<1> HIDE DEF T, F, Defines
<1> DEFINE Far(c, i) == \E E, G : /\ Loop(r, S, c, E, G)
                                  /\ Stops(c) \/ Cardinality(E[c.x]) >= i
           P == {i \in 0 .. N : Far(rounds[i], i)}
<1>14. 0 \in P
  <2>1. IsFiniteSet(D[s0.x]) BY <1>4, LoopFacts
  <2>2. Cardinality(D[s0.x]) >= 0
    <3>1. PICK i : i = Cardinality(D[s0.x]) OBVIOUS
    <3>2. i \in Nat BY <2>1, <3>1, FS_CardinalityType
    <3> QED BY <3>1, <3>2
  <2>3. Far(rounds[0], 0) BY <1>4, <1>13, <2>2
  <2> HIDE DEF Far
  <2> QED BY <2>3
<1>15. ASSUME NEW i \in 1 .. N, i - 1 \in P PROVE i \in P
  <2>1. PICK c, d : c = rounds[i - 1] /\ d = Climb(c) OBVIOUS
  <2>2. rounds[i] = d BY <1>13, <2>1
  <2>3. PICK E, G : Loop(r, S, c, E, G) /\ (Stops(c) \/ Cardinality(E[c.x]) >= i - 1)
    BY <1>15, <2>1
  <2>4. CASE Stops(c)
    <3>1. d = c BY <2>1, <2>3, <2>4, LoopStep
    <3>2. Far(d, i) BY <2>3, <2>4, <3>1
    <3> HIDE DEF Far
    <3> QED BY <2>2, <3>2
  <2>5. CASE ~Stops(c)
    <3>1. PICK E2, G2 : /\ Loop(r, S, d, E2, G2)
                        /\ E[c.x] \subseteq E2[d.x] /\ E[c.x] # E2[d.x]
      BY <2>1, <2>3, <2>5, LoopStep
    <3>2. PICK U, W : U = E[c.x] /\ W = E2[d.x] OBVIOUS
    <3>3. IsFiniteSet(U) /\ IsFiniteSet(W) BY <2>3, <3>1, <3>2, LoopFacts
    <3>4. U \subseteq W /\ U # W BY <3>1, <3>2
    <3>5. Cardinality(U) <= Cardinality(W) /\ (Cardinality(W) = Cardinality(U) => W = U)
      BY <3>3, <3>4, FS_Subset
    <3>6. PICK j, k : j = Cardinality(U) /\ k = Cardinality(W) OBVIOUS
    <3>7. j \in Nat /\ k \in Nat BY <3>3, <3>6, FS_CardinalityType
    <3>8. j >= i - 1 BY <2>3, <2>5, <3>2, <3>6
    <3>9. j <= k /\ j # k BY <3>4, <3>5, <3>6
    <3>10. k >= i BY <3>7, <3>8, <3>9
    <3>11. Far(d, i) BY <3>1, <3>2, <3>6, <3>10
    <3> HIDE DEF Far
    <3> QED BY <2>2, <3>11
  <2> QED BY <2>4, <2>5
<1>16. \A i \in 1 .. N : i - 1 \in P => i \in P BY <1>15
<1> HIDE DEF P
<1>17. \A i \in 0 .. N : i \in P BY <1>14, <1>16, UpTo
<1>18. Far(rounds[N], N) BY <1>17 DEF P
<1>19. PICK c : c = rounds[N] OBVIOUS
<1>20. PICK E, G : Loop(r, S, c, E, G) /\ (Stops(c) \/ Cardinality(E[c.x]) >= N)
  BY <1>18, <1>19
<1>21. Stops(c)
  <2>1. PICK U : U = E[c.x] OBVIOUS
  <2>2. IsFiniteSet(S) /\ U \subseteq S BY <1>20, <2>1, LoopFacts
  <2>3. Cardinality(U) <= Cardinality(S) /\ IsFiniteSet(U) BY <2>2, FS_Subset
  <2>4. PICK i, j : i = Cardinality(U) /\ j = Cardinality(S) OBVIOUS
  <2>5. i \in Nat /\ j \in Nat /\ i <= j /\ N = j + 1
    BY <1>1, <1>6, <2>2, <2>3, <2>4, FS_CardinalityType
  <2>6. ~(i >= N) BY <2>5
  <2> QED BY <1>20, <2>1, <2>4, <2>6
<1>22. PICK a, y, o : a = c.tree /\ y = c.x /\ o = c.p OBVIOUS
<1>23. PICK v : Lacking(a, E, G, y, o, v) BY <1>20, <1>22 DEF Loop
<1>24. c = Case(a, y, o) /\ E[a.root] = S /\ Elsewhere(r, a, S) BY <1>20, <1>22 DEF Loop
<1>25. PICK q : q = Rebalanced(r, x, p) OBVIOUS
<1>26. q = Coloured(IF Enough(c) THEN a ELSE Filled(RedNephew(BlackSibling(c))), y, TRUE)
  BY <1>6, <1>12, <1>19, <1>22, <1>25
<1>27. \E E2, G2 : /\ RedBlackTree(q, E2, G2) /\ E2[q.root] = E[a.root]
                   /\ Elsewhere(a, q, E[a.root])
  <2>1. CASE Enough(c)
    <3>1. q = Coloured(a, y, TRUE) BY <1>26, <2>1
    <3>2. y = a.root \/ IsRed(a, y) BY <1>22, <2>1 DEF Enough
    <3> QED BY <1>23, <3>1, <3>2, EnoughKeeps
  <2>2. CASE ~Enough(c)
    <3>1. q = Coloured(Filled(RedNephew(BlackSibling(c))), y, TRUE) BY <1>26, <2>2
    <3> QED BY <1>21, <1>23, <1>24, <2>2, <3>1, FillingKeeps
  <2> QED BY <2>1, <2>2
<1>28. PICK E2, G2 : /\ RedBlackTree(q, E2, G2) /\ E2[q.root] = E[a.root]
                     /\ Elsewhere(a, q, E[a.root])
  BY <1>27
<1>29. Elsewhere(r, q, S)
  <2>1. Elsewhere(a, q, S) BY <1>24, <1>28
  <2> QED BY <1>24, <2>1, ElsewhereFacts
<1> QED BY <1>1, <1>24, <1>25, <1>28, <1>29
=============================================================================
