------------------------------- MODULE RBTree -------------------------------
(***************************************************************************)
(* The red-black tree of src/common/rb.c.  The table of try blocks is one: *)
(* its keys are instruction addresses, and lgx_rb_get_lesser finds the try *)
(* block in front of an address.                                           *)
(*                                                                         *)
(* A node is named by its key, which never changes: lgx_rb_del relinks the *)
(* successor into the place of the node it deletes and copies no key.      *)
(* Left and right are mirror images in the code; here a side is a value.   *)
(***************************************************************************)
EXTENDS Integers, FiniteSets

CONSTANTS
  Keys,     \* the integers used as keys
  NULL      \* the null pointer

ASSUME RBTreeAssumption ==
  /\ Keys \subseteq Nat
  /\ NULL \in Int \ Keys

VARIABLES
  t,        \* the lgx_rb_t and its nodes: see Empty
  answer    \* the key the last call inserted or deleted, if any

vars == <<t, answer>>

Pointers == Keys \cup {NULL}
Sides == {"left", "right"}
Other(side) == IF side = "left" THEN "right" ELSE "left"

\* lgx_rb_init.  Nodes that are not in the tree are as xcalloc leaves them.
Empty ==
  [root |-> NULL,
   size |-> 0,
   child |-> [side \in Sides |-> [n \in Keys |-> NULL]],
   parent |-> [n \in Keys |-> NULL],
   black |-> [n \in Keys |-> FALSE]]

Init == t = Empty /\ answer = NULL

IsBlack(r, n) == n = NULL \/ r.black[n]
IsRed(r, n) == ~IsBlack(r, n)

\* rb_set_red, rb_set_black and rb_set_color, of nodes that exist.
Coloured(r, n, black) == IF n = NULL THEN r ELSE [r EXCEPT !.black[n] = black]

SideOf(r, n, parent) == IF r.child["left"][parent] = n THEN "left" ELSE "right"

WithParent(r, n, parent) == IF n = NULL THEN r ELSE [r EXCEPT !.parent[n] = parent]

\* Whoever pointed down to n points to m.
Relinked(r, n, m) ==
  IF r.root = n THEN [r EXCEPT !.root = m]
  ELSE [r EXCEPT !.child[SideOf(r, n, r.parent[n])][r.parent[n]] = m]

Bug_forgets_the_grandchild(r, side, n) ==
  LET temp == r.child[Other(side)][n]
      r1 == [r EXCEPT !.child[Other(side)][n] = r.child[side][temp]]
      r2 == Relinked([r1 EXCEPT !.parent[temp] = r.parent[n]], n, temp)
  IN  [r2 EXCEPT !.child[side][temp] = n, !.parent[n] = temp]

\* rb_rotate_left and rb_rotate_right: n goes down on the side.
Rotated(r, side, n) ==
  LET temp == r.child[Other(side)][n]
      r1 == WithParent([r EXCEPT !.child[Other(side)][n] = r.child[side][temp]],
                       r.child[side][temp], n)
      r2 == Relinked([r1 EXCEPT !.parent[temp] = r.parent[n]], n, temp)
  IN  [r2 EXCEPT !.child[side][temp] = n, !.parent[n] = temp]

-----------------------------------------------------------------------------
(* Insertion.                                                              *)

\* A round of the loop of rb_insert_fixup: s.node is red, and perhaps its parent too.
Fixup(s) ==
  LET r == s.tree
      n == s.node
      p == r.parent[n]
      g == r.parent[p]
      side == SideOf(r, p, g)
      uncle == r.child[Other(side)][g]
      bent == SideOf(r, n, p) # side
      top == IF bent THEN n ELSE p
      r1 == IF bent THEN Rotated(r, side, p) ELSE r
  IN  IF IsBlack(r, p) THEN s
      ELSE IF IsRed(r, uncle)
      THEN [tree |-> [r EXCEPT !.black[uncle] = TRUE, !.black[p] = TRUE, !.black[g] = FALSE],
            node |-> g]
      ELSE [tree |-> Rotated([r1 EXCEPT !.black[top] = TRUE, !.black[g] = FALSE],
                             Other(side), g),
            node |-> IF bent THEN p ELSE n]

\* The loop, which climbs and has no more rounds than there are nodes above the new one.
Balanced(r, n) ==
  LET rounds[i \in 0 .. r.size] ==
        IF i = 0 THEN [tree |-> r, node |-> n] ELSE Fixup(rounds[i - 1])
      q == rounds[r.size].tree
  IN  Coloured(q, q.root, TRUE)

\* The loop of lgx_rb_get and of lgx_rb_set: the nodes on the way to a key.
Towards(k, n) == IF k > n THEN "right" ELSE "left"
Path(r, k) ==
  LET f[n \in Pointers] ==
        IF n = NULL THEN {}
        ELSE {n} \cup (IF n = k THEN {} ELSE f[r.child[Towards(k, n)][n]])
  IN  f[r.root]

\* Where lgx_rb_set hangs the node: under the last node of the way.
LastOf(r, k) ==
  IF r.root = NULL THEN NULL
  ELSE CHOOSE n \in Path(r, k) : r.child[Towards(k, n)][n] = NULL

Bug_hangs_black(r, k) ==
  LET p == LastOf(r, k)
  IN  IF p = NULL THEN [r EXCEPT !.root = k, !.black[k] = TRUE]
      ELSE [r EXCEPT !.child[Towards(k, p)][p] = k, !.parent[k] = p, !.black[k] = TRUE]

Hung(r, k) ==
  LET p == LastOf(r, k)
  IN  IF p = NULL THEN [r EXCEPT !.root = k]
      ELSE [r EXCEPT !.child[Towards(k, p)][p] = k, !.parent[k] = p]

\* lgx_rb_set; NULL when the key is there or there is no memory.
lgx_rb_set(k) ==
  \/ /\ k \notin Path(t, k)
     /\ t' = [Balanced(Hung(t, k), k) EXCEPT !.size = @ + 1]
     /\ answer' = k
  \/ /\ answer' = NULL
     /\ UNCHANGED t

-----------------------------------------------------------------------------
(* Deletion.                                                               *)

\* The far end of the tree under n.
End(r, side, from) ==
  LET f[n \in Keys] == IF r.child[side][n] = NULL THEN n ELSE f[r.child[side][n]]
  IN  IF from = NULL THEN NULL ELSE f[from]

\* In the loop of lgx_rb_del the paths through s.x, a child of s.p, lack a black node.
Enough(s) == s.x = s.tree.root \/ IsRed(s.tree, s.x)
Side(s) == SideOf(s.tree, s.x, s.p)
Sibling(s) == s.tree.child[Other(Side(s))][s.p]

\* A red sibling is rotated away.
BlackSibling(s) ==
  LET r == s.tree
  IN  IF IsBlack(r, Sibling(s)) THEN s
      ELSE [s EXCEPT !.tree = Rotated([r EXCEPT !.black[Sibling(s)] = TRUE, !.black[s.p] = FALSE],
                                      Side(s), s.p)]

\* The sibling has no red child, and turns red itself: the parent's paths lack a node now.
Climbs(s) ==
  \A side \in Sides : IsBlack(s.tree, s.tree.child[side][Sibling(s)])
Climb(s) ==
  IF Enough(s) \/ ~Climbs(BlackSibling(s)) THEN s
  ELSE LET b == BlackSibling(s)
       IN  [tree |-> [b.tree EXCEPT !.black[Sibling(b)] = FALSE],
            x |-> b.p, p |-> b.tree.parent[b.p]]

\* The sibling has a red child.  If only the one next to x is red, it becomes the sibling.
RedNephew(s) ==
  LET r == s.tree
      u == Sibling(s)
      near == r.child[Side(s)][u]
  IN  IF IsRed(r, r.child[Other(Side(s))][u]) THEN s
      ELSE [s EXCEPT !.tree = Rotated([Coloured(r, near, TRUE) EXCEPT !.black[u] = FALSE],
                                      Other(Side(s)), u)]

\* The sibling goes up and the parent comes down to x.
Filled(s) ==
  LET r == s.tree
      u == Sibling(s)
      r1 == [r EXCEPT !.black[u] = r.black[s.p], !.black[s.p] = TRUE]
  IN  Rotated(Coloured(r1, r1.child[Other(Side(s))][u], TRUE), Side(s), s.p)

Rebalanced(r, x, p) ==
  LET rounds[i \in 0 .. r.size] ==
        IF i = 0 THEN [tree |-> r, x |-> x, p |-> p] ELSE Climb(rounds[i - 1])
      s == rounds[r.size]
  IN  Coloured(IF Enough(s) THEN s.tree ELSE Filled(RedNephew(BlackSibling(s))), s.x, TRUE)

\* A node with at most one child leaves the tree: the child takes its place.
OnlyChild(r, n) ==
  IF r.child["left"][n] = NULL THEN r.child["right"][n] ELSE r.child["left"][n]
TakenOut(r, n) ==
  LET x == OnlyChild(r, n)
  IN  [tree |-> Relinked(WithParent(r, x, r.parent[n]), n, x),
       x |-> x, p |-> r.parent[n], black |-> r.black[n]]

\* A node with two children: its successor y takes its place and its colour.
Replaced(r, n) ==
  LET y == End(r, "left", r.child["right"][n])
      out == TakenOut(r, y)
      r1 == [out.tree EXCEPT !.child["left"][y] = out.tree.child["left"][n],
                             !.child["right"][y] = out.tree.child["right"][n],
                             !.parent[y] = r.parent[n],
                             !.black[y] = r.black[n]]
      r2 == WithParent(WithParent(r1, r1.child["left"][y], y), r1.child["right"][y], y)
  IN  [tree |-> Relinked(r2, n, y), x |-> out.x,
       p |-> IF out.p = n THEN y ELSE out.p, black |-> out.black]

Erased(r, n) ==
  [r EXCEPT !.child["left"][n] = NULL, !.child["right"][n] = NULL,
            !.parent[n] = NULL, !.black[n] = FALSE]

Bug_removes_the_successor(n) ==
  /\ n \in Path(t, n)
  /\ LET y == IF NULL \in {t.child["left"][n], t.child["right"][n]} THEN n
              ELSE End(t, "left", t.child["right"][n])
         out == TakenOut(t, y)
         r == IF out.black THEN Rebalanced(out.tree, out.x, out.p) ELSE out.tree
     IN  t' = [Erased(r, y) EXCEPT !.size = @ - 1]
  /\ answer' = n

\* lgx_rb_del, of a node in the tree.
lgx_rb_del(n) ==
  /\ n \in Path(t, n)
  /\ LET out == IF NULL \notin {t.child["left"][n], t.child["right"][n]}
                THEN Replaced(t, n) ELSE TakenOut(t, n)
         r == IF out.black THEN Rebalanced(out.tree, out.x, out.p) ELSE out.tree
     IN  t' = [Erased(r, n) EXCEPT !.size = @ - 1]
  /\ answer' = n

-----------------------------------------------------------------------------
(* Queries.                                                                *)

\* The loops of lgx_rb_get_lesser and its like: down from the root, keeping
\* the last node after which the way went to the side; it goes left at lefts.
LastBefore(r, side, lefts) ==
  LET way(n) == IF n \in lefts THEN "left" ELSE "right"
      f[n \in Pointers] ==
        IF n = NULL THEN NULL
        ELSE LET below == f[r.child[way(n)][n]]
             IN  IF below = NULL /\ way(n) = side THEN n ELSE below
  IN  f[r.root]

lgx_rb_get(r, k) == IF k \in Path(r, k) THEN k ELSE NULL
lgx_rb_get_lesser(r, k) == LastBefore(r, "right", {n \in Keys : n >= k})
lgx_rb_get_lesser_or_equal(r, k) == LastBefore(r, "right", {n \in Keys : n > k})
lgx_rb_get_greater(r, k) == LastBefore(r, "left", {n \in Keys : n > k})
lgx_rb_get_greater_or_equal(r, k) == LastBefore(r, "left", {n \in Keys : n >= k})
lgx_rb_get_min(r) == End(r, "left", r.root)
lgx_rb_get_max(r) == End(r, "right", r.root)

Bug_stops_at_the_parent(r, k) ==
  IF r.child["right"][k] # NULL THEN End(r, "left", r.child["right"][k])
  ELSE r.parent[k]

\* lgx_rb_next: the leftmost node below on the right, or the first ancestor
\* reached from its left.
lgx_rb_next(r, k) ==
  LET f[n \in Keys] ==
        LET p == r.parent[n]
        IN  IF p # NULL /\ n = r.child["right"][p] THEN f[p] ELSE p
  IN  IF r.child["right"][k] # NULL THEN End(r, "left", r.child["right"][k]) ELSE f[k]

\* lgx_rb_cleanup frees the nodes and sets size to 0, but root goes on pointing
\* to the freed node: the tree is out of use until lgx_rb_init.
InUse == t.root # NULL => t.size > 0

lgx_rb_cleanup ==
  /\ t' = [Empty EXCEPT !.root = t.root]
  /\ answer' = NULL

lgx_rb_init ==
  /\ t' = Empty
  /\ answer' = NULL

Next ==
  \/ InUse /\ \E k \in Keys : lgx_rb_set(k) \/ lgx_rb_del(k)
  \/ InUse /\ lgx_rb_cleanup
  \/ ~InUse /\ lgx_rb_init

Spec == Init /\ [][Next]_vars

-----------------------------------------------------------------------------
(* Properties.                                                             *)

\* The nodes reached from the root, if there still are any.
Nodes(r) ==
  LET f[n \in Pointers] ==
        IF n = NULL THEN {} ELSE {n} \cup f[r.child["left"][n]] \cup f[r.child["right"][n]]
  IN  f[r.root]
Members == IF InUse THEN Nodes(t) ELSE {}

Set == INSTANCE SortedSet WITH set <- Members

\* Pointers are pointers, parent and child links agree, and a node out of the
\* tree has nothing pointing to it.
TypeOK ==
  /\ t.root \in Pointers /\ t.size \in Nat /\ answer \in Pointers
  /\ t.child \in [Sides -> [Keys -> Pointers]]
  /\ t.parent \in [Keys -> Pointers]
  /\ t.black \in [Keys -> BOOLEAN]
  /\ \A n \in Keys, side \in Sides :
       t.child[side][n] # NULL => t.parent[t.child[side][n]] = n
  /\ \A n \in Keys :
       t.parent[n] = NULL
         \/ \E side \in Sides : t.child[side][t.parent[n]] = n

\* How many black nodes the paths down from each node have.
BlackNodes(r) ==
  LET f[n \in Pointers] ==
        IF n = NULL THEN {0}
        ELSE {h + (IF r.black[n] THEN 1 ELSE 0) :
                h \in f[r.child["left"][n]] \cup f[r.child["right"][n]]}
  IN  f

\* rb.c states them: the root is black, a red node has black children, and on
\* all paths down from a node there are equally many black nodes.
RedBlack ==
  /\ InUse => IsBlack(t, t.root)
  /\ \A n \in Members : IsRed(t, n) => \A side \in Sides : IsBlack(t, t.child[side][n])
  /\ \A n \in Members : Cardinality(BlackNodes(t)[n]) = 1

\* In a tree in use, every query of a key, a member or not, gives what the sorted
\* set of the members gives, and a traversal goes from each to the next.
QueriesAreRight == InUse =>
  /\ \A k \in Keys :
       /\ lgx_rb_get(t, k) = IF k \in Members THEN k ELSE NULL
       /\ lgx_rb_get_lesser(t, k) = Set!Greatest({j \in Members : j < k})
       /\ lgx_rb_get_lesser_or_equal(t, k) = Set!Greatest({j \in Members : j <= k})
       /\ lgx_rb_get_greater(t, k) = Set!Least({j \in Members : j > k})
       /\ lgx_rb_get_greater_or_equal(t, k) = Set!Least({j \in Members : j >= k})
       /\ k \in Members => lgx_rb_next(t, k) = Set!Least({j \in Members : j > k})
  /\ lgx_rb_get_min(t) = Set!Least(Members)
  /\ lgx_rb_get_max(t) = Set!Greatest(Members)
  /\ t.size = Cardinality(Members)

\* The tree implements a set: no insertion or deletion loses another key in
\* its rotations.
ImplementsSet == Set!Spec
=============================================================================
