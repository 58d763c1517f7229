----------------------------- MODULE HashTable ------------------------------
(***************************************************************************)
(* The hash table of src/common/ht.c: an array of chains linked by         *)
(* node->next, and a second list through the same nodes, node->order, in   *)
(* insertion order, by which the table is traversed and rebuilt.           *)
(*                                                                         *)
(* The symbol tables, the constant table and the arrays of xscript programs*)
(* are hash tables.  What a value is does not matter here: the nodes hold  *)
(* keys, sequences of bytes.  Any allocation may fail.                     *)
(***************************************************************************)
EXTENDS Integers, Sequences, FiniteSets, SequencesExt

CONSTANTS
  Keys,       \* the keys used
  Nodes,      \* addresses of lgx_ht_node_t blocks
  NULL,       \* the null pointer
  MIN_SIZE,   \* LGX_HT_MIN_SIZE
  UINTS,      \* how many unsigned integers there are: 2^32
  Requests,   \* sizes lgx_ht_init is asked for
  MaxShift    \* bound of the model: the largest table at the start is 2^MaxShift

\* lgx_str_cmp: the first difference, or the first byte of the longer string that the shorter one
\* does not have.
Differences(a, b) == {i \in 1 .. Len(a) : i <= Len(b) /\ a[i] # b[i]}
Beyond(a, b) ==
  IF Len(a) > Len(b) THEN a[Len(b) + 1] ELSE IF Len(a) < Len(b) THEN -b[Len(a) + 1] ELSE 0
FirstDifference(a, b) ==
  LET i == CHOOSE i \in Differences(a, b) : \A j \in Differences(a, b) : i <= j IN a[i] - b[i]

Bug_compares_the_common_part(a, b) ==
  IF Differences(a, b) # {} THEN FirstDifference(a, b) ELSE 0

lgx_str_cmp(a, b) ==
  IF Differences(a, b) # {} THEN FirstDifference(a, b) ELSE Beyond(a, b)

\* The byte beyond must not be 0: an array with the key "a" and the key 97, whose bytes are 97 and
\* zeros, may take one for the other.
ASSUME HashTableAssumption ==
  /\ NULL \notin Nodes
  /\ IsFiniteSet(Nodes)
  /\ \A k \in Keys : k \in Seq(0 .. 127) /\ k # <<>>
  /\ \A k, l \in Keys : Len(k) # Len(l) => Differences(k, l) # {} \/ Beyond(k, l) # 0
  /\ MIN_SIZE \in Nat \ {0}
  /\ UINTS \in Nat \ {0}
  /\ Requests \subseteq Nat
  /\ MaxShift \in Nat

VARIABLES
  ht,       \* the lgx_ht_t and the nodes: see Empty
  answer,   \* what the last call returned, with its key for lgx_ht_get
  intact    \* history: nothing was deleted

vars == <<ht, answer, intact>>

Pointers == Nodes \cup {NULL}
FREE == <<>> \* the key of a block that is not in use: lgx_ht_get asserts that keys have bytes

\* ALIGN rounds up to a power of two, 2^32 >> clz(x - 1): 0 becomes 2^32, which
\* is 0 as an unsigned, and 1 asks for the leading zeros of 0, which
\* __builtin_clz leaves undefined.  There is no memory for more than 2^30
\* buckets.
Align(x) ==
  IF x = 0 THEN {0}
  ELSE IF x = 1 THEN {0} \cup {2^i : i \in 0 .. MaxShift}
  ELSE {2^i : i \in {i \in 0 .. 30 : 2^i >= x /\ \A j \in 0 .. i - 1 : 2^j < x}}

Bug_no_minimum(x) == Align(x)

\* lgx_ht_init.
InitialSizes(x) == {IF s < MIN_SIZE THEN MIN_SIZE ELSE s : s \in Align(x)}

\* A table without entries.  The nodes are memory and keep what they hold.
Empty(size, h) ==
  [h EXCEPT !.table = [b \in 0 .. size - 1 |-> NULL], !.size = size,
            !.length = 0, !.head = NULL, !.tail = NULL]

\* An lgx_ht_t that is not in use is all zeros.
Init ==
  /\ ht = [table |-> <<>>, size |-> 0, length |-> 0, head |-> NULL, tail |-> NULL,
           k |-> [n \in Nodes |-> FREE],
           next |-> [n \in Nodes |-> NULL],
           order |-> [n \in Nodes |-> NULL]]
  /\ answer = <<"none">>
  /\ intact = TRUE

-----------------------------------------------------------------------------
(* Following pointers.  A walk stops after as many steps as there are      *)
(* nodes, so that a cycle shows as a repeated node and not as a hang.      *)

Walk(link, from) ==
  LET path[left \in 0 .. Cardinality(Nodes) + 1] ==
        [n \in Pointers |->
           IF n = NULL \/ left = 0 THEN <<>> ELSE <<n>> \o path[left - 1][link[n]]]
  IN  path[Cardinality(Nodes) + 1][from]

Chain(h, b) == Walk(h.next, h.table[b])
Order(h) == Walk(h.order, h.head)

ht_bkdr(k) ==
  LET ret[i \in 0 .. Len(k)] == IF i = 0 THEN 0 ELSE (31 * ret[i - 1] + k[i]) % UINTS
  IN  ret[Len(k)]

Bucket(h, k) == ht_bkdr(k) % h.size

\* The loop of lgx_ht_get: the first node of the chain that holds the key, if any.
Find(h, k) ==
  LET chain == Chain(h, Bucket(h, k))
      matches == {i \in 1 .. Len(chain) : lgx_str_cmp(h.k[chain[i]], k) = 0}
  IN  {chain[i] : i \in {i \in matches : \A j \in matches : i <= j}}

-----------------------------------------------------------------------------
\* ht_set, the key being absent: in front of its chain, behind all others.
Bug_forgets_the_tail(h, n) ==
  LET b == Bucket(h, h.k[n])
  IN  [h EXCEPT !.table[b] = n,
                !.next[n] = h.table[b],
                !.length = @ + 1,
                !.head = IF h.tail = NULL THEN n ELSE @,
                !.tail = n]

Bug_forgets_the_chain(h, n) ==
  LET b == Bucket(h, h.k[n])
      g == [h EXCEPT !.table[b] = n,
                     !.next[n] = NULL,
                     !.length = @ + 1,
                     !.tail = n]
  IN  IF h.tail = NULL THEN [g EXCEPT !.head = n]
      ELSE [g EXCEPT !.order[h.tail] = n]

Insert(h, n) ==
  LET b == Bucket(h, h.k[n])
      g == [h EXCEPT !.table[b] = n,
                     !.next[n] = h.table[b],
                     !.length = @ + 1,
                     !.tail = n]
  IN  IF h.tail = NULL THEN [g EXCEPT !.head = n]
      ELSE [g EXCEPT !.order[h.tail] = n]

\* ht_resize: the nodes are inserted again, in their order, into a table of
\* twice the size.
Resized(h) ==
  LET order == Order(h)
      resize[i \in 0 .. Len(order)] ==
        IF i = 0 THEN {Empty(size, h) : size \in InitialSizes(h.size * 2)}
        ELSE {Insert(g, order[i]) : g \in resize[i - 1]}
  IN  resize[Len(order)]

\* A new node: the key is copied, next and order are NULL.
WithNode(n, k) ==
  [ht EXCEPT !.k[n] = k, !.next[n] = NULL, !.order[n] = NULL]

Free == {n \in Nodes : ht.k[n] = FREE}
Live == Nodes \ Free

\* lgx_ht_init, into a table that is not in use; it may fail.
lgx_ht_init(x) ==
  /\ ht' \in {ht} \cup {Empty(size, ht) : size \in InitialSizes(x)}
  /\ answer' = <<"none">>
  /\ intact' = TRUE

\* lgx_ht_cleanup goes through the chains, whatever the order list says.
lgx_ht_cleanup ==
  /\ LET left == Live \ UNION {ToSet(Chain(ht, b)) : b \in 0 .. ht.size - 1}
     IN  ht' = [Empty(0, ht) EXCEPT
                  !.k = [n \in Nodes |-> IF n \in left THEN @[n] ELSE FREE],
                  !.next = [n \in Nodes |-> NULL],
                  !.order = [n \in Nodes |-> NULL]]
  /\ answer' = <<"none">>
  /\ UNCHANGED intact

\* lgx_ht_set.  A resize that cannot get memory is passed over in silence.
\* After a deletion the table is not written to any more, see lgx_ht_del.
lgx_ht_set(k) ==
  /\ intact
  /\ \/ /\ Find(ht, k) = {}
        /\ \E n \in Free :
             LET h == Insert(WithNode(n, k), n)
             IN  ht' \in {h} \cup (IF h.size < h.length * 2 THEN Resized(h) ELSE {})
        /\ answer' = <<"ok">>
     \/ /\ answer' = <<"failed">>
        /\ UNCHANGED ht
  /\ UNCHANGED intact

lgx_ht_get(k) ==
  /\ answer' = <<IF Find(ht, k) = {} THEN "missing" ELSE "found", k>>
  /\ UNCHANGED <<ht, intact>>

Bug_drops_the_rest(n, link) == [p \in Nodes |-> IF link[p] = n THEN NULL ELSE link[p]]

\* The links of the chain once n is out of it.
Bypassed(n, link) == [p \in Nodes |-> IF link[p] = n THEN link[n] ELSE link[p]]

\* lgx_ht_del: the node leaves its chain and is freed, but stays in the order
\* list and in length.  An insertion or a resize would then use freed memory;
\* nothing in the repository deletes, and the model allows no insertion after
\* a deletion.
lgx_ht_del(k) ==
  /\ \E n \in Find(ht, k) :
       LET b == Bucket(ht, k)
       IN  ht' = [ht EXCEPT
                    !.k[n] = FREE,
                    !.table[b] = IF @ = n THEN ht.next[n] ELSE @,
                    !.next = Bypassed(n, @)]
  /\ answer' = <<"none">>
  /\ intact' = FALSE

InUse == ht.size # 0

Next ==
  \/ ~InUse /\ \E x \in Requests : lgx_ht_init(x)
  \/ InUse /\ \E k \in Keys : lgx_ht_set(k) \/ lgx_ht_get(k) \/ lgx_ht_del(k)
  \/ InUse /\ lgx_ht_cleanup

Spec == Init /\ [][Next]_vars

-----------------------------------------------------------------------------
(* Properties.                                                             *)

\* The table and every node have their types; the size of a table in use
\* never falls below the minimum, so that there is always a bucket to look in.
TypeOK ==
  /\ ht.size \in Nat /\ (InUse => ht.size >= MIN_SIZE)
  /\ ht.length \in Nat
  /\ ht.table \in [0 .. ht.size - 1 -> Pointers]
  /\ ht.head \in Pointers /\ ht.tail \in Pointers
  /\ ht.k \in [Nodes -> Keys \cup {FREE}]
  /\ ht.next \in [Nodes -> Pointers]
  /\ ht.order \in [Nodes -> Pointers]

\* Every node is in one chain, the chain of its key, once: a resize that moves
\* the nodes in place through the links it is rewriting loses none of them,
\* and a deletion takes only its own node out.  So the clean-up, which goes by
\* the chains, leaves no node behind.
ChainsHoldAll ==
  /\ ~InUse => Live = {}
  /\ \A b \in 0 .. ht.size - 1 :
       /\ IsInjective(Chain(ht, b))
       /\ ToSet(Chain(ht, b)) = {n \in Live : Bucket(ht, ht.k[n]) = b}

\* The traversal list "kept in insertion order" visits the nodes in use, each
\* once, ends at tail, and length counts them, as long as nothing is deleted.
TraversalIsComplete == intact =>
  /\ IsInjective(Order(ht))
  /\ ToSet(Order(ht)) = Live
  /\ Len(Order(ht)) = ht.length
  /\ ht.tail = IF Live = {} THEN NULL ELSE Last(Order(ht))

\* The hash table is an ordered map, through every growth and failed growth:
\* its entries are the keys in the order list, the deleted ones left out.
Entries(h) ==
  LET order == Order(h)
      keys[i \in 0 .. Len(order)] ==
        IF i = 0 THEN <<>>
        ELSE IF h.k[order[i]] # FREE THEN Append(keys[i - 1], h.k[order[i]]) ELSE keys[i - 1]
  IN  keys[Len(order)]

Map == INSTANCE OrderedMap WITH entries <- Entries(ht), NONE <- <<"none">>

ImplementsMap == Map!Spec
=============================================================================
