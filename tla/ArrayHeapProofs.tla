-------------------------- MODULE ArrayHeapProofs ---------------------------
(***************************************************************************)
(* The ownership of objects in ArrayHeap holds for every set of addresses, *)
(* every number of registers and arrays of any length.                     *)
(*                                                                         *)
(* That every object has one owner is not inductive: freeing the element   *)
(* an array loses, with all its parts, keeps it only if no part of the     *)
(* element is used from elsewhere and the array is not one of the parts.   *)
(* The first follows from unique owners; the second needs that memory has  *)
(* no cycle.  Rooted says that without speaking of paths: a set of         *)
(* addresses that holds the young list and, with every array, the elements *)
(* of the array, holds every object.                                       *)
(***************************************************************************)
EXTENDS ArrayHeap, FiniteSetTheorems, SequenceTheorems, TLAPS

Pointers == [type : {"STRING", "ARRAY", "FUNCTION"}, v : Addr]

Values ==
  Pointers
    \cup [type : {"UNKNOWN", "NULL"}, v : {0}]
    \cup [type : {"LONG"}, v : Longs]

Keys == ({"LONG"} \X Nat) \cup ({"STRING"} \X Strings)
Items == [key : Keys, v : Values]
Tables == {t \in Seq(Items) : Len(t) <= MaxLength}
Arrays == [type : {"ARRAY"}, gc : {"ARRAY"}, table : Tables]

Shape ==
  /\ R \in [Regs -> Values]
  /\ obj \in [Addr -> Arrays \cup Objects]
  /\ young \subseteq Addr
  /\ mode \in {"run", "cleaned"}

KeysDiffer ==
  \A a \in Addr : \A i, j \in Slots(a) :
    obj[a].table[i].key = obj[a].table[j].key => i = j

NothingDangles == \A a \in Addr : \A i \in Slots(a) : Valid(Element(a, i))

OneOwner ==
  \A a, b, c \in Addr : \A i \in Slots(b), j \in Slots(c) :
    Owns(b, i, a) /\ Owns(c, j, a) => b = c /\ i = j

YoungUnowned ==
  young \subseteq Live /\ \A a \in young, b \in Addr : a \notin ElementsOf(b)

Rooted == \A S \in SUBSET Addr : young \subseteq S /\ Closed(S) => Live \subseteq S

\* While the program runs no header is gone, and only strings lack a type there.
HeadersKept ==
  \A a \in Live : obj[a].type # "BUFFER" /\ (obj[a].gc = "UNKNOWN" => obj[a].type = "STRING")

Linked == NothingDangles /\ OneOwner /\ YoungUnowned /\ Rooted

IInv ==
  /\ Shape
  /\ mode = "run" => KeysDiffer /\ Linked /\ HeadersKept
  /\ mode = "cleaned" => young = {} /\ \A a \in Addr : obj[a] \in {Free, Buffer}
-----------------------------------------------------------------------------
(* What a value is made of.                                                *)

\* An array in memory is a sequence of items.
LEMMA TableTypes ==
  ASSUME Shape, NEW a \in Addr, obj[a].type = "ARRAY"
  PROVE  /\ obj[a] \in Arrays
         /\ obj[a].table \in Seq(Items)
         /\ Len(obj[a].table) \in Nat /\ Len(obj[a].table) <= MaxLength
         /\ Slots(a) = 1 .. Len(obj[a].table)
         /\ \A i \in Slots(a) :
              /\ obj[a].table[i] \in Items
              /\ obj[a].table[i].key \in Keys
              /\ Element(a, i) \in Values
<1>1. obj[a] \in Arrays
  BY DEF Shape, Objects, FunctionObj, Free, Buffer
<1>2. /\ obj[a].table \in Seq(Items)
      /\ Len(obj[a].table) \in Nat /\ Len(obj[a].table) <= MaxLength
  BY <1>1 DEF Arrays, Tables
<1>3. Slots(a) = 1 .. Len(obj[a].table)
  BY DEF Slots
<1>4. \A i \in Slots(a) : obj[a].table[i] \in Items
  BY <1>2, <1>3, ElementOfSeq
<1>5. \A x \in Items : x.key \in Keys /\ x.v \in Values
  BY DEF Items
<1>6. QED
  BY <1>1, <1>2, <1>3, <1>4, <1>5 DEF Element

\* Elements are values, and pointers among them point into Addr.
LEMMA ElementTypes ==
  ASSUME Shape
  PROVE  /\ \A a \in Addr : \A i \in Slots(a) : Element(a, i) \in Values /\ i \in Nat
         /\ \A a \in Addr : ElementsOf(a) \subseteq Addr
         /\ \A v \in Values : IsPointer(v) <=> v \in Pointers
<1>1. ASSUME NEW a \in Addr, NEW i \in Slots(a)
      PROVE  Element(a, i) \in Values /\ i \in Nat
  <2>1. obj[a].type = "ARRAY"
    BY DEF Slots
  <2>2. QED
    BY <2>1, TableTypes
<1>2. \A v \in Values : IsPointer(v) <=> v \in Pointers
  BY DEF Values, Pointers, IsPointer
<1>3. \A a \in Addr : ElementsOf(a) \subseteq Addr
  BY <1>1, <1>2 DEF ElementsOf, Pointers
<1>4. QED
  BY <1>1, <1>2, <1>3

\* An element that is a pointer points to a member of ElementsOf, and nothing
\* else is one.
LEMMA OwnsElement ==
  \A a, b : b \in ElementsOf(a) <=> \E i \in Slots(a) : Owns(a, i, b)
BY DEF ElementsOf, Owns

\* The objects in memory are those that are not free.
LEMMA LiveTypes ==
  ASSUME Shape
  PROVE  \A a \in Addr : a \in Live <=> obj[a].type # "FREE"
<1>1. ASSUME NEW a \in Addr PROVE obj[a] = Free <=> obj[a].type = "FREE"
  <2>1. obj[a] \in Arrays \cup Objects
    BY DEF Shape
  <2>2. QED
    BY <2>1 DEF Arrays, Objects, FunctionObj, Free, Buffer
<1>2. QED
  BY <1>1 DEF Live

\* Parts(v) is closed, holds the object of v, and is the smallest such set.
LEMMA PartsAreSmallest ==
  ASSUME Shape, NEW v \in Pointers
  PROVE  /\ v.v \in Parts(v) /\ Parts(v) \subseteq Addr
         /\ Closed(Parts(v))
         /\ \A S \in SUBSET Addr : v.v \in S /\ Closed(S) => Parts(v) \subseteq S
<1>1. IsPointer(v) /\ v.v \in Addr
  BY DEF Pointers, IsPointer
<1>2. \A a : a \in Parts(v) <=>
        a \in Addr /\ \A S \in SUBSET Addr : v.v \in S /\ Closed(S) => a \in S
  BY <1>1 DEF Parts
<1>3. ASSUME NEW a \in Parts(v), NEW x \in ElementsOf(a) PROVE x \in Parts(v)
  BY <1>2, <1>3, ElementTypes DEF Closed
<1>4. Closed(Parts(v))
  BY <1>3 DEF Closed
<1>5. QED
  BY <1>1, <1>2, <1>4

\* A value that is no pointer is made of no object.
LEMMA PartsOfOthers ==
  ASSUME NEW v, ~IsPointer(v)
  PROVE  Parts(v) = {}
BY DEF Parts

\* Every part of a value but its own object is an element of another part.
LEMMA PartsHaveOwners ==
  ASSUME Shape, NEW v \in Pointers, NEW x \in Parts(v), x # v.v
  PROVE  \E b \in Parts(v) : x \in ElementsOf(b)
<1> SUFFICES ASSUME \A b \in Parts(v) : x \notin ElementsOf(b)
             PROVE  FALSE
  OBVIOUS
<1> DEFINE S == Parts(v) \ {x}
<1>1. v.v \in S /\ S \in SUBSET Addr
  BY PartsAreSmallest
<1>2. Closed(S)
  BY PartsAreSmallest DEF Closed
<1>3. Parts(v) \subseteq S
  BY <1>1, <1>2, PartsAreSmallest
<1>4. QED
  BY <1>3

\* The objects in memory are closed: every element is one of them.
LEMMA LiveIsClosed ==
  ASSUME Shape, NothingDangles
  PROVE  /\ Closed(Live)
         /\ \A v \in Pointers : Valid(v) => v.v \in Live /\ Parts(v) \subseteq Live
<1>1. \A v \in Pointers : Valid(v) => v.v \in Live
  BY LiveTypes DEF Valid, IsPointer, Pointers
<1>2. ASSUME NEW a \in Live, NEW x \in ElementsOf(a) PROVE x \in Live
  <2>1. PICK i \in Slots(a) : Owns(a, i, x)
    BY OwnsElement, <1>2
  <2>2. a \in Addr
    BY DEF Live
  <2>3. Element(a, i) \in Pointers /\ Valid(Element(a, i)) /\ Element(a, i).v = x
    BY <2>1, <2>2, ElementTypes DEF Owns, NothingDangles
  <2>4. QED
    BY <1>1, <2>3
<1>3. Closed(Live) /\ Live \in SUBSET Addr
  BY <1>2 DEF Closed, Live
<1>4. QED
  BY <1>1, <1>3, PartsAreSmallest

\* Memory has no cycle: the object of a value is not an element of its parts.
LEMMA Acyclic ==
  ASSUME Shape, Linked, NEW v \in Pointers, Valid(v), NEW b \in Parts(v)
  PROVE  v.v \notin ElementsOf(b)
<1> SUFFICES ASSUME v.v \in ElementsOf(b)
             PROVE  FALSE
  OBVIOUS
<1> DEFINE D == Parts(v)
<1>1. /\ v.v \in D /\ D \subseteq Live /\ v.v \in Live
      /\ Closed(Live) /\ Live \subseteq Addr /\ D \subseteq Addr
  BY LiveIsClosed, PartsAreSmallest DEF Linked, Live
<1>2. \A x \in D : \E c \in D : x \in ElementsOf(c)
  BY PartsHaveOwners
<1> HIDE DEF D
<1>3. ASSUME NEW x \in D, NEW c \in Live, x \in ElementsOf(c)
      PROVE  c \in D
  <2>1. PICK d \in D : x \in ElementsOf(d)
    BY <1>2
  <2>2. PICK i \in Slots(c), j \in Slots(d) : Owns(c, i, x) /\ Owns(d, j, x)
    BY <1>3, <2>1, OwnsElement
  <2>3. c = d
    BY <1>1, <2>2 DEF Linked, OneOwner
  <2>4. QED
    BY <2>3
<1>4. D \cap young = {}
  BY <1>1, <1>2 DEF Linked, YoungUnowned
<1>5. Closed(Live \ D)
  BY <1>1, <1>3 DEF Closed
<1>6. young \subseteq Live \ D
  BY <1>4 DEF Linked, YoungUnowned
<1>7. Live \subseteq Live \ D
  BY <1>1, <1>5, <1>6 DEF Linked, Rooted
<1>8. QED
  BY <1>1, <1>7

\* The parts of an element belong to it alone: the array that holds it is not
\* one of them, none is on the young list, and nothing but that one slot of
\* the array points from outside to one of them.
LEMMA ElementsAreIsolated ==
  ASSUME Shape, Linked, NEW a \in Live, NEW i \in Slots(a), IsPointer(Element(a, i))
  PROVE  LET D == Parts(Element(a, i))
         IN  /\ D \subseteq Live /\ Closed(D) /\ a \notin D /\ D \cap young = {}
             /\ \A b \in Addr \ D : \A j \in Slots(b), x \in D : Owns(b, j, x) => b = a /\ j = i
<1> DEFINE e == Element(a, i)
           D == Parts(e)
<1>1. a \in Addr /\ e \in Pointers /\ Valid(e)
  BY ElementTypes DEF Linked, NothingDangles, Live
<1>2. e.v \in ElementsOf(a) /\ Owns(a, i, e.v)
  BY DEF ElementsOf, Owns
<1> HIDE DEF e
<1>3. D \subseteq Live /\ D \subseteq Addr /\ Closed(D) /\ a \notin D
  BY <1>1, <1>2, PartsAreSmallest, LiveIsClosed, Acyclic DEF Linked
<1>4. \A x \in D : x # e.v => \E c \in D : x \in ElementsOf(c)
  BY <1>1, PartsHaveOwners
<1> HIDE DEF D
<1>5. D \cap young = {}
  BY <1>1, <1>2, <1>3, <1>4 DEF Linked, YoungUnowned
<1>6. ASSUME NEW b \in Addr \ D, NEW j \in Slots(b), NEW x \in D, Owns(b, j, x)
      PROVE  b = a /\ j = i
  <2>1. CASE x = e.v
    BY <1>1, <1>2, <1>3, <1>6, <2>1 DEF Linked, OneOwner
  <2>2. CASE x # e.v
    <3>1. PICK c \in D : x \in ElementsOf(c)
      BY <1>4, <2>2
    <3>2. PICK k \in Slots(c) : Owns(c, k, x)
      BY <3>1, OwnsElement
    <3>3. c = b
      BY <1>3, <1>6, <3>2 DEF Linked, OneOwner
    <3>4. QED
      BY <3>3
  <2>3. QED
    BY <2>1, <2>2
<1>7. QED
  BY <1>3, <1>5, <1>6 DEF D, e

-----------------------------------------------------------------------------
(* Copies.                                                                 *)

\* lgx_value_dup puts every part in a place of its own that was free, and
\* changes nothing else.
LEMMA CopiesAreNew ==
  ASSUME NEW v, NEW m \in Places(v)
  PROVE  /\ m \in [Parts(v) -> Addr \ Live]
         /\ \A p, q \in Parts(v) : m[p] = m[q] => p = q
         /\ \A x : x \in Range(m) <=> \E p \in Parts(v) : x = m[p]
         /\ \A p \in Parts(v) : WithCopies(m)[m[p]] = Copy(p, m)
         /\ \A x \in Addr : x \notin Range(m) => WithCopies(m)[x] = obj[x]
         /\ DOMAIN WithCopies(m) = Addr
<1>1. /\ m \in [Parts(v) -> Addr \ Live]
      /\ \A p, q \in Parts(v) : m[p] = m[q] => p = q
  BY DEF Places, Injection, IsInjective
<1>2. \A x : x \in Range(m) <=> \E p \in Parts(v) : x = m[p]
  BY <1>1 DEF Range
<1>3. \A p \in Parts(v) : AntiFunction(m)[m[p]] = p
  BY <1>1, <1>2 DEF AntiFunction, Inverse
<1>4. \A p \in Parts(v) : m[p] \in Addr /\ m[p] \in Range(m)
  BY <1>1, <1>2
<1>5. QED
  BY <1>1, <1>2, <1>3, <1>4 DEF WithCopies

\* What Moved makes of a value whose object has been copied.
LEMMA MovedValues ==
  ASSUME NEW P, NEW m \in [P -> Addr], NEW w \in Values,
         IsPointer(w) => w.v \in P
  PROVE  /\ Moved(w, m) \in Values
         /\ Moved(w, m).type = w.type
         /\ IsPointer(Moved(w, m)) <=> IsPointer(w)
         /\ IsPointer(w) => Moved(w, m).v = m[w.v]
<1>1. CASE IsPointer(w)
  <2>1. w \in Pointers
    BY <1>1 DEF Values, Pointers, IsPointer
  <2>2. Moved(w, m) = [w EXCEPT !.v = m[w.v]] /\ m[w.v] \in Addr
    BY <1>1 DEF Moved
  <2>3. /\ Moved(w, m) \in Pointers /\ Moved(w, m).type = w.type
        /\ Moved(w, m).v = m[w.v]
    BY <2>1, <2>2 DEF Pointers
  <2>4. QED
    BY <1>1, <2>3 DEF Values, IsPointer
<1>2. CASE ~ IsPointer(w)
  BY <1>2 DEF Moved
<1>3. QED
  BY <1>1, <1>2

\* A copy has the type of its original, and the elements of an array that is
\* copied are the copies of its elements.
LEMMA CopiesAreLike ==
  ASSUME Shape, NEW v \in Values, NEW m \in Places(v), NEW p \in Parts(v)
  PROVE  /\ Copy(p, m) \in Arrays \cup Objects
         /\ Copy(p, m).type = obj[p].type
         /\ obj[p].type # "ARRAY" => Copy(p, m) = obj[p]
         /\ obj[p].type = "ARRAY" =>
              /\ Copy(p, m).gc = "ARRAY"
              /\ 1 .. Len(Copy(p, m).table) = Slots(p)
              /\ \A i \in Slots(p) :
                   /\ Copy(p, m).table[i].key = obj[p].table[i].key
                   /\ Copy(p, m).table[i].v = Moved(Element(p, i), m)
<1>1. v \in Pointers
  BY PartsOfOthers, ElementTypes
<1>2. p \in Addr /\ Closed(Parts(v)) /\ Parts(v) \in SUBSET Addr
  BY <1>1, PartsAreSmallest
<1>3. CASE obj[p].type # "ARRAY"
  BY <1>2, <1>3 DEF Copy, Shape
<1>4. CASE obj[p].type = "ARRAY"
  <2> DEFINE n == Len(obj[p].table)
             item(i) == [key |-> obj[p].table[i].key, v |-> Moved(Element(p, i), m)]
             t == [i \in Slots(p) |-> item(i)]
  <2>1. n \in Nat /\ n <= MaxLength /\ Slots(p) = 1 .. n
    BY <1>2, <1>4, TableTypes
  <2>2. Copy(p, m) = [type |-> "ARRAY", gc |-> "ARRAY", table |-> t]
    BY <1>4 DEF Copy, ArrayObj
  <2>3. m \in [Parts(v) -> Addr]
    BY CopiesAreNew
  <2>4. ASSUME NEW i \in Slots(p)
        PROVE  /\ item(i) \in Items
               /\ item(i).key = obj[p].table[i].key
               /\ item(i).v = Moved(Element(p, i), m)
    <3>1. obj[p].table[i].key \in Keys /\ Element(p, i) \in Values
      BY <1>2, <1>4, TableTypes
    <3>2. IsPointer(Element(p, i)) => Element(p, i).v \in Parts(v)
      BY <1>2 DEF Closed, ElementsOf
    <3>3. Moved(Element(p, i), m) \in Values
      BY <2>3, <3>1, <3>2, MovedValues
    <3>4. QED
      BY <3>1, <3>3 DEF Items
  <2> HIDE DEF item
  <2>5. DOMAIN t = 1 .. n /\ \A i \in Slots(p) : t[i] = item(i)
    BY <2>1
  <2>6. t \in [1 .. n -> Items]
    BY <2>1, <2>4
  <2> HIDE DEF t
  <2>7. t \in Seq(Items) /\ Len(t) = n
    BY <2>1, <2>5, <2>6, SeqDef, LenProperties
  <2>8. Copy(p, m) \in Arrays
    BY <2>1, <2>2, <2>7 DEF Arrays, Tables
  <2>9. Copy(p, m).table = t /\ Copy(p, m).gc = "ARRAY" /\ Copy(p, m).type = "ARRAY"
    BY <2>2
  <2>10. QED
    BY <1>4, <2>1, <2>4, <2>5, <2>7, <2>8, <2>9
<1>5. QED
  BY <1>3, <1>4

-----------------------------------------------------------------------------
(* OP_ARRAY_SET keeps memory linked.                                       *)

\* The array at A gets a copy of v in slot i, and the isolated objects D the
\* slot was made of are freed; a new slot was made of none.
Stores(A, i, v, m, D) ==
  /\ UNCHANGED young
  /\ D \subseteq Live /\ Closed(D) /\ A \notin D /\ D \cap young = {}
  /\ i \in Slots(A) /\ IsPointer(Element(A, i)) => Element(A, i).v \in D
  /\ \A b \in Addr \ D : \A j \in Slots(b), x \in D : Owns(b, j, x) => b = A /\ j = i
  /\ \A p \in Parts(v) : obj'[m[p]] = Copy(p, m)
  /\ \A x \in D : obj'[x] = Free
  /\ \A x \in Addr : x # A /\ x \notin D /\ x \notin Range(m) => obj'[x] = obj[x]
  /\ obj[A].type = "ARRAY" /\ obj'[A].type = "ARRAY"
  /\ i \in Slots(A)' /\ Element(A, i)' = Moved(v, m)
  /\ \A j : j # i => (j \in Slots(A)' <=> j \in Slots(A))
  /\ \A j \in Slots(A) : j # i => Element(A, j)' = Element(A, j)

\* Such a store keeps memory linked.
LEMMA StoreKeepsLinks ==
  ASSUME Shape, Linked, NEW A \in Live, NEW i \in Nat, NEW v \in Values, Valid(v),
         NEW m \in Places(v), NEW D, Stores(A, i, v, m, D)
  PROVE  Linked'
<1> USE DEF Stores
<1> DEFINE P == Parts(v)
<1>1. /\ P \subseteq Live /\ P \subseteq Addr /\ Closed(P)
      /\ IsPointer(v) => v.v \in P /\ v \in Pointers
      /\ Closed(Live) /\ Live \subseteq Addr
  <2>1. IsPointer(v) => P \subseteq Live /\ v.v \in P /\ v \in Pointers /\ Closed(P)
    BY ElementTypes, LiveIsClosed, PartsAreSmallest DEF Linked
  <2>2. ~IsPointer(v) => P = {}
    BY PartsOfOthers
  <2>3. Closed(Live) /\ Live \subseteq Addr
    BY LiveIsClosed DEF Linked, Live
  <2>4. QED
    BY <2>1, <2>2, <2>3 DEF Closed
<1>2. /\ m \in [P -> Addr \ Live]
      /\ \A p, q \in P : m[p] = m[q] => p = q
      /\ \A x : x \in Range(m) <=> \E p \in P : x = m[p]
  BY CopiesAreNew
<1>3. ASSUME NEW p \in P
      PROVE  /\ obj'[m[p]].type = obj[p].type
             /\ Slots(m[p])' = Slots(p)
             /\ \A j \in Slots(p) : Element(m[p], j)' = Moved(Element(p, j), m)
  <2>1. obj'[m[p]] = Copy(p, m)
    OBVIOUS
  <2>2. QED
    BY <2>1, CopiesAreLike DEF Slots, Element
<1>4. ASSUME NEW x \in D
      PROVE  Slots(x)' = {}
  BY DEF Slots, Free
<1>5. ASSUME NEW x \in Addr, x # A, x \notin D, x \notin Range(m)
      PROVE  Slots(x)' = Slots(x) /\ \A j : Element(x, j)' = Element(x, j)
  BY <1>5 DEF Slots, Element
<1>6. \A w \in Values : (IsPointer(w) => w.v \in P) =>
        /\ Moved(w, m).type = w.type
        /\ IsPointer(Moved(w, m)) <=> IsPointer(w)
        /\ IsPointer(w) => Moved(w, m).v = m[w.v]
  BY <1>1, <1>2, MovedValues
<1>7. \A p \in P : \A j \in Slots(p) :
        Element(p, j) \in Values /\ (IsPointer(Element(p, j)) => Element(p, j).v \in P)
  BY <1>1, ElementTypes DEF Closed, ElementsOf
<1>8. Live' = (Live \ D) \cup Range(m)
  <2>1. \A x \in Addr : x \in Live' <=> obj'[x] # Free
    BY DEF Live
  <2>2. Free.type = "FREE"
    BY DEF Free
  <2>3. \A p \in P : obj'[m[p]] # Free /\ m[p] \in Addr
    BY <1>1, <1>2, <1>3, <2>2, LiveTypes
  <2>4. obj'[A] # Free
    BY <2>2
  <2>5. Live' \subseteq Addr
    BY DEF Live
  <2>6. QED
    BY <1>1, <1>2, <2>1, <2>3, <2>4, <2>5 DEF Live
<1> HIDE DEF P
\* Who owns what afterwards: as before, or the stored value, or within copies.
<1>9. ASSUME NEW b \in Addr, NEW j \in Slots(b)', NEW a, Owns(b, j, a)'
      PROVE  \/ /\ b \notin D /\ b \notin Range(m) /\ b \in Live
                /\ ~ (b = A /\ j = i)
                /\ j \in Slots(b) /\ Element(b, j)' = Element(b, j)
                /\ Owns(b, j, a) /\ a \in Live \ D
             \/ b = A /\ j = i /\ IsPointer(v) /\ a = m[v.v] /\ v.v \in P
             \/ \E p, q \in P :
                  /\ b = m[p] /\ a = m[q] /\ j \in Slots(p)
                  /\ Owns(p, j, q) /\ Element(b, j)' = Moved(Element(p, j), m)
  <2>1. IsPointer(Element(b, j))' /\ Element(b, j)'.v = a
    BY <1>9 DEF Owns
  <2>2. CASE b \in D
    BY <1>4, <2>2
  <2>3. CASE b \in Range(m)
    <3>1. PICK p \in P : b = m[p]
      BY <1>2, <2>3
    <3>2. j \in Slots(p) /\ Element(b, j)' = Moved(Element(p, j), m)
      BY <1>3, <3>1
    <3>3. IsPointer(Element(p, j)) /\ Element(p, j).v \in P /\ a = m[Element(p, j).v]
      BY <1>6, <1>7, <2>1, <3>2 DEF IsPointer
    <3>4. QED
      BY <3>1, <3>2, <3>3 DEF Owns
  <2>4. CASE b = A /\ j = i
    BY <1>1, <1>6, <2>1, <2>4 DEF IsPointer
  <2>5. CASE b \notin D /\ b \notin Range(m) /\ ~ (b = A /\ j = i)
    <3>1. j \in Slots(b) /\ Element(b, j)' = Element(b, j)
      BY <1>5, <2>5
    <3>2. Owns(b, j, a)
      BY <2>1, <3>1 DEF Owns, IsPointer
    <3>3. b \in Live
      <4>1. obj[b].type = "ARRAY"
        BY <3>1 DEF Slots
      <4>2. QED
        BY <4>1, LiveTypes
    <3>4. a \in Live
      <4>1. a \in ElementsOf(b)
        BY <3>1, <3>2, OwnsElement
      <4>2. QED
        BY <1>1, <3>3, <4>1 DEF Closed
    <3>5. a \notin D
      BY <2>5, <3>1, <3>2
    <3>6. QED
      BY <2>5, <3>1, <3>2, <3>3, <3>4, <3>5
  <2>6. QED
    BY <2>2, <2>3, <2>4, <2>5
<1>10. A \notin Range(m) /\ A \in Addr /\ D \cap Range(m) = {} /\ Range(m) \cap Live = {}
  BY <1>1, <1>2
<1>11. NothingDangles'
  <2> SUFFICES ASSUME NEW b \in Addr, NEW j \in Slots(b)', NEW a, Owns(b, j, a)'
               PROVE  obj'[a].type = Element(b, j)'.type
    BY DEF NothingDangles, Valid, Owns
  <2>2. CASE j \in Slots(b) /\ Element(b, j)' = Element(b, j) /\ Owns(b, j, a) /\ a \in Live \ D
    <3>1. obj[a].type = Element(b, j).type
      BY <2>2 DEF Linked, NothingDangles, Valid, Owns
    <3>2. obj'[a].type = obj[a].type
      BY <1>1, <1>10, <2>2
    <3>3. QED
      BY <2>2, <3>1, <3>2
  <2>3. CASE b = A /\ j = i /\ IsPointer(v) /\ a = m[v.v] /\ v.v \in P
    <3>1. obj'[a].type = obj[v.v].type
      BY <1>3, <2>3
    <3>2. obj[v.v].type = v.type /\ Moved(v, m).type = v.type
      BY <1>6, <2>3 DEF Valid
    <3>3. QED
      BY <2>3, <3>1, <3>2
  <2>4. ASSUME NEW p \in P, NEW q \in P, b = m[p], a = m[q], j \in Slots(p),
               Owns(p, j, q), Element(b, j)' = Moved(Element(p, j), m)
        PROVE  obj'[a].type = Element(b, j)'.type
    <3>1. obj'[a].type = obj[q].type
      BY <1>3, <2>4
    <3>2. obj[q].type = Element(p, j).type
      BY <1>1, <2>4 DEF Linked, NothingDangles, Valid, Owns
    <3>3. Moved(Element(p, j), m).type = Element(p, j).type
      BY <1>6, <1>7, <2>4
    <3>4. QED
      BY <2>4, <3>1, <3>2, <3>3
  <2>5. QED
    BY <1>9, <2>2, <2>3, <2>4
<1>12. OneOwner'
  <2>1. \A q \in P : IsPointer(v) /\ q = v.v => \A p \in P : \A j \in Slots(p) : ~ Owns(p, j, q)
    BY <1>1, Acyclic, OwnsElement DEF P
  <2>2. ASSUME NEW a \in Addr, NEW b \in Addr, NEW c \in Addr,
               NEW j \in Slots(b)', NEW k \in Slots(c)', Owns(b, j, a)', Owns(c, k, a)'
        PROVE  b = c /\ j = k
    <3>1. CASE a \in Live
      <4>1. a \notin Range(m) /\ \A q \in P : a # m[q]
        BY <1>2, <3>1
      <4>2. /\ j \in Slots(b) /\ Owns(b, j, a)
            /\ k \in Slots(c) /\ Owns(c, k, a)
        BY <1>9, <2>2, <4>1
      <4>3. QED
        BY <4>2 DEF Linked, OneOwner
    <3>2. CASE a \notin Live
      <4>1. \/ b = A /\ j = i /\ IsPointer(v) /\ a = m[v.v] /\ v.v \in P
            \/ \E p, q \in P : b = m[p] /\ a = m[q] /\ j \in Slots(p) /\ Owns(p, j, q)
        BY <1>9, <2>2, <3>2
      <4>2. \/ c = A /\ k = i /\ IsPointer(v) /\ a = m[v.v] /\ v.v \in P
            \/ \E p, q \in P : c = m[p] /\ a = m[q] /\ k \in Slots(p) /\ Owns(p, k, q)
        BY <1>9, <2>2, <3>2
      <4>3. PICK q \in P : a = m[q]
        BY <4>1
      <4>4. \A x \in P : a = m[x] => x = q
        BY <1>2, <4>3
      <4>5. \/ b = A /\ j = i /\ IsPointer(v) /\ q = v.v
            \/ \E p \in P : b = m[p] /\ j \in Slots(p) /\ Owns(p, j, q)
        BY <4>1, <4>4
      <4>6. \/ c = A /\ k = i /\ IsPointer(v) /\ q = v.v
            \/ \E p \in P : c = m[p] /\ k \in Slots(p) /\ Owns(p, k, q)
        BY <4>2, <4>4
      <4>7. CASE IsPointer(v) /\ q = v.v
        BY <2>1, <4>5, <4>6, <4>7
      <4>8. CASE ~ (IsPointer(v) /\ q = v.v)
        <5>1. PICK x \in P : b = m[x] /\ j \in Slots(x) /\ Owns(x, j, q)
          BY <4>5, <4>8
        <5>2. PICK y \in P : c = m[y] /\ k \in Slots(y) /\ Owns(y, k, q)
          BY <4>6, <4>8
        <5>3. x = y /\ j = k
          BY <1>1, <5>1, <5>2 DEF Linked, OneOwner
        <5>4. QED
          BY <5>1, <5>2, <5>3
      <4>9. QED
        BY <4>7, <4>8
    <3>3. QED
      BY <3>1, <3>2
  <2>3. QED
    BY <2>2 DEF OneOwner
<1>13. YoungUnowned'
  <2>1. young' = young /\ young \subseteq Live /\ young \subseteq Live'
    BY <1>8 DEF Linked, YoungUnowned
  <2>2. ASSUME NEW a \in young, NEW b \in Addr, a \in ElementsOf(b)'
        PROVE  FALSE
    <3>1. PICK j \in Slots(b)' : Owns(b, j, a)'
      BY <2>2 DEF ElementsOf, Owns
    <3>2. \A q \in P : a # m[q]
      BY <1>2, <2>1
    <3>3. b \in Live /\ j \in Slots(b) /\ Owns(b, j, a)
      BY <1>9, <3>1, <3>2
    <3>4. QED
      BY <3>3, OwnsElement DEF Linked, YoungUnowned
  <2>3. QED
    BY <2>1, <2>2 DEF YoungUnowned
<1>14. Rooted'
  <2> SUFFICES ASSUME NEW S \in SUBSET Addr, young \subseteq S, Closed(S)'
               PROVE  Live' \subseteq S
    BY DEF Rooted
  <2>1. \A x \in S : \A j \in Slots(x)' : IsPointer(Element(x, j))' => Element(x, j)'.v \in S
    BY DEF Closed, ElementsOf
  <2>2. ASSUME NEW x \in S \cup D, NEW y \in ElementsOf(x)
        PROVE  y \in S \cup D
    <3>1. CASE x \in D
      BY <3>1 DEF Closed
    <3>2. CASE x \in S /\ x \notin D
      <4>1. PICK j \in Slots(x) : Owns(x, j, y)
        BY OwnsElement
      <4>2. x \notin Range(m)
        <5>1. x \in Live
          BY <4>1, <3>2 DEF Slots, Live, Free
        <5>2. QED
          BY <1>10, <5>1
      <4>3. CASE x = A /\ j = i
        BY <4>1, <4>3 DEF Owns
      <4>4. CASE ~ (x = A /\ j = i)
        <5>1. j \in Slots(x)' /\ Element(x, j)' = Element(x, j)
          BY <1>5, <3>2, <4>2, <4>4
        <5>2. QED
          BY <2>1, <3>2, <4>1, <5>1 DEF Owns, IsPointer
      <4>5. QED
        BY <4>3, <4>4
    <3>3. QED
      BY <3>1, <3>2
  <2>3. Live \subseteq S \cup D
    <3>1. Closed(S \cup D)
      BY <2>2 DEF Closed
    <3>2. S \cup D \in SUBSET Addr
      BY <1>1
    <3>3. QED
      BY <3>1, <3>2 DEF Linked, Rooted
  <2>4. IsPointer(v) => m[v.v] \in S
    <3>1. A \in S
      BY <2>3
    <3>2. QED
      BY <1>1, <1>6, <2>1, <3>1
  <2>5. Range(m) \subseteq S
    <3> DEFINE Q == {p \in P : m[p] \in S}
    <3>1. ASSUME NEW p \in Q, NEW q \in ElementsOf(p)
          PROVE  q \in Q
      <4>1. PICK j \in Slots(p) : Owns(p, j, q)
        BY OwnsElement
      <4>2. q \in P /\ IsPointer(Element(p, j)) /\ Element(p, j).v = q
        BY <1>7, <4>1 DEF Owns
      <4>3. /\ Element(m[p], j)' = Moved(Element(p, j), m) /\ j \in Slots(m[p])'
            /\ IsPointer(Moved(Element(p, j), m)) /\ Moved(Element(p, j), m).v = m[q]
        BY <1>3, <1>6, <1>7, <4>1, <4>2
      <4>4. m[q] \in S
        BY <2>1, <4>3 DEF IsPointer
      <4>5. QED
        BY <4>2, <4>4
    <3>2. Closed(Q)
      BY <3>1 DEF Closed
    <3>3. Q \in SUBSET Addr
      BY <1>1
    <3>4. CASE IsPointer(v)
      <4>1. v \in Pointers /\ v.v \in Q
        BY <1>1, <2>4, <3>4
      <4>2. P \subseteq Q
        BY <3>2, <3>3, <4>1, PartsAreSmallest DEF P
      <4>3. QED
        BY <1>2, <4>2
    <3>5. CASE ~ IsPointer(v)
      <4>1. P = {}
        BY <3>5, PartsOfOthers DEF P
      <4>2. QED
        BY <1>2, <4>1
    <3>6. QED
      BY <3>4, <3>5
  <2>6. QED
    BY <1>8, <2>3, <2>5
<1>15. QED
  BY <1>11, <1>12, <1>13, <1>14 DEF Linked

\* What else the array at A must be afterwards.
StaysArray(A) ==
  /\ obj' = [x \in Addr |-> obj'[x]]
  /\ obj'[A] \in Arrays
  /\ \A j, k \in Slots(A)' : obj'[A].table[j].key = obj'[A].table[k].key => j = k

\* Such a store keeps the types of memory, the keys and the headers.
LEMMA StoreKeepsShape ==
  ASSUME Shape, Linked, KeysDiffer, HeadersKept,
         NEW A \in Live, NEW i \in Nat, NEW v \in Values, Valid(v),
         NEW m \in Places(v), NEW D, Stores(A, i, v, m, D), StaysArray(A)
  PROVE  obj' \in [Addr -> Arrays \cup Objects] /\ KeysDiffer' /\ HeadersKept'
<1> DEFINE P == Parts(v)
<1>1. /\ \A x \in D : obj'[x] = Free
      /\ \A x \in Addr : x # A /\ x \notin D /\ x \notin Range(m) => obj'[x] = obj[x]
      /\ \A p \in P : obj'[m[p]] = Copy(p, m)
  BY DEF Stores
<1>2. \A x \in Range(m) : \E p \in P : x = m[p]
  BY CopiesAreNew
<1>3. ASSUME NEW p \in P
      PROVE  p \in Live /\ p \in Addr
  <2>1. IsPointer(v) /\ v \in Pointers
    BY PartsOfOthers, ElementTypes
  <2>2. QED
    BY <2>1, LiveIsClosed DEF Linked, Live
<1>4. ASSUME NEW p \in P
      PROVE  /\ obj'[m[p]] \in Arrays \cup Objects
             /\ obj'[m[p]].type = obj[p].type
             /\ obj[p].type # "ARRAY" => obj'[m[p]] = obj[p]
             /\ obj[p].type = "ARRAY" => obj'[m[p]].gc = "ARRAY"
             /\ Slots(m[p])' = Slots(p)
             /\ \A j \in Slots(p) : obj'[m[p]].table[j].key = obj[p].table[j].key
  <2>1. obj'[m[p]] = Copy(p, m)
    BY <1>1
  <2>2. QED
    BY <2>1, CopiesAreLike DEF Slots
<1> HIDE DEF P
<1>5. obj' \in [Addr -> Arrays \cup Objects]
  <2>1. ASSUME NEW x \in Addr PROVE obj'[x] \in Arrays \cup Objects
    <3>1. CASE x \in D
      BY <1>1, <3>1 DEF Objects
    <3>2. CASE x \in Range(m)
      BY <1>2, <1>4, <3>2
    <3>3. CASE x = A
      BY <3>3 DEF StaysArray
    <3>4. CASE x \notin D /\ x \notin Range(m) /\ x # A
      BY <1>1, <3>4 DEF Shape
    <3>5. QED
      BY <3>1, <3>2, <3>3, <3>4
  <2>2. obj' = [x \in Addr |-> obj'[x]]
    BY DEF StaysArray
  <2>3. QED
    BY <2>1, <2>2
<1>6. KeysDiffer'
  <2> SUFFICES ASSUME NEW x \in Addr, NEW j \in Slots(x)', NEW k \in Slots(x)',
                      obj'[x].table[j].key = obj'[x].table[k].key
               PROVE  j = k
    BY DEF KeysDiffer
  <2>1. CASE x \in D
    BY <1>1, <2>1 DEF Slots, Free
  <2>2. CASE x \in Range(m)
    <3>1. PICK p \in P : x = m[p]
      BY <1>2, <2>2
    <3>2. j \in Slots(p) /\ k \in Slots(p) /\ obj[p].table[j].key = obj[p].table[k].key
      BY <1>4, <3>1
    <3>3. QED
      BY <1>3, <3>2 DEF KeysDiffer
  <2>3. CASE x = A
    BY <2>3 DEF StaysArray
  <2>4. CASE x \notin D /\ x \notin Range(m) /\ x # A
    <3>1. obj'[x] = obj[x]
      BY <1>1, <2>4
    <3>2. j \in Slots(x) /\ k \in Slots(x) /\ obj[x].table[j].key = obj[x].table[k].key
      BY <3>1 DEF Slots
    <3>3. QED
      BY <3>2 DEF KeysDiffer
  <2>5. QED
    BY <2>1, <2>2, <2>3, <2>4
<1>7. HeadersKept'
  <2> SUFFICES ASSUME NEW x \in Addr, obj'[x] # Free
               PROVE  /\ obj'[x].type # "BUFFER"
                      /\ obj'[x].gc = "UNKNOWN" => obj'[x].type = "STRING"
    BY DEF HeadersKept, Live
  <2>1. CASE x \in D
    BY <1>1, <2>1
  <2>2. CASE x \in Range(m)
    <3>1. PICK p \in P : x = m[p]
      BY <1>2, <2>2
    <3>2. QED
      BY <1>3, <1>4, <3>1 DEF HeadersKept
  <2>3. CASE x = A
    BY <2>3 DEF StaysArray, Arrays
  <2>4. CASE x \notin D /\ x \notin Range(m) /\ x # A
    BY <1>1, <2>4 DEF HeadersKept, Live
  <2>5. QED
    BY <2>1, <2>2, <2>3, <2>4
<1>8. QED
  BY <1>5, <1>6, <1>7

\* Memory with copies and without the dead, away from the slot stored into.
LEMMA MemoryBetween ==
  ASSUME Shape, NEW v \in Values, NEW m \in Places(v), NEW D \in SUBSET Live, NEW A \in Live \ D
  PROVE  LET M == Without(WithCopies(m), D)
         IN  /\ M = [x \in Addr |-> M[x]]
             /\ M[A] = obj[A]
             /\ \A p \in Parts(v) : M[m[p]] = Copy(p, m) /\ m[p] \in Addr /\ m[p] # A
             /\ \A x \in D : M[x] = Free
             /\ \A x \in Addr : x \notin D /\ x \notin Range(m) => M[x] = obj[x]
<1>1. /\ \A p \in Parts(v) : m[p] \in Addr /\ m[p] \notin Live /\ WithCopies(m)[m[p]] = Copy(p, m)
      /\ \A x \in Addr : x \notin Range(m) => WithCopies(m)[x] = obj[x]
      /\ \A x \in Live : x \in Addr /\ x \notin Range(m)
  BY CopiesAreNew DEF Live
<1>2. QED
  BY <1>1 DEF Without

\* lgx_value_cleanup of the old element, then the copy in its place.
LEMMA ReplaceStores ==
  ASSUME Shape, Linked, KeysDiffer, UNCHANGED young,
         NEW A \in Live, obj[A].type = "ARRAY", NEW i \in Slots(A),
         NEW v \in Values, Valid(v), NEW m \in Places(v),
         obj' = [Without(WithCopies(m), Parts(Element(A, i))) EXCEPT ![A].table[i].v = Moved(v, m)]
  PROVE  Stores(A, i, v, m, Parts(Element(A, i))) /\ StaysArray(A)
<1> DEFINE D == Parts(Element(A, i))
           M == Without(WithCopies(m), D)
           t == obj[A].table
           x == Moved(v, m)
<1>1. /\ D \subseteq Live /\ Closed(D) /\ A \notin D /\ D \cap young = {}
      /\ \A b \in Addr \ D : \A j \in Slots(b), y \in D : Owns(b, j, y) => b = A /\ j = i
      /\ IsPointer(Element(A, i)) => Element(A, i).v \in D
  <2>1. CASE IsPointer(Element(A, i))
    <3>1. Element(A, i) \in Pointers
      BY <2>1, ElementTypes DEF Live
    <3>2. QED
      BY <2>1, <3>1, ElementsAreIsolated, PartsAreSmallest
  <2>2. CASE ~ IsPointer(Element(A, i))
    BY <2>2, PartsOfOthers DEF Closed
  <2>3. QED
    BY <2>1, <2>2
<1>2. /\ obj[A] \in Arrays /\ t \in Seq(Items) /\ Len(t) \in Nat /\ Len(t) <= MaxLength
      /\ Slots(A) = 1 .. Len(t)
      /\ \A j \in 1 .. Len(t) : t[j] \in Items
      /\ A \in Addr /\ i \in 1 .. Len(t)
  BY TableTypes DEF Live
<1>3. x \in Values
  <2>1. m \in [Parts(v) -> Addr]
    BY CopiesAreNew
  <2>2. IsPointer(v) => v.v \in Parts(v)
    BY ElementTypes, PartsAreSmallest
  <2>3. QED
    BY <2>1, <2>2, MovedValues
<1>4. /\ M = [y \in Addr |-> M[y]]
      /\ M[A] = obj[A]
      /\ \A p \in Parts(v) : M[m[p]] = Copy(p, m) /\ m[p] \in Addr /\ m[p] # A
      /\ \A y \in D : M[y] = Free
      /\ \A y \in Addr : y \notin D /\ y \notin Range(m) => M[y] = obj[y]
  BY <1>1, MemoryBetween
<1>5. obj' = [M EXCEPT ![A].table[i].v = x]
  OBVIOUS
<1> HIDE DEF M, x, D
<1> DEFINE item == [t[i] EXCEPT !.v = x]
           u == [t EXCEPT ![i] = item]
<1>6. item \in Items /\ item.v = x /\ item.key = t[i].key
  <2>1. t[i] \in Items
    BY <1>2
  <2>2. QED
    BY <1>3, <2>1 DEF Items
<1>7. obj'[A] = [obj[A] EXCEPT !.table = u]
  BY <1>2, <1>4, <1>5
<1> HIDE DEF item
<1>8. /\ u \in Seq(Items) /\ Len(u) = Len(t) /\ u[i] = item
      /\ \A j \in 1 .. Len(t) : j # i => u[j] = t[j]
  BY <1>2, <1>6
<1> HIDE DEF u
<1>9. obj'[A] \in Arrays /\ obj'[A].table = u /\ obj'[A].type = "ARRAY"
  <2>1. u \in Tables
    BY <1>2, <1>8 DEF Tables
  <2>2. QED
    BY <1>2, <1>7, <2>1 DEF Arrays
<1>10. \A y \in Addr : y # A => obj'[y] = M[y]
  BY <1>4, <1>5
<1>11. obj' = [y \in Addr |-> obj'[y]]
  BY <1>4, <1>5
<1>12. Slots(A)' = Slots(A) /\ \A j : Element(A, j)' = u[j].v
  BY <1>2, <1>8, <1>9 DEF Slots, Element
<1>13. StaysArray(A)
  <2> SUFFICES ASSUME NEW j \in Slots(A), NEW k \in Slots(A), u[j].key = u[k].key
               PROVE  j = k
    BY <1>9, <1>11, <1>12, ZenonT(60) DEF StaysArray
  <2>1. t[j].key = t[k].key
    BY <1>2, <1>6, <1>8
  <2>2. QED
    BY <1>2, <2>1 DEF KeysDiffer
<1>14. Element(A, i)' = x /\ \A j \in Slots(A) : j # i => Element(A, j)' = Element(A, j)
  BY <1>2, <1>6, <1>8, <1>12 DEF Element
<1>15. /\ \A p \in Parts(v) : obj'[m[p]] = Copy(p, m)
       /\ \A y \in D : obj'[y] = Free
       /\ \A y \in Addr : y # A /\ y \notin D /\ y \notin Range(m) => obj'[y] = obj[y]
  BY <1>1, <1>4, <1>10 DEF Live
<1>16. Stores(A, i, v, m, D)
  BY <1>1, <1>9, <1>12, <1>14, <1>15 DEF Stores, x
<1>17. QED
  BY <1>13, <1>16 DEF D

\* The copy behind the last element, under a key the array does not have.
LEMMA AppendStores ==
  ASSUME Shape, Linked, KeysDiffer, UNCHANGED young,
         NEW A \in Live, obj[A].type = "ARRAY", NEW key \in Keys,
         Found(A, key) = {}, Len(obj[A].table) < MaxLength,
         NEW v \in Values, Valid(v), NEW m \in Places(v),
         NEW i, i = Len(obj[A].table) + 1,
         obj' = [WithCopies(m) EXCEPT ![A].table = Append(@, [key |-> key, v |-> Moved(v, m)])]
  PROVE  Stores(A, i, v, m, {}) /\ StaysArray(A)
<1> DEFINE M == WithCopies(m)
           t == obj[A].table
           x == Moved(v, m)
           item == [key |-> key, v |-> x]
           u == Append(t, item)
<1>2. /\ obj[A] \in Arrays /\ t \in Seq(Items) /\ Len(t) \in Nat /\ Len(t) < MaxLength
      /\ Slots(A) = 1 .. Len(t) /\ i = Len(t) + 1 /\ i \in Nat
      /\ A \in Addr /\ A \notin Range(m)
  BY TableTypes, CopiesAreNew DEF Live
<1>3. x \in Values
  <2>1. m \in [Parts(v) -> Addr]
    BY CopiesAreNew
  <2>2. IsPointer(v) => v.v \in Parts(v)
    BY ElementTypes, PartsAreSmallest
  <2>3. QED
    BY <2>1, <2>2, MovedValues
<1>4. /\ M = [y \in Addr |-> M[y]]
      /\ M[A] = obj[A]
      /\ \A p \in Parts(v) : M[m[p]] = Copy(p, m) /\ m[p] \in Addr /\ m[p] # A
      /\ \A y \in Addr : y \notin Range(m) => M[y] = obj[y]
  <2>1. M = [y \in Addr |-> M[y]]
    BY DEF WithCopies
  <2>2. QED
    BY <1>2, <2>1, CopiesAreNew
<1>5. obj' = [M EXCEPT ![A].table = Append(@, item)]
  OBVIOUS
<1> HIDE DEF M, x
<1>6. item \in Items /\ item.v = x /\ item.key = key
  BY <1>3 DEF Items
<1>7. obj'[A] = [obj[A] EXCEPT !.table = u]
  BY <1>2, <1>4, <1>5
<1> HIDE DEF item
<1>8. /\ u \in Seq(Items) /\ Len(u) = i /\ u[i] = item
      /\ \A j \in 1 .. Len(t) : u[j] = t[j]
  BY <1>2, <1>6
<1> HIDE DEF u
<1>9. obj'[A] \in Arrays /\ obj'[A].table = u /\ obj'[A].type = "ARRAY"
  <2>1. u \in Tables
    BY ArrayHeapAssumption, <1>2, <1>8 DEF Tables
  <2>2. QED
    BY <1>2, <1>7, <2>1 DEF Arrays
<1>10. \A y \in Addr : y # A => obj'[y] = M[y]
  BY <1>4, <1>5
<1>11. obj' = [y \in Addr |-> obj'[y]]
  BY <1>4, <1>5
<1>12. /\ Slots(A)' = 1 .. i /\ \A j : Element(A, j)' = u[j].v
       /\ i \in 1 .. i /\ i \notin Slots(A)
       /\ \A j : j # i => (j \in 1 .. i <=> j \in Slots(A))
  <2>1. Slots(A)' = 1 .. i
    BY <1>8, <1>9 DEF Slots
  <2>2. \A j : Element(A, j)' = u[j].v
    BY <1>9 DEF Element
  <2>3. i \in 1 .. i /\ i \notin 1 .. Len(t)
    BY <1>2
  <2>4. \A j : j # i => (j \in 1 .. i <=> j \in 1 .. Len(t))
    BY <1>2
  <2>5. QED
    BY <1>2, <2>1, <2>2, <2>3, <2>4
<1>13. StaysArray(A)
  <2> HIDE DEF t
  <2> SUFFICES ASSUME NEW j \in 1 .. i, NEW k \in 1 .. i, u[j].key = u[k].key
               PROVE  j = k
    BY <1>9, <1>11, <1>12, ZenonT(60) DEF StaysArray
  <2>1. \A n \in Slots(A) : t[n].key # key
    BY DEF Found, t
  <2>2. \A n \in 1 .. i : (n = i /\ u[n].key = key) \/ (n \in Slots(A) /\ u[n].key = t[n].key)
    BY <1>2, <1>6, <1>8, <1>12
  <2>3. \A n, o \in Slots(A) : t[n].key = t[o].key => n = o
    BY <1>2 DEF KeysDiffer, t
  <2>4. QED
    BY <2>1, <2>2, <2>3
<1>14. Element(A, i)' = x /\ \A j \in Slots(A) : j # i => Element(A, j)' = Element(A, j)
  <2>1. \A j : Element(A, j) = t[j].v
    BY DEF Element
  <2> HIDE DEF t
  <2>2. \A j \in Slots(A) : u[j] = t[j]
    BY <1>2, <1>8
  <2>3. Element(A, i)' = x
    BY <1>6, <1>8, <1>12
  <2>4. \A j \in Slots(A) : Element(A, j)' = Element(A, j)
    BY <1>12, <2>1, <2>2
  <2>5. QED
    BY <2>3, <2>4
<1>15. /\ \A p \in Parts(v) : obj'[m[p]] = Copy(p, m)
       /\ \A y \in Addr : y # A /\ y \notin Range(m) => obj'[y] = obj[y]
  BY <1>4, <1>10
<1> HIDE DEF t
<1>16. Stores(A, i, v, m, {})
  BY <1>9, <1>12, <1>14, <1>15 DEF Stores, x, Closed
<1>17. QED
  BY <1>13, <1>16 DEF t

\* The key of an instruction is a key, also where the array is appended to.
LEMMA KeyTypes ==
  ASSUME Shape, NEW A \in Addr, obj[A].type = "ARRAY", NEW k \in Regs \cup {APPEND}
  PROVE  KeyOf(A, k) \subseteq Keys
<1>1. Key("LONG", Len(obj[A].table)) \in Keys
  BY TableTypes DEF Key, Keys
<1>2. ASSUME k \in Regs
      PROVE  KeyIn(k) \subseteq Keys
  <2>1. R[k] \in Values
    BY <1>2 DEF Shape
  <2>2. CASE R[k].type = "LONG"
    <3>1. R[k].v \in Nat
      BY <2>1, <2>2, ArrayHeapAssumption DEF Values, Pointers
    <3>2. QED
      BY <2>2, <3>1 DEF KeyIn, Key, Keys
  <2>3. CASE R[k].type = "STRING" /\ Valid(R[k])
    <3>1. R[k].v \in Addr /\ obj[R[k].v].type = "STRING"
      BY <2>1, <2>3 DEF Values, Pointers, Valid, IsPointer
    <3>2. obj[R[k].v] \in Arrays \cup Objects
      BY <3>1 DEF Shape
    <3>3. obj[R[k].v].string \in Strings
      BY <3>1, <3>2 DEF Arrays, Objects, FunctionObj, Free, Buffer
    <3>4. QED
      BY <2>3, <3>3 DEF KeyIn, Key, Keys
  <2>4. QED
    BY <2>2, <2>3 DEF KeyIn
<1>3. QED
  BY <1>1, <1>2, ArrayHeapAssumption DEF KeyOf

\* OP_ARRAY_SET keeps the invariant, whatever is stored where: an array in
\* itself, or a part of the very element that is replaced.
LEMMA ArraySetKeeps ==
  ASSUME IInv, mode = "run", NEW r \in Regs, NEW s \in Regs, NEW k \in Regs \cup {APPEND},
         ArraySet(r, k, s)
  PROVE  IInv'
<1>1. Shape /\ Linked /\ KeysDiffer /\ HeadersKept
  BY DEF IInv
<1>2. PICK A : A = R[r].v
  OBVIOUS
<1>3. PICK v : v = R[s]
  OBVIOUS
<1>4. PICK key \in KeyOf(A, k), m \in Places(v) :
        /\ Found(A, key) = {} => Len(obj[A].table) < MaxLength
        /\ obj' = Stored(A, key, v, m)
  BY <1>2, <1>3 DEF ArraySet
<1>5. v \in Values /\ Valid(v) /\ UNCHANGED <<R, young, mode>>
  BY <1>1, <1>3 DEF ArraySet, Shape
<1>6. A \in Live /\ A \in Addr /\ obj[A].type = "ARRAY"
  <2>1. R[r] \in Pointers /\ Valid(R[r]) /\ R[r].type = "ARRAY"
    BY <1>1, ElementTypes DEF ArraySet, HoldsArray, IsPointer, Shape
  <2>2. QED
    BY <1>1, <1>2, <2>1, LiveIsClosed DEF Linked, Valid, IsPointer, Live
<1>7. key \in Keys
  BY <1>1, <1>6, KeyTypes
<1>8. \E i \in Nat, D \in SUBSET Live : Stores(A, i, v, m, D) /\ StaysArray(A)
  <2>1. CASE Found(A, key) # {}
    <3>1. PICK i \in Found(A, key) :
            obj' = [Without(WithCopies(m), Parts(Element(A, i))) EXCEPT ![A].table[i].v = Moved(v, m)]
      BY <1>4, <2>1 DEF Stored
    <3>2. i \in Slots(A) /\ i \in Nat
      BY <1>1, <1>6, ElementTypes DEF Found
    <3>3. Stores(A, i, v, m, Parts(Element(A, i))) /\ StaysArray(A)
      BY <1>1, <1>5, <1>6, <3>1, <3>2, ReplaceStores
    <3>4. QED
      BY <3>2, <3>3 DEF Stores
  <2>2. CASE Found(A, key) = {}
    <3>1. obj' = [WithCopies(m) EXCEPT ![A].table = Append(@, [key |-> key, v |-> Moved(v, m)])]
      BY <1>4, <2>2 DEF Stored
    <3>2. PICK i \in Nat : i = Len(obj[A].table) + 1
      BY <1>1, <1>6, TableTypes
    <3>3. Stores(A, i, v, m, {}) /\ StaysArray(A)
      BY <1>1, <1>4, <1>5, <1>6, <1>7, <2>2, <3>1, <3>2, AppendStores
    <3>4. QED
      BY <3>3
  <2>3. QED
    BY <2>1, <2>2
<1>9. PICK i \in Nat, D \in SUBSET Live : Stores(A, i, v, m, D) /\ StaysArray(A)
  BY <1>8
<1>10. Linked'
  BY <1>1, <1>4, <1>5, <1>6, <1>9, StoreKeepsLinks
<1>11. obj' \in [Addr -> Arrays \cup Objects] /\ KeysDiffer' /\ HeadersKept'
  BY <1>1, <1>4, <1>5, <1>6, <1>9, StoreKeepsShape
<1>12. Shape'
  BY <1>1, <1>5, <1>11 DEF Shape
<1>13. QED
  BY <1>5, <1>10, <1>11, <1>12 DEF IInv

-----------------------------------------------------------------------------
(* The instructions that make objects.                                     *)

\* New objects: the one at a goes to the young list, the others are elements
\* of it, one each.
LEMMA NewKeepsLinks ==
  ASSUME Shape, Linked, NEW N \in SUBSET (Addr \ Live), NEW a \in N,
         young' = young \cup {a},
         \A x \in Addr \ N : obj'[x] = obj[x],
         \A x \in N : obj'[x] # Free,
         \A x \in N \ {a} : Slots(x)' = {} /\ \E j \in Slots(a)' : Owns(a, j, x)',
         \A j \in Slots(a)' : Valid(Element(a, j))',
         \A j \in Slots(a)' : IsPointer(Element(a, j)') => Element(a, j)'.v \in N \ {a},
         \A x : \A j, k \in Slots(a)' : Owns(a, j, x)' /\ Owns(a, k, x)' => j = k
  PROVE  Linked'
<1>1. Live' = Live \cup N /\ N \subseteq Addr /\ N \cap Live = {} /\ Live \subseteq Addr
  BY DEF Live
<1>2. /\ Closed(Live)
      /\ \A x \in Addr \ Live : Slots(x) = {}
  <2>1. Closed(Live)
    BY LiveIsClosed DEF Linked
  <2>2. \A x \in Addr \ Live : obj[x].type = "FREE"
    BY LiveTypes
  <2>3. QED
    BY <2>1, <2>2 DEF Slots
<1>3. \A x \in Addr \ N : Slots(x)' = Slots(x) /\ \A j : Element(x, j)' = Element(x, j)
  BY DEF Slots, Element
\* Old arrays own what they owned, the new one owns new objects.
<1>4. ASSUME NEW b \in Addr, NEW j \in Slots(b)', NEW x, Owns(b, j, x)'
      PROVE  \/ b \in Live /\ j \in Slots(b) /\ Owns(b, j, x) /\ x \in Live
             \/ b = a /\ x \in N \ {a}
  <2>1. CASE b \in N
    BY <1>4, <2>1 DEF Owns, IsPointer
  <2>2. CASE b \notin N
    <3>1. j \in Slots(b) /\ Element(b, j)' = Element(b, j)
      BY <1>3, <2>2
    <3>2. Owns(b, j, x)
      BY <1>4, <3>1 DEF Owns, IsPointer
    <3>3. b \in Live
      BY <1>2, <3>1
    <3>4. x \in ElementsOf(b)
      BY <3>1, <3>2, OwnsElement
    <3>5. QED
      BY <1>2, <3>1, <3>2, <3>3, <3>4 DEF Closed
  <2>3. QED
    BY <2>1, <2>2
<1>5. NothingDangles'
  <2> SUFFICES ASSUME NEW b \in Addr, NEW j \in Slots(b)', NEW x, Owns(b, j, x)'
               PROVE  obj'[x].type = Element(b, j)'.type
    BY DEF NothingDangles, Valid, Owns
  <2>1. CASE b = a
    BY <2>1 DEF Valid, Owns
  <2>2. CASE b \in Live /\ j \in Slots(b) /\ Owns(b, j, x) /\ x \in Live
    <3>1. obj[x].type = Element(b, j).type
      BY <2>2 DEF Linked, NothingDangles, Valid, Owns
    <3>2. obj'[x] = obj[x] /\ Element(b, j)' = Element(b, j)
      BY <1>1, <1>3, <2>2
    <3>3. QED
      BY <3>1, <3>2
  <2>3. QED
    BY <1>4, <2>1, <2>2
<1>6. OneOwner'
  <2>1. ASSUME NEW x \in Addr, NEW b \in Addr, NEW c \in Addr,
               NEW j \in Slots(b)', NEW k \in Slots(c)', Owns(b, j, x)', Owns(c, k, x)'
        PROVE  b = c /\ j = k
    <3>1. CASE x \in Live
      BY <1>1, <1>4, <2>1, <3>1 DEF Linked, OneOwner
    <3>2. CASE x \notin Live
      <4>1. b = a /\ c = a
        BY <1>4, <2>1, <3>2
      <4>2. QED
        BY <2>1, <4>1
    <3>3. QED
      BY <3>1, <3>2
  <2>2. QED
    BY <2>1 DEF OneOwner
<1>7. YoungUnowned'
  <2>1. young' \subseteq Live'
    BY <1>1 DEF Linked, YoungUnowned
  <2>2. ASSUME NEW x \in young', NEW b \in Addr, x \in ElementsOf(b)'
        PROVE  FALSE
    <3>1. PICK j \in Slots(b)' : Owns(b, j, x)'
      BY <2>2 DEF ElementsOf, Owns
    <3>2. x \notin N \ {a}
      BY <1>1 DEF Linked, YoungUnowned
    <3>3. j \in Slots(b) /\ Owns(b, j, x) /\ x \in Live
      BY <1>4, <3>1, <3>2
    <3>4. x \in young
      BY <1>1, <3>3
    <3>5. QED
      BY <3>3, <3>4, OwnsElement DEF Linked, YoungUnowned
  <2>3. QED
    BY <2>1, <2>2 DEF YoungUnowned
<1>8. Rooted'
  <2> SUFFICES ASSUME NEW S \in SUBSET Addr, young' \subseteq S, Closed(S)'
               PROVE  Live' \subseteq S
    BY DEF Rooted
  <2>1. \A y : \A x \in S : \A j \in Slots(x)' : Owns(x, j, y)' => y \in S
    BY DEF Closed, ElementsOf, Owns
  <2>2. ASSUME NEW x \in S, NEW y \in ElementsOf(x)
        PROVE  y \in S
    <3>1. PICK j \in Slots(x) : Owns(x, j, y)
      BY OwnsElement
    <3>2. x \notin N
      BY <1>1, <1>2, <3>1
    <3>3. j \in Slots(x)' /\ Owns(x, j, y)'
      BY <1>3, <3>1, <3>2 DEF Owns, IsPointer
    <3>4. QED
      BY <2>1, <3>3
  <2>3. Live \subseteq S
    <3>1. Closed(S)
      BY <2>2 DEF Closed
    <3>2. QED
      BY <3>1 DEF Linked, Rooted
  <2>4. a \in S
    OBVIOUS
  <2>5. N \subseteq S
    BY <2>1, <2>4
  <2>6. QED
    BY <1>1, <2>3, <2>5
<1>9. QED
  BY <1>5, <1>6, <1>7, <1>8 DEF Linked

\* One new object, without elements, and a register that points to it.
LEMMA OneNewKeeps ==
  ASSUME IInv, mode = "run", UNCHANGED mode, NEW r \in Regs, NEW a \in Addr \ Live,
         NEW o \in Arrays \cup Objects, o.type \notin {"FREE", "BUFFER"},
         o.gc = "UNKNOWN" => o.type = "STRING",
         o.type = "ARRAY" => o.table = <<>>,
         NEW v \in Pointers, v.v = a,
         obj' = [obj EXCEPT ![a] = o], Trace(r, v)
  PROVE  IInv'
<1>1. Shape /\ Linked /\ KeysDiffer /\ HeadersKept
  BY DEF IInv
<1>2. /\ R' = [R EXCEPT ![r] = v]
      /\ young' = young \cup {a}
      /\ \A x \in Addr : obj'[x] = IF x = a THEN o ELSE obj[x]
  <2>1. IsPointer(v)
    BY DEF IsPointer, Pointers
  <2>2. QED
    BY <1>1, <2>1 DEF Trace, Shape
<1>3. Shape'
  BY <1>1, <1>2 DEF Shape, Values
<1>4. Slots(a)' = {}
  <2>1. o.type = "ARRAY" => Len(o.table) = 0
    OBVIOUS
  <2>2. QED
    BY <1>2, <2>1 DEF Slots
<1>5. Linked'
  <2> DEFINE N == {a}
  <2>1. /\ N \in SUBSET (Addr \ Live) /\ a \in N
        /\ \A x \in Addr \ N : obj'[x] = obj[x]
        /\ N \ {a} = {}
    BY <1>2
  <2>2. \A x \in N : obj'[x] # Free
    BY <1>2 DEF Free
  <2> HIDE DEF N
  <2>3. QED
    BY <1>1, <1>2, <1>4, <2>1, <2>2, NewKeepsLinks
<1>6. KeysDiffer'
  <2> SUFFICES ASSUME NEW x \in Addr, x # a
               PROVE  \A i, j \in Slots(x)' :
                        obj'[x].table[i].key = obj'[x].table[j].key => i = j
    BY <1>4 DEF KeysDiffer
  <2>1. obj'[x] = obj[x] /\ Slots(x)' = Slots(x)
    BY <1>2 DEF Slots
  <2>2. QED
    BY <1>1, <2>1 DEF KeysDiffer
<1>7. HeadersKept'
  BY <1>1, <1>2 DEF HeadersKept, Live
<1>8. QED
  BY <1>3, <1>5, <1>6, <1>7 DEF IInv

\* OP_LOAD of an array constant: the array and its string.
LEMMA LoadArrayKeeps ==
  ASSUME IInv, mode = "run", NEW r \in Regs, NEW s \in Strings, LoadArray(r, <<s>>)
  PROVE  IInv'
<1>1. Shape /\ Linked /\ KeysDiffer /\ HeadersKept
  BY DEF IInv
<1>a. PICK m \in Injection({1}, Addr \ Live) : \E a \in Addr \ (Live \cup Range(m)) :
        /\ obj' = [x \in Addr |->
                     IF x = a THEN ArrayObj([i \in {1} |-> [key |-> Key("LONG", i - 1), v |-> Str(m[i])]])
                     ELSE IF x \in Range(m) THEN StringObj(<<s>>[AntiFunction(m)[x]])
                     ELSE obj[x]]
        /\ Trace(r, Arr(a))
        /\ UNCHANGED mode
  <2>1. DOMAIN <<s>> = {1}
    OBVIOUS
  <2>2. QED
    BY <2>1 DEF LoadArray
<1>2. PICK a \in Addr \ (Live \cup Range(m)) :
        /\ obj' = [x \in Addr |->
                     IF x = a THEN ArrayObj([i \in {1} |-> [key |-> Key("LONG", i - 1), v |-> Str(m[i])]])
                     ELSE IF x \in Range(m) THEN StringObj(<<s>>[AntiFunction(m)[x]])
                     ELSE obj[x]]
        /\ Trace(r, Arr(a))
        /\ UNCHANGED mode
  BY <1>a
<1>3. PICK b : b = m[1]
  OBVIOUS
<1>4. b \in Addr \ Live /\ Range(m) = {b} /\ a # b /\ a \in Addr \ Live
  BY <1>2, <1>3 DEF Range, Injection
<1>5. AntiFunction(m)[b] = 1
  BY <1>3, <1>4 DEF AntiFunction, Inverse, Injection, Range
<1> DEFINE item == [key |-> Key("LONG", 0), v |-> Str(b)]
           t == <<item>>
<1>6. /\ \A x \in Addr : obj'[x] = IF x = a THEN ArrayObj(t)
                                 ELSE IF x = b THEN StringObj(s) ELSE obj[x]
      /\ obj' = [x \in Addr |-> obj'[x]]
  <2>1. [i \in {1} |-> [key |-> Key("LONG", i - 1), v |-> Str(m[i])]] = t
    BY <1>3
  <2>2. <<s>>[AntiFunction(m)[b]] = s
    BY <1>5
  <2>3. QED
    BY <1>2, <1>4, <2>1, <2>2
<1>7. item \in Items /\ item.v = Str(b) /\ Str(b) \in Pointers
  <2>1. Str(b) \in Pointers /\ Key("LONG", 0) \in Keys
    BY <1>4 DEF Str, Pointers, Key, Keys
  <2>2. QED
    BY <2>1 DEF Items, Values
<1> HIDE DEF item
<1>8. t \in Seq(Items) /\ Len(t) = 1 /\ t[1] = item
  BY <1>7
<1> HIDE DEF t
<1>9. ArrayObj(t) \in Arrays /\ ArrayObj(t).type = "ARRAY" /\ ArrayObj(t).table = t
  <2>1. t \in Tables
    BY <1>8, ArrayHeapAssumption DEF Tables
  <2>2. QED
    BY <2>1 DEF ArrayObj, Arrays
<1>10. StringObj(s) \in Objects /\ StringObj(s).type = "STRING"
  BY DEF StringObj, Objects
<1>11. R' = [R EXCEPT ![r] = Arr(a)] /\ young' = young \cup {a} /\ Arr(a) \in Values
  BY <1>2, <1>4 DEF Trace, Arr, IsPointer, Values, Pointers
<1>12. Shape'
  <2>1. obj' \in [Addr -> Arrays \cup Objects]
    BY <1>1, <1>6, <1>9, <1>10 DEF Shape
  <2>2. QED
    BY <1>1, <1>2, <1>4, <1>11, <2>1 DEF Shape
<1>13. /\ Slots(a)' = {1} /\ Slots(b)' = {}
       /\ Element(a, 1)' = Str(b)
       /\ obj'[b].type = "STRING"
       /\ obj'[a].type = "ARRAY"
  <2>1. obj'[a].type = "ARRAY" /\ obj'[a].table = t /\ obj'[b].type = "STRING"
    BY <1>4, <1>6, <1>9, <1>10
  <2>2. Slots(a)' = {1} /\ Slots(b)' = {}
    <3>1. Slots(a)' = 1 .. 1 /\ Slots(b)' = {}
      BY <1>8, <2>1 DEF Slots
    <3>2. QED
      BY <3>1
  <2>3. Element(a, 1)' = Str(b)
    BY <1>7, <1>8, <2>1 DEF Element
  <2>4. QED
    BY <2>1, <2>2, <2>3
<1>14. Str(b).v = b /\ Str(b).type = "STRING" /\ IsPointer(Str(b))
  BY DEF Str, IsPointer
<1>15. Linked'
  <2> DEFINE N == {a, b}
  <2>1. N \in SUBSET (Addr \ Live) /\ a \in N /\ N \ {a} = {b}
    BY <1>4
  <2>2. \A x \in Addr \ N : obj'[x] = obj[x]
    BY <1>6
  <2>3. \A x \in N : obj'[x] # Free
    BY <1>13 DEF Free
  <2>4. Valid(Element(a, 1))' /\ Owns(a, 1, b)'
    BY <1>13, <1>14 DEF Valid, Owns, IsPointer
  <2> HIDE DEF N
  <2>5. QED
    BY <1>1, <1>11, <1>13, <1>14, <2>1, <2>2, <2>3, <2>4, NewKeepsLinks
<1>16. KeysDiffer'
  <2> SUFFICES ASSUME NEW x \in Addr, x # a, x # b
               PROVE  \A i, j \in Slots(x)' :
                        obj'[x].table[i].key = obj'[x].table[j].key => i = j
    BY <1>13 DEF KeysDiffer
  <2>1. obj'[x] = obj[x] /\ Slots(x)' = Slots(x)
    BY <1>6 DEF Slots
  <2>2. QED
    BY <1>1, <2>1 DEF KeysDiffer
<1>17. HeadersKept'
  <2>1. obj'[a].gc = "ARRAY" /\ obj'[b].gc = "STRING"
    BY <1>4, <1>6 DEF ArrayObj, StringObj
  <2>2. QED
    BY <1>1, <1>6, <1>13, <2>1 DEF HeadersKept, Live
<1>18. QED
  BY <1>2, <1>12, <1>15, <1>16, <1>17 DEF IInv

\* The other instructions that make an object.
LEMMA MakersKeep ==
  ASSUME IInv, mode = "run", NEW r \in Regs,
         \/ \E s \in Strings : LoadString(r, s)
         \/ LoadFunction(r)
         \/ ArrayNew(r)
         \/ \E p, q \in Regs : Concat(r, p, q)
  PROVE  IInv'
<1>1. ASSUME NEW s \in Strings, LoadString(r, s) PROVE IInv'
  <2>1. PICK a \in Addr \ Live :
          obj' = [obj EXCEPT ![a] = StringObj(s)] /\ Trace(r, Str(a)) /\ UNCHANGED mode
    BY <1>1 DEF LoadString
  <2>2. /\ StringObj(s) \in Objects /\ StringObj(s).type = "STRING"
        /\ Str(a) \in Pointers /\ Str(a).v = a
    BY DEF StringObj, Objects, Str, Pointers
  <2>3. QED
    BY <2>1, <2>2, OneNewKeeps
<1>2. CASE LoadFunction(r)
  <2>1. PICK a \in Addr \ Live :
          obj' = [obj EXCEPT ![a] = FunctionObj] /\ Trace(r, Fun(a)) /\ UNCHANGED mode
    BY <1>2 DEF LoadFunction
  <2>2. /\ FunctionObj \in Objects /\ FunctionObj.type = "FUNCTION" /\ FunctionObj.gc = "FUNCTION"
        /\ Fun(a) \in Pointers /\ Fun(a).v = a
    BY DEF FunctionObj, Objects, Fun, Pointers
  <2>3. QED
    BY <2>1, <2>2, OneNewKeeps
<1>3. CASE ArrayNew(r)
  <2>1. PICK a \in Addr \ Live :
          obj' = [obj EXCEPT ![a] = ArrayObj(<<>>)] /\ Trace(r, Arr(a)) /\ UNCHANGED mode
    BY <1>3 DEF ArrayNew
  <2>2. /\ ArrayObj(<<>>).type = "ARRAY" /\ ArrayObj(<<>>).gc = "ARRAY"
        /\ ArrayObj(<<>>).table = <<>>
        /\ Arr(a) \in Pointers /\ Arr(a).v = a
    BY DEF ArrayObj, Arr, Pointers
  <2>3. ArrayObj(<<>>) \in Arrays
    BY ArrayHeapAssumption DEF ArrayObj, Arrays, Tables
  <2>4. QED
    BY <2>1, <2>2, <2>3, OneNewKeeps
<1>4. ASSUME NEW p \in Regs, NEW q \in Regs, Concat(r, p, q) PROVE IInv'
  <2> DEFINE o(s) == [StringObj(s) EXCEPT !.gc = "UNKNOWN"]
  <2>1. PICK a \in Addr \ Live, s \in Strings :
          obj' = [obj EXCEPT ![a] = o(s)] /\ Trace(r, Str(a)) /\ UNCHANGED mode
    BY <1>4 DEF Concat
  <2>2. /\ o(s) \in Objects /\ o(s).type = "STRING"
        /\ Str(a) \in Pointers /\ Str(a).v = a
    BY DEF StringObj, Objects, Str, Pointers
  <2> HIDE DEF o
  <2>3. QED
    BY <2>1, <2>2, OneNewKeeps
<1>5. QED
  BY <1>1, <1>2, <1>3, <1>4

-----------------------------------------------------------------------------
(* The other instructions, and the end.                                    *)

\* What is said of memory stays true while memory stays the same.
LEMMA MemoryUntouched ==
  ASSUME UNCHANGED <<obj, young>>
  PROVE  /\ Linked => Linked'
         /\ KeysDiffer => KeysDiffer'
         /\ HeadersKept => HeadersKept'
<1>1. /\ Live' = Live
      /\ \A a : Slots(a)' = Slots(a) /\ ElementsOf(a)' = ElementsOf(a)
      /\ \A a, i : Element(a, i)' = Element(a, i)
      /\ \A v : Valid(v)' = Valid(v)
  BY DEF Live, Slots, ElementsOf, Element, Valid
<1>2. NothingDangles => NothingDangles'
  BY DEF NothingDangles, Valid, Slots, Element, IsPointer
<1>3. OneOwner => OneOwner'
  BY <1>1 DEF OneOwner, Owns, IsPointer
<1>4. YoungUnowned => YoungUnowned'
  BY <1>1 DEF YoungUnowned
<1>5. Rooted => Rooted'
  BY <1>1 DEF Rooted, Closed
<1>6. (KeysDiffer => KeysDiffer') /\ (HeadersKept => HeadersKept')
  BY <1>1 DEF KeysDiffer, HeadersKept
<1>7. QED
  BY <1>2, <1>3, <1>4, <1>5, <1>6 DEF Linked

\* OP_MOV, OP_RET, OP_ARRAY_GET and an OP_LOAD of a number: a register changes,
\* memory does not.
LEMMA RegistersKeep ==
  ASSUME IInv, mode = "run", NEW r \in Regs,
         \/ \E s \in Regs : Move(r, s)
         \/ \E s, k \in Regs : ArrayGet(r, s, k)
         \/ \E n \in Longs : LoadLong(r, n)
         \/ Forget(r)
  PROVE  IInv'
<1>1. Shape
  BY DEF IInv
<1>2. R' \in [Regs -> Values]
  <2>1. ASSUME NEW s \in Regs, Move(r, s) PROVE R' \in [Regs -> Values]
    BY <1>1, <2>1 DEF Move, Shape
  <2>2. ASSUME NEW s \in Regs, NEW k \in Regs, ArrayGet(r, s, k) PROVE R' \in [Regs -> Values]
    <3>1. R[s] \in Pointers
      BY <1>1, <2>2, ElementTypes DEF ArrayGet, HoldsArray, IsPointer, Shape
    <3>2. PICK A \in Addr : A = R[s].v
      BY <3>1 DEF Pointers
    <3>3. PICK key \in KeyIn(k) :
            R' = [R EXCEPT ![r] = IF Found(A, key) = {} THEN Null
                                  ELSE Element(A, CHOOSE i \in Found(A, key) : TRUE)]
      BY <2>2, <3>2 DEF ArrayGet
    <3>4. \A i \in Found(A, key) : Element(A, i) \in Values
      BY <1>1, ElementTypes DEF Found
    <3>5. Null \in Values
      BY DEF Null, Values
    <3>6. QED
      BY <1>1, <3>3, <3>4, <3>5 DEF Shape
  <2>3. ASSUME NEW n \in Longs, LoadLong(r, n) PROVE R' \in [Regs -> Values]
    BY <1>1, <2>3 DEF LoadLong, Trace, Long, Shape, Values
  <2>4. ASSUME Forget(r) PROVE R' \in [Regs -> Values]
    BY <1>1, <2>4 DEF Forget, Unknown, Shape, Values
  <2>5. QED
    BY <2>1, <2>2, <2>3, <2>4
<1>3. UNCHANGED <<obj, young, mode>>
  BY DEF Move, ArrayGet, LoadLong, Forget, Trace, Long, IsPointer
<1>4. Shape'
  BY <1>1, <1>2, <1>3 DEF Shape
<1>5. Linked' /\ KeysDiffer' /\ HeadersKept'
  BY <1>3, MemoryUntouched DEF IInv
<1>6. QED
  BY <1>3, <1>4, <1>5 DEF IInv

\* lgx_vm_cleanup: what the young list leads to is everything there is, so
\* nothing is left but the characters of strings without a type.
LEMMA CleanupKeeps ==
  ASSUME IInv, mode = "run", Cleanup
  PROVE  IInv'
<1>1. Shape /\ Linked /\ HeadersKept
  BY DEF IInv
<1>2. young \subseteq Live /\ Live \subseteq Addr
  BY <1>1 DEF Linked, YoungUnowned, Live
<1> DEFINE typed == {b \in young : obj[b].gc # "UNKNOWN"}
           freed == UNION {Listed(b) : b \in typed}
<1>3. ASSUME NEW b \in typed
      PROVE  b \in Listed(b) /\ Closed(Listed(b)) /\ Listed(b) \subseteq Addr
  <2> DEFINE v == [type |-> obj[b].type, v |-> b]
  <2>1. b \in Addr /\ b \in Live
    BY <1>2
  <2>2. obj[b].type \in {"STRING", "ARRAY", "FUNCTION"}
    <3>1. obj[b] \in Arrays \cup Objects /\ obj[b] # Free /\ obj[b].type # "BUFFER"
      BY <1>1, <2>1 DEF Shape, HeadersKept, Live
    <3>2. QED
      BY <3>1 DEF Arrays, Objects, FunctionObj, Buffer
  <2>3. v \in Pointers /\ v.v = b
    BY <2>1, <2>2 DEF Pointers
  <2> HIDE DEF v
  <2>4. v.v \in Parts(v) /\ Closed(Parts(v)) /\ Parts(v) \subseteq Addr
    BY <1>1, <2>3, PartsAreSmallest
  <2>5. QED
    BY <2>3, <2>4 DEF v, Listed
<1>4. typed \subseteq freed /\ freed \subseteq Addr /\ Closed(freed)
  BY <1>3 DEF Closed
<1>5. ASSUME NEW b \in young \ typed
      PROVE  ElementsOf(b) = {}
  <2>1. obj[b].type = "STRING"
    BY <1>1, <1>2 DEF HeadersKept
  <2>2. QED
    BY <2>1 DEF ElementsOf, Slots
<1>6. obj' = [a \in Addr |-> IF a \in freed THEN Free ELSE IF a \in young THEN Buffer ELSE obj[a]]
  BY DEF Cleanup, Swept
<1> HIDE DEF typed, freed
<1>7. Live \subseteq freed \cup young
  <2>1. Closed(freed \cup young)
    BY <1>4, <1>5 DEF Closed
  <2>2. freed \cup young \in SUBSET Addr
    BY <1>2, <1>4
  <2>3. QED
    BY <1>1, <2>1, <2>2 DEF Linked, Rooted
<1>8. \A a \in Addr : obj'[a] \in {Free, Buffer}
  BY <1>6, <1>7 DEF Live
<1>9. young' = {} /\ mode' = "cleaned" /\ R' = [r \in Regs |-> Unknown]
  BY DEF Cleanup
<1>10. Shape'
  <2>1. obj' \in [Addr -> Arrays \cup Objects]
    BY <1>6, <1>8 DEF Objects
  <2>2. R' \in [Regs -> Values]
    BY <1>9 DEF Unknown, Values
  <2>3. QED
    BY <1>9, <2>1, <2>2 DEF Shape
<1>11. QED
  BY <1>8, <1>9, <1>10 DEF IInv

-----------------------------------------------------------------------------
(* The theorems.                                                           *)

\* Memory is empty at first.
LEMMA InitEstablishes == Init => IInv
<1> SUFFICES ASSUME Init PROVE IInv
  OBVIOUS
<1>1. Shape
  BY DEF Init, Shape, Unknown, Values, Objects
<1>2. Live = {} /\ \A a \in Addr : Slots(a) = {}
  BY DEF Init, Live, Slots, Free
<1>3. NothingDangles /\ OneOwner /\ Rooted /\ KeysDiffer /\ HeadersKept
  BY <1>2 DEF NothingDangles, OneOwner, Rooted, KeysDiffer, HeadersKept
<1>4. YoungUnowned
  BY DEF Init, YoungUnowned
<1>5. QED
  BY <1>1, <1>3, <1>4 DEF Init, IInv, Linked

\* Every step keeps the invariant.
LEMMA NextKeeps == IInv /\ [Next]_vars => IInv'
<1> SUFFICES ASSUME IInv, [Next]_vars PROVE IInv'
  OBVIOUS
<1>1. ASSUME mode = "run", NEW r \in Regs, NEW s \in Regs, NEW k \in Regs \cup {APPEND},
             ArraySet(r, k, s)
      PROVE  IInv'
  BY <1>1, ArraySetKeeps
<1>2. ASSUME mode = "run", NEW r \in Regs, NEW s \in Strings, LoadArray(r, <<s>>)
      PROVE  IInv'
  BY <1>2, LoadArrayKeeps
<1>3. ASSUME mode = "run", NEW r \in Regs,
             \/ \E s \in Strings : LoadString(r, s)
             \/ LoadFunction(r)
             \/ ArrayNew(r)
             \/ \E p, q \in Regs : Concat(r, p, q)
      PROVE  IInv'
  BY <1>3, MakersKeep
<1>4. ASSUME mode = "run", NEW r \in Regs,
             \/ \E s \in Regs : Move(r, s)
             \/ \E s, k \in Regs : ArrayGet(r, s, k)
             \/ \E n \in Longs : LoadLong(r, n)
             \/ Forget(r)
      PROVE  IInv'
  BY <1>4, RegistersKeep
<1>5. CASE mode = "run" /\ Cleanup
  BY <1>5, CleanupKeeps
<1>6. CASE Over \/ UNCHANGED vars
  <2>1. UNCHANGED <<R, obj, young, mode>>
    BY <1>6 DEF Over, vars
  <2>2. Shape'
    BY <2>1 DEF IInv, Shape
  <2>3. QED
    BY <2>1, <2>2, MemoryUntouched DEF IInv
<1>7. QED
  BY <1>1, <1>2, <1>3, <1>4, <1>5, <1>6 DEF Next, Step

\* The inductive invariant holds of every execution.
THEOREM Invariance == Spec => []IInv
BY InitEstablishes, NextKeeps, PTL DEF Spec

\* Registers and memory have their types, an array never holds a key twice, and
\* no element of an array points to an object that was freed or is of another
\* type, whatever is stored into whatever.
THEOREM TypeCorrect == Spec => []TypeOK
<1>1. IInv => TypeOK
  <2> SUFFICES ASSUME IInv PROVE TypeOK
    OBVIOUS
  <2>1. \A r \in Regs : IsPointer(R[r]) => R[r].v \in Addr
    BY ElementTypes DEF IInv, Shape, Pointers
  <2>2. ASSUME NEW a \in Addr
        PROVE  IF obj[a].type = "ARRAY"
               THEN \A i, j \in Slots(a) :
                      /\ obj[a].table[i].key = obj[a].table[j].key => i = j
                      /\ Valid(Element(a, i))
               ELSE obj[a] \in Objects
    <3>1. CASE obj[a].type = "ARRAY"
      <4>1. mode = "run"
        BY <3>1 DEF IInv, Shape, Free, Buffer
      <4>2. QED
        BY <3>1, <4>1 DEF IInv, Linked, NothingDangles, KeysDiffer
    <3>2. CASE obj[a].type # "ARRAY"
      BY <3>2 DEF IInv, Shape, Arrays
    <3>3. QED
      BY <3>1, <3>2
  <2>3. young \subseteq Live
    BY DEF IInv, Shape, Linked, YoungUnowned
  <2>4. QED
    BY <2>1, <2>2, <2>3 DEF TypeOK
<1>2. QED
  BY <1>1, Invariance, PTL

\* Every object has exactly one owner that will free it: the young list, or one
\* element of one array.
THEOREM EveryObjectHasOneOwner == Spec => []OwnedOnce
<1>1. IInv => OwnedOnce
  <2> SUFFICES ASSUME IInv, mode = "run", NEW a \in Live
               PROVE  Cardinality(Owners(a)) = (IF a \in young THEN 0 ELSE 1)
    BY DEF OwnedOnce
  <2>1. Shape /\ Linked /\ a \in Addr /\ Live \subseteq Addr
    BY DEF IInv, Live
  <2>2. \A p : p \in Owners(a) <=> p \in Addr \X (1 .. MaxLength) /\ Owns(p[1], p[2], a)
    BY DEF Owners
  <2>3. CASE a \in young
    <3>1. Owners(a) = {}
      BY <2>1, <2>2, <2>3, OwnsElement DEF Linked, YoungUnowned, Owns
    <3>2. QED
      BY <2>3, <3>1, FS_EmptySet
  <2>4. CASE a \notin young
    <3>1. \E b \in Live : a \in ElementsOf(b)
      <4> SUFFICES ASSUME \A b \in Live : a \notin ElementsOf(b)
                   PROVE  FALSE
        OBVIOUS
      <4>1. Closed(Live \ {a})
        BY <2>1, LiveIsClosed DEF Closed, Linked
      <4>2. young \subseteq Live \ {a} /\ Live \ {a} \in SUBSET Addr
        BY <2>1, <2>4 DEF Linked, YoungUnowned
      <4>3. QED
        BY <2>1, <4>1, <4>2 DEF Linked, Rooted
    <3>2. PICK b \in Live : a \in ElementsOf(b)
      BY <3>1
    <3>3. PICK i \in Slots(b) : Owns(b, i, a)
      BY <3>2, OwnsElement
    <3>4. i \in 1 .. MaxLength
      <4>1. obj[b].type = "ARRAY" /\ b \in Addr
        BY <2>1 DEF Slots
      <4>2. QED
        BY <2>1, <4>1, TableTypes, ArrayHeapAssumption
    <3>5. <<b, i>> \in Owners(a)
      BY <2>1, <2>2, <3>3, <3>4
    <3>6. ASSUME NEW p \in Owners(a)
          PROVE  p = <<b, i>>
      <4>1. p[1] \in Addr /\ p = <<p[1], p[2]>> /\ Owns(p[1], p[2], a) /\ p[2] \in Slots(p[1])
        BY <2>2 DEF Owns
      <4>2. p[1] = b /\ p[2] = i
        BY <2>1, <3>3, <4>1 DEF Linked, OneOwner
      <4>3. QED
        BY <4>1, <4>2
    <3>7. Owners(a) = {<<b, i>>}
      BY <3>5, <3>6
    <3>8. QED
      BY <2>4, <3>7, FS_Singleton
  <2>5. QED
    BY <2>3, <2>4
<1>2. QED
  BY <1>1, Invariance, PTL

\* lgx_vm_cleanup leaves nothing in memory but the characters of concatenated
\* strings.
THEOREM NothingIsLeft == Spec => []CleanupFreesAll
<1>1. IInv => CleanupFreesAll
  BY DEF IInv, CleanupFreesAll, Live
<1>2. QED
  BY <1>1, Invariance, PTL
=============================================================================
