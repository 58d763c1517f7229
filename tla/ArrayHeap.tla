----------------------------- MODULE ArrayHeap ------------------------------
(***************************************************************************)
(* Strings, arrays and functions of a running program: who points to them  *)
(* and who frees them.  The array and value instructions of lgx_vm_execute         *)
(* (src/interpreter/vm.c), lgx_value_dup and lgx_value_cleanup             *)
(* (src/interpreter/value.c), lgx_gc_trace (src/interpreter/gc.c) and      *)
(* lgx_vm_cleanup.                                                         *)
(*                                                                         *)
(* A register points to an object; what an instruction makes is linked in  *)
(* the young list, which frees it when the VM is cleaned up.  An array owns a copy of each of its elements, on no list.  *)
(* Registers stand for locals, temporaries and globals alike.  An array is *)
(* an ordered map (module OrderedMap) from integers and strings.  The      *)
(* collector itself is never started by the code.  A program that uses a   *)
(* register whose object was freed has undefined behaviour: the model goes *)
(* no further there.  Allocation succeeds as long as there are addresses.  *)
(***************************************************************************)
EXTENDS Integers, Sequences, FiniteSets, Functions

CONSTANTS
  Regs,      \* registers
  Addr,      \* addresses of objects
  Longs,     \* the integers programs use
  Strings,   \* the contents of the strings they use, none of them empty
  MaxLength, \* bound of the model: the elements of an array
  APPEND     \* register number 0 in place of a key: append

ASSUME ArrayHeapAssumption ==
  /\ IsFiniteSet(Addr)
  /\ Longs \subseteq Nat
  /\ MaxLength \in Nat \ {0}
  /\ APPEND \notin Regs

VARIABLES
  R,         \* what a register holds
  obj,       \* the objects in memory
  young,     \* vm->heap.young
  mode       \* "run", then "cleaned" by lgx_vm_cleanup

vars == <<R, obj, young, mode>>

Unknown == [type |-> "UNKNOWN", v |-> 0]
Null == [type |-> "NULL", v |-> 0]
Long(n) == [type |-> "LONG", v |-> n]
Str(a) == [type |-> "STRING", v |-> a]
Arr(a) == [type |-> "ARRAY", v |-> a]
Fun(a) == [type |-> "FUNCTION", v |-> a]

Free == [type |-> "FREE"]

\* gc is the type in the header of the object, which the young list goes by.
StringObj(s) == [type |-> "STRING", gc |-> "STRING", string |-> s]
FunctionObj == [type |-> "FUNCTION", gc |-> "FUNCTION"]
ArrayObj(items) == [type |-> "ARRAY", gc |-> "ARRAY", table |-> items]

\* The characters of a string whose header is gone.
Buffer == [type |-> "BUFFER"]

IsPointer(v) == v.type \in {"STRING", "ARRAY", "FUNCTION"}
Live == {a \in Addr : obj[a] # Free}

\* The register points to an object that is still of the type it says.
Valid(v) == IsPointer(v) => obj[v.v].type = v.type
HoldsArray(r) == R[r].type = "ARRAY" /\ Valid(R[r])

Slots(a) == IF obj[a].type = "ARRAY" THEN 1 .. Len(obj[a].table) ELSE {}
Element(a, i) == obj[a].table[i].v
ElementsOf(a) == {Element(a, i).v : i \in {i \in Slots(a) : IsPointer(Element(a, i))}}

\* The objects a value is made of: the smallest set that holds its object
\* and the elements of every array in it.
Closed(S) == \A a \in S : ElementsOf(a) \subseteq S
Parts(v) ==
  IF ~IsPointer(v) THEN {}
  ELSE LET closed == {S \in SUBSET Addr : v.v \in S /\ Closed(S)}
       IN  {a \in Addr : \A S \in closed : a \in S}

Init ==
  /\ R = [r \in Regs |-> Unknown]
  /\ obj = [a \in Addr |-> Free]
  /\ young = {}
  /\ mode = "run"

-----------------------------------------------------------------------------
(* Copying and freeing.                                                    *)

\* lgx_value_dup copies a value with everything in it; m says where.
Places(v) == Injection(Parts(v), Addr \ Live)

Moved(v, m) == IF IsPointer(v) THEN [v EXCEPT !.v = m[v.v]] ELSE v

Copy(a, m) ==
  IF obj[a].type = "ARRAY"
  THEN ArrayObj([i \in Slots(a) |->
                   [key |-> obj[a].table[i].key, v |-> Moved(Element(a, i), m)]])
  ELSE obj[a]

\* Memory with the copies in it.
WithCopies(m) ==
  [a \in Addr |-> IF a \in Range(m) THEN Copy(AntiFunction(m)[a], m) ELSE obj[a]]

\* lgx_value_cleanup.
Without(mem, dead) == [a \in Addr |-> IF a \in dead THEN Free ELSE mem[a]]

Key(type, x) == <<type, x>>

-----------------------------------------------------------------------------
(* Instructions.                                                           *)

\* lgx_gc_trace links a new object.
Trace(r, v) ==
  /\ R' = [R EXCEPT ![r] = v]
  /\ young' = IF IsPointer(v) THEN young \cup {v.v} ELSE young

LoadLong(r, n) ==
  /\ Trace(r, Long(n))
  /\ UNCHANGED <<obj, mode>>

\* OP_LOAD of a string constant.  An exception thrown by the VM makes its
\* string the same way.
LoadString(r, s) ==
  \E a \in Addr \ Live :
    /\ obj' = [obj EXCEPT ![a] = StringObj(s)]
    /\ Trace(r, Str(a))
    /\ UNCHANGED mode

\* OP_LOAD of a function constant.
LoadFunction(r) ==
  \E a \in Addr \ Live :
    /\ obj' = [obj EXCEPT ![a] = FunctionObj]
    /\ Trace(r, Fun(a))
    /\ UNCHANGED mode

\* OP_LOAD of an array constant, of strings: the register gets a copy of its own.
LoadArray(r, items) ==
  \E m \in Injection(DOMAIN items, Addr \ Live) : \E a \in Addr \ (Live \cup Range(m)) :
    /\ obj' = [x \in Addr |->
                 IF x = a THEN ArrayObj([i \in DOMAIN items |-> [key |-> Key("LONG", i - 1), v |-> Str(m[i])]])
                 ELSE IF x \in Range(m) THEN StringObj(items[AntiFunction(m)[x]])
                 ELSE obj[x]]
    /\ Trace(r, Arr(a))
    /\ UNCHANGED mode

\* OP_CONCAT, into a register of its own: the header of the new string gets no
\* type.
Concat(r, p, q) ==
  /\ r \notin {p, q}
  /\ {R[p].type, R[q].type} = {"STRING"} /\ Valid(R[p]) /\ Valid(R[q])
  /\ \E a \in Addr \ Live, s \in Strings :
       /\ obj' = [obj EXCEPT ![a] = [StringObj(s) EXCEPT !.gc = "UNKNOWN"]]
       /\ Trace(r, Str(a))
       /\ UNCHANGED mode

ArrayNew(r) ==
  \E a \in Addr \ Live :
    /\ obj' = [obj EXCEPT ![a] = ArrayObj(<<>>)]
    /\ Trace(r, Arr(a))
    /\ UNCHANGED mode

\* OP_MOV, OP_GLOBAL_GET, OP_GLOBAL_SET, OP_CALL_SET: the pointer is copied.
Move(r, s) ==
  /\ R' = [R EXCEPT ![r] = R[s]]
  /\ UNCHANGED <<obj, young, mode>>

\* OP_RET frees registers, OP_THROW gives its register away.
Forget(r) ==
  /\ R' = [R EXCEPT ![r] = Unknown]
  /\ UNCHANGED <<obj, young, mode>>

\* The key in a register, if the instruction accepts its type.
KeyIn(r) ==
  IF R[r].type = "LONG" THEN {Key("LONG", R[r].v)}
  ELSE IF R[r].type = "STRING" /\ Valid(R[r]) THEN {Key("STRING", obj[R[r].v].string)}
  ELSE {}

\* Appending uses the number of elements as the key.
KeyOf(a, k) == IF k = APPEND THEN {Key("LONG", Len(obj[a].table))} ELSE KeyIn(k)

Bug_skips_the_first(a, key) == {i \in Slots(a) \ {1} : obj[a].table[i].key = key}

Found(a, key) == {i \in Slots(a) : obj[a].table[i].key = key}

Bug_stores_the_pointer(a, key, v, m) ==
  IF Found(a, key) # {}
  THEN LET i == CHOOSE j \in Found(a, key) : TRUE
       IN  [Without(obj, Parts(Element(a, i))) EXCEPT ![a].table[i].v = v]
  ELSE [obj EXCEPT ![a].table = Append(@, [key |-> key, v |-> v])]

\* The array gets a copy of the value; the value it replaces is freed with
\* all its parts, a new key goes behind the others.
Stored(a, key, v, m) ==
  IF Found(a, key) # {}
  THEN LET i == CHOOSE j \in Found(a, key) : TRUE
       IN  [Without(WithCopies(m), Parts(Element(a, i))) EXCEPT ![a].table[i].v = Moved(v, m)]
  ELSE [WithCopies(m) EXCEPT ![a].table = Append(@, [key |-> key, v |-> Moved(v, m)])]

\* OP_ARRAY_SET.  No key is the empty string: the hash table asserts that.
ArraySet(r, k, s) ==
  /\ HoldsArray(r)
  /\ Valid(R[s])
  /\ \E key \in KeyOf(R[r].v, k) :
       /\ Found(R[r].v, key) = {} => Len(obj[R[r].v].table) < MaxLength
       /\ \E m \in Places(R[s]) : obj' = Stored(R[r].v, key, R[s], m)
  /\ UNCHANGED <<R, young, mode>>

\* OP_ARRAY_GET: the register gets the element itself, not a copy.
ArrayGet(r, s, k) ==
  /\ HoldsArray(s)
  /\ \E key \in KeyIn(k) :
       LET a == R[s].v
       IN  R' = [R EXCEPT ![r] =
                   IF Found(a, key) = {} THEN Null
                   ELSE Element(a, CHOOSE i \in Found(a, key) : TRUE)]
  /\ UNCHANGED <<obj, young, mode>>

\* What a value on the young list is made of.
Listed(a) == Parts([type |-> obj[a].type, v |-> a])

Bug_frees_only_the_list ==
  [a \in Addr |-> IF a \in young THEN Free ELSE obj[a]]

\* lgx_gc_cleanup frees each object of the young list by the type in its
\* header: an array with all its parts, a string with its characters; without
\* a type only the header.
Swept ==
  LET freed == UNION {Listed(b) : b \in {b \in young : obj[b].gc # "UNKNOWN"}}
  IN  [a \in Addr |-> IF a \in freed THEN Free ELSE IF a \in young THEN Buffer ELSE obj[a]]

\* lgx_vm_cleanup, after the program.
Cleanup ==
  /\ obj' = Swept
  /\ young' = {}
  /\ R' = [r \in Regs |-> Unknown]
  /\ mode' = "cleaned"

Over == mode # "run" /\ UNCHANGED vars

Step ==
  \/ \E r \in Regs :
       \/ ArrayNew(r)
       \/ Forget(r)
       \/ \E n \in Longs : LoadLong(r, n)
       \/ \E s \in Strings : LoadString(r, s) \/ LoadArray(r, <<s>>)
       \/ LoadFunction(r)
       \/ \E s \in Regs : Move(r, s)
       \/ \E p, q \in Regs : Concat(r, p, q)
       \/ \E s \in Regs, k \in Regs \cup {APPEND} : ArraySet(r, k, s)
       \/ \E s, k \in Regs : ArrayGet(r, s, k)
  \/ Cleanup

Next == (mode = "run" /\ Step) \/ Over

Spec == Init /\ [][Next]_vars

-----------------------------------------------------------------------------
(* Properties.                                                             *)

Objects ==
  [type : {"STRING"}, gc : {"STRING", "UNKNOWN"}, string : Strings]
    \cup {FunctionObj, Free, Buffer}

\* Registers and memory have their types, keys are unique in an array, and an
\* element points to an object of the type it says: no element dangles.
TypeOK ==
  /\ \A r \in Regs : IsPointer(R[r]) => R[r].v \in Addr
  /\ \A a \in Addr :
       IF obj[a].type = "ARRAY"
       THEN \A i, j \in Slots(a) :
              /\ obj[a].table[i].key = obj[a].table[j].key => i = j
              /\ Valid(Element(a, i))
       ELSE obj[a] \in Objects
  /\ young \subseteq Live

\* The element at i of the array at b is the object at a.
Owns(b, i, a) == i \in Slots(b) /\ IsPointer(Element(b, i)) /\ Element(b, i).v = a

Owners(a) == {p \in Addr \X (1 .. MaxLength) : Owns(p[1], p[2], a)}

\* Every string and array in memory has exactly one owner that will free it:
\* the young list, or one element of one array.
OwnedOnce ==
  mode = "run" =>
    \A a \in Live : Cardinality(Owners(a)) = (IF a \in young THEN 0 ELSE 1)

\* Cleaning up the VM frees every object, the elements of arrays of arrays
\* too; only the characters of concatenated strings are left.
CleanupFreesAll == mode = "cleaned" => \A a \in Live : obj[a] = Buffer

\* docs: "garbage collection by reference counting": what a register points to
\* is not freed before the program ends.
NoDangling == mode = "run" => \A r \in Regs : Valid(R[r])

\* docs: "append an element".  Appending makes the array longer by one.
AppendIsNew ==
  [][\A r, s \in Regs :
       ArraySet(r, APPEND, s) /\ mode' = "run" =>
         Len(obj'[R[r].v].table) = Len(obj[R[r].v].table) + 1]_vars
=============================================================================
