------------------------------- MODULE Types -------------------------------
(***************************************************************************)
(* Types and what the compiler asks of them (src/parser/type.c).           *)
(*                                                                         *)
(* A type is a tag and the types it is built from: the element of an       *)
(* array, the key and the value of a map, the receiver, the result and the *)
(* parameters of a function.  UNKNOWN is a hole: the element type of [],   *)
(* the type of a variable whose initialiser decides, a missing receiver or *)
(* result.                                                                 *)
(***************************************************************************)
EXTENDS Integers, Sequences

Tags == {"UNKNOWN", "CUSTOM", "NULL", "LONG", "DOUBLE", "BOOL", "STRING",
         "ARRAY", "MAP", "STRUCT", "INTERFACE", "FUNCTION"}

Basic(tag) == [tag |-> tag, sub |-> <<>>]
Hole == Basic("UNKNOWN")
ArrayOf(t) == [tag |-> "ARRAY", sub |-> <<t>>]
MapOf(k, v) == [tag |-> "MAP", sub |-> <<k, v>>]
FunctionOf(receiver, ret, args) == [tag |-> "FUNCTION", sub |-> <<receiver, ret>> \o args]

\* Parts of a function type that may be missing.
Optional(t, i) == t.tag = "FUNCTION" /\ i \in {1, 2}

\* lgx_type_cmp gives 0.  A hole is not even the same as a hole.
RECURSIVE Same(_, _)
Same(t1, t2) ==
  /\ t1.tag = t2.tag
  /\ t1 # Hole
  /\ Len(t1.sub) = Len(t2.sub)
  /\ \A i \in DOMAIN t1.sub :
       \/ Optional(t1, i) /\ t1.sub[i] = Hole /\ t2.sub[i] = Hole
       \/ Same(t1.sub[i], t2.sub[i])

\* lgx_type_dup gives 0: lgx_type_init knows no T_NULL.
RECURSIVE CanDup(_)
CanDup(t) == t.tag # "NULL" /\ \A i \in DOMAIN t.sub : CanDup(t.sub[i])

\* lgx_type_is_definite.
RECURSIVE Definite(_)
Definite(t) ==
  /\ t # Hole
  /\ t.tag \in {"ARRAY", "MAP"} => \A i \in DOMAIN t.sub : Definite(t.sub[i])

\* lgx_type_inference: the holes of dst are filled from src.  It stops at the
\* first part that does not agree, with the parts before it filled.
RECURSIVE Inferred(_, _)
Inferred(src, dst) ==
  CASE dst = Hole -> [ok |-> CanDup(src), type |-> src]
    [] dst.tag \in {"ARRAY", "MAP"} /\ src.tag # dst.tag -> [ok |-> FALSE, type |-> dst]
    [] dst.tag = "ARRAY" /\ src.tag = "ARRAY" ->
         LET v == Inferred(src.sub[1], dst.sub[1])
         IN  [ok |-> v.ok, type |-> ArrayOf(v.type)]
    [] dst.tag = "MAP" /\ src.tag = "MAP" ->
         LET k == Inferred(src.sub[1], dst.sub[1])
             v == Inferred(src.sub[2], dst.sub[2])
         IN  [ok |-> k.ok /\ v.ok,
              type |-> MapOf(k.type, IF k.ok THEN v.type ELSE dst.sub[2])]
    [] OTHER -> [ok |-> Same(src, dst), type |-> dst]

\* lgx_type_is_fit: a literal of type src may be assigned to dst.
RECURSIVE Fits(_, _)
Fits(src, dst) ==
  CASE src = Hole -> TRUE
    [] src.tag \in {"ARRAY", "MAP"} ->
         dst.tag = src.tag /\ \A i \in DOMAIN src.sub : Fits(src.sub[i], dst.sub[i])
    [] src.tag \in {"STRUCT", "INTERFACE", "FUNCTION"} -> FALSE
    [] OTHER -> Same(src, dst)
=============================================================================
