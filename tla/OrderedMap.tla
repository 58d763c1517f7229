----------------------------- MODULE OrderedMap ------------------------------
(***************************************************************************)
(* What a hash table promises its users (src/common/ht.h): a partial map   *)
(* whose keys are visited in the order they were first inserted.  Setting  *)
(* a key that is present fails and changes nothing; setting a key that is  *)
(* absent may fail for lack of memory.                                     *)
(***************************************************************************)
EXTENDS Naturals, Sequences, SequencesExt

CONSTANTS Keys, NONE

VARIABLES
  entries,   \* the keys present, in insertion order
  answer     \* what the last operation returned, and for which key when it was Get

mvars == <<entries, answer>>

Present == {entries[i] : i \in 1 .. Len(entries)}

Init == entries = <<>> /\ answer = NONE

Set(k) ==
  \/ /\ k \notin Present
     /\ entries' = Append(entries, k)
     /\ answer' = <<"ok">>
  \/ /\ answer' = <<"failed">>
     /\ UNCHANGED entries

Get(k) ==
  /\ answer' = <<IF k \in Present THEN "found" ELSE "missing", k>>
  /\ UNCHANGED entries

Delete(k) ==
  /\ \E i \in 1 .. Len(entries) : entries[i] = k /\ entries' = RemoveAt(entries, i)
  /\ answer' = NONE

Clear == entries' = <<>> /\ answer' = NONE

Next == Clear \/ \E k \in Keys : Set(k) \/ Get(k) \/ Delete(k)

Spec == Init /\ [][Next]_mvars
=============================================================================
