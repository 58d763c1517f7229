-------------------------- MODULE CallStackProofs ---------------------------
(***************************************************************************)
(* Proofs about CallStack, for every set of well-formed programs, every    *)
(* size of the stack and every number of doublings.                        *)
(*                                                                         *)
(* The stack says where its frames are only through the registers 0 to 3   *)
(* of each frame.  The invariant says what those registers hold at every   *)
(* depth (`FrameChain'), that the running instruction belongs to the       *)
(* innermost frame, that the room CALL_NEW tested for is kept until the    *)
(* call, and that the slots above the running frame are empty but for the  *)
(* arguments that are being passed.                                        *)
(***************************************************************************)
EXTENDS CallStack, InductionFacts, SequenceTheorems, TLAPS

-----------------------------------------------------------------------------
(* Programs.                                                               *)

\* A function the machine runs itself.
IsCode(p, f) == f \in DOMAIN p.fun /\ ~p.fun[f].buildin

IsProgram(p) ==
  /\ WellFormed(p)
  /\ \A q \in Pcs(p) : p.bc[q + 1].op = "SET" => p.bc[q + 1].v \in Values(p)

LEMMA ProgramsAreWellFormed == \A p \in Programs : IsProgram(p)
BY CallStackAssumption DEF IsProgram

\* Windows hold the four registers of the header and the arguments.
LEMMA WindowSize ==
  ASSUME NEW p, IsProgram(p), NEW f \in DOMAIN p.fun
  PROVE  /\ f \in Int
         /\ p.fun[f].arg_len \in Nat
         /\ p.fun[f].stack_size \in Nat
         /\ p.fun[f].stack_size >= 4 + p.fun[f].arg_len
BY DEF IsProgram, WellFormed, FunWellFormed

\* The instructions of a function are a range of the bytecode that ends with
\* RET, and no instruction has two functions.
LEMMA CodeRange ==
  ASSUME NEW p, IsProgram(p), NEW f, IsCode(p, f)
  PROVE  /\ p.fun[f].addr \in Pcs(p) /\ Owns(p, f, p.fun[f].addr)
         /\ p.fun[f].end \in Pcs(p) /\ Owns(p, f, p.fun[f].end)
         /\ p.bc[p.fun[f].end + 1].op = "RET" /\ p.bc[p.fun[f].end + 1].pa = 0
<1>1. FunWellFormed(p, f) BY DEF IsProgram, WellFormed, IsCode
<1>2. /\ p.fun[f].addr \in Pcs(p) /\ p.fun[f].end \in Pcs(p)
      /\ p.fun[f].addr <= p.fun[f].end
      /\ p.bc[p.fun[f].end + 1] = [op |-> "RET", pa |-> 0]
  BY <1>1 DEF FunWellFormed, IsCode
<1>3. Len(p.bc) \in Nat BY DEF IsProgram, WellFormed
<1> QED BY <1>2, <1>3 DEF Owns, Pcs

\* A function owns its range, and no instruction has two functions.
LEMMA OwnerIsUnique ==
  ASSUME NEW p, IsProgram(p), NEW f, IsCode(p, f), NEW g, IsCode(p, g),
         NEW q \in Pcs(p), Owns(p, f, q), Owns(p, g, q)
  PROVE  f = g
<1>1. FunWellFormed(p, f) BY DEF IsProgram, WellFormed, IsCode
<1> QED BY <1>1 DEF FunWellFormed, IsCode

LEMMA InstrIsWellFormed ==
  ASSUME NEW p, IsProgram(p), NEW f, IsCode(p, f), NEW q \in Pcs(p), Owns(p, f, q)
  PROVE  InstrWellFormed(p, f, q) /\ CallGoesOn(p, q)
<1>1. FunWellFormed(p, f) BY DEF IsProgram, WellFormed, IsCode
<1> QED BY <1>1 DEF FunWellFormed, IsCode

\* An instruction between two of one function is in that function.
LEMMA BetweenOwned ==
  ASSUME NEW p, IsProgram(p), NEW f, IsCode(p, f), NEW q \in Int,
         NEW m \in Pcs(p), NEW n \in Pcs(p), Owns(p, f, m), Owns(p, f, n), m <= q, q <= n
  PROVE  q \in Pcs(p) /\ Owns(p, f, q)
BY CodeRange, SMTT(30) DEF Owns, Pcs

\* Only RET ends a function: behind any other instruction it goes on.
LEMMA GoesOn ==
  ASSUME NEW p, IsProgram(p), NEW f, IsCode(p, f), NEW q \in Pcs(p), Owns(p, f, q),
         p.bc[q + 1].op # "RET"
  PROVE  q + 1 \in Pcs(p) /\ Owns(p, f, q + 1)
<1>1. q # p.fun[f].end BY CodeRange
<1>2. p.fun[f].addr \in Int /\ p.fun[f].end \in Int /\ q \in Int
  BY CodeRange DEF Pcs
<1>3. q + 1 <= p.fun[f].end /\ q <= q + 1 /\ q + 1 \in Int BY <1>1, <1>2 DEF Owns
<1> QED BY <1>3, BetweenOwned, CodeRange

\* What the operands of an instruction are, one fact per kind.
LEMMA Operands ==
  ASSUME NEW p, NEW f, NEW q, InstrWellFormed(p, f, q)
  PROVE  /\ p.bc[q + 1].op \in {"SET", "DIV", "THROW"} =>
              p.bc[q + 1].pa \in 4 .. p.fun[f].stack_size - 1
         /\ p.bc[q + 1].op = "JMP" =>
              \A t \in p.bc[q + 1].to : t \in Pcs(p) /\ Owns(p, f, t)
         /\ p.bc[q + 1].op = "CALL_NEW" => p.bc[q + 1].f \in DOMAIN p.fun
         /\ p.bc[q + 1].op = "RET" => p.bc[q + 1].pa \in 4 .. p.fun[f].stack_size - 1 \cup {0}
         /\ p.bc[q + 1].op \in Passing =>
              p.bc[q + 1].f \in DOMAIN p.fun /\ IsPreparing(p, q, p.bc[q + 1].f)
         /\ p.bc[q + 1].op = "CALL_SET" =>
              /\ p.bc[q + 1].pa \in 4 .. 3 + p.fun[p.bc[q + 1].f].arg_len
              /\ p.bc[q + 1].pb \in 4 .. p.fun[f].stack_size - 1
         /\ p.bc[q + 1].op = "CALL" => p.bc[q + 1].pa \in 4 .. p.fun[f].stack_size - 1
         /\ p.bc[q + 1].op = "TAIL_CALL" => ~p.fun[p.bc[q + 1].f].buildin
<1> DEFINE i == p.bc[q + 1]
           window == 4 .. p.fun[f].stack_size - 1
<1>1. CASE i.op \in {"SET", "DIV", "THROW"}
  BY <1>1 DEF InstrWellFormed, Passing
<1>2. CASE i.op = "JMP"
  BY <1>2 DEF InstrWellFormed, Passing
<1>3. CASE i.op = "CALL_NEW"
  BY <1>3 DEF InstrWellFormed, Passing
<1>4. CASE i.op = "RET"
  BY <1>4 DEF InstrWellFormed, Passing
<1>5. CASE i.op \in Passing
  BY <1>5 DEF InstrWellFormed, Passing
<1>6. CASE i.op \notin {"SET", "DIV", "THROW", "JMP", "CALL_NEW", "RET"} \cup Passing
  BY <1>6 DEF InstrWellFormed, Passing
<1> QED BY <1>1, <1>2, <1>3, <1>4, <1>5, <1>6

-----------------------------------------------------------------------------
(* Calls that have been begun.                                             *)

\* At most one call is being prepared.
LEMMA OneCallPrepared ==
  ASSUME NEW p, NEW q \in Int, NEW f, NEW g, IsPreparing(p, q, f), IsPreparing(p, q, g)
  PROVE  f = g
<1>1. PICK m \in 0 .. q - 1 :
        /\ p.bc[m + 1].op = "CALL_NEW" /\ p.bc[m + 1].f = f
        /\ \A n \in m + 1 .. q - 1 : p.bc[n + 1].op # "CALL_NEW"
  BY DEF IsPreparing
<1>2. PICK n \in 0 .. q - 1 :
        /\ p.bc[n + 1].op = "CALL_NEW" /\ p.bc[n + 1].f = g
        /\ \A k \in n + 1 .. q - 1 : p.bc[k + 1].op # "CALL_NEW"
  BY DEF IsPreparing
<1>3. ~(m < n) BY <1>1, <1>2
<1>4. ~(n < m) BY <1>1, <1>2
<1> QED BY <1>1, <1>2, <1>3, <1>4

\* The addresses control jumps to.
LEMMA EntryKinds ==
  ASSUME NEW p
  PROVE  /\ \A f \in DOMAIN p.fun : p.fun[f].addr \in Entries(p)
         /\ \A q \in Pcs(p) : p.bc[q + 1].op = "JMP" => p.bc[q + 1].to \subseteq Entries(p)
         /\ \A x \in p.exception : \A k \in DOMAIN x.catch : x.catch[k].start \in Entries(p)
<1> DEFINE jumps == {j \in Pcs(p) : p.bc[j + 1].op = "JMP"}
           A == UNION {p.bc[q + 1].to : q \in jumps}
           B == {p.fun[f].addr : f \in DOMAIN p.fun}
           C == UNION {{x.catch[k].start : k \in DOMAIN x.catch} : x \in p.exception}
<1>1. Entries(p) = A \cup B \cup C BY DEF Entries
<1>2. \A f \in DOMAIN p.fun : p.fun[f].addr \in B OBVIOUS
<1>3. ASSUME NEW q \in Pcs(p), p.bc[q + 1].op = "JMP" PROVE p.bc[q + 1].to \subseteq A
  <2>1. q \in jumps BY <1>3
  <2> QED BY <2>1
<1>4. \A x \in p.exception : \A k \in DOMAIN x.catch : x.catch[k].start \in C OBVIOUS
<1> HIDE DEF A, B, C
<1> QED BY <1>1, <1>2, <1>3, <1>4

\* Nothing is being prepared at an address control jumps to.
LEMMA EntryPreparesNothing ==
  ASSUME NEW p, NEW q \in Entries(p), q \in Int, NEW g
  PROVE  ~IsPreparing(p, q, g)
BY DEF IsPreparing

\* A call that is being prepared behind an instruction other than CALL_NEW was
\* being prepared before it, and that instruction is an argument.
LEMMA PreparedBefore ==
  ASSUME NEW p, NEW q \in Int, NEW g, IsPreparing(p, q + 1, g)
  PROVE  \/ p.bc[q + 1].op = "CALL_NEW" /\ p.bc[q + 1].f = g
         \/ IsPreparing(p, q, g) /\ p.bc[q + 1].op \in {"SET", "CALL_SET"}
<1>1. PICK m \in 0 .. q :
        /\ p.bc[m + 1].op = "CALL_NEW" /\ p.bc[m + 1].f = g
        /\ \A n \in m + 1 .. q + 1 : n \notin Entries(p)
        /\ \A n \in m + 1 .. q :
             p.bc[n + 1].op = "SET" \/ (p.bc[n + 1].op = "CALL_SET" /\ p.bc[n + 1].f = g)
  BY DEF IsPreparing
<1>2. CASE m = q BY <1>1, <1>2
<1>3. CASE m # q
  <2>1. m \in 0 .. q - 1 /\ q \in m + 1 .. q BY <1>1, <1>3
  <2>2. p.bc[q + 1].op \in {"SET", "CALL_SET"} BY <1>1, <2>1
  <2>3. IsPreparing(p, q, g) BY <1>1, <2>1 DEF IsPreparing
  <2> QED BY <2>2, <2>3
<1> QED BY <1>2, <1>3

-----------------------------------------------------------------------------
(* Memory.                                                                 *)

\* A write changes nothing but the slots it writes.
LEMMA StoredElsewhere ==
  ASSUME NEW b, NEW w, NEW n \in DOMAIN b, n \notin DOMAIN w
  PROVE  Stored(b, w)[n] = b[n] /\ n \in DOMAIN Stored(b, w)
BY DEF Stored

LEMMA PutElsewhere ==
  ASSUME NEW b, NEW i, NEW v, NEW n \in DOMAIN b, n # i
  PROVE  Put(b, i, v)[n] = b[n] /\ n \in DOMAIN Put(b, i, v)
BY StoredElsewhere DEF Put

LEMMA FreedElsewhere ==
  ASSUME NEW i, NEW j, NEW n \in DOMAIN buf, n \notin i .. j
  PROVE  Freed(i, j)[n] = buf[n] /\ n \in DOMAIN Freed(i, j)
BY StoredElsewhere DEF Freed

-----------------------------------------------------------------------------
(* Frames.                                                                 *)

\* The slots of the frame at n of buffer b.
Size(p, b, n) == p.fun[b[n].v].stack_size

\* Register 0 of the frame at n is a function whose window is inside the
\* buffer, and registers 1 to 3 are numbers.
IsFrame(p, b, s, n) ==
  /\ b[n].type = "FUNCTION" /\ IsCode(p, b[n].v)
  /\ b[n + 1].type = "LONG" /\ b[n + 2].type = "LONG" /\ b[n + 3].type = "LONG"
  /\ n + Size(p, b, n) <= s

\* The header of the bottom frame, which returns to nobody.
IsBottom(b, n) == n = 0 /\ b[1].v = 1 /\ b[2].v = -1 /\ b[3].v = -1

\* The frame at n was called from the frame at m by the instruction before its
\* return address, and its result goes where that instruction says.
IsCalledFrom(p, b, m, n) ==
  /\ n = m + Size(p, b, m)
  /\ b[n + 2].v \in Nat
  /\ b[n + 2].v - 1 \in Pcs(p)
  /\ Owns(p, b[m].v, b[n + 2].v - 1)
  /\ p.bc[b[n + 2].v].op = "CALL"
  /\ b[n + 1].v = p.bc[b[n + 2].v].pa
  /\ b[n + 3].v = m

\* The frames at cs[1], cs[2], ... in buffer b of s slots, each called from the
\* one before it, and each below the windows of all that follow.
FrameChain(p, b, s, cs) ==
  /\ cs \in Seq(Nat) /\ cs # <<>>
  /\ \A k \in 1 .. Len(cs) : IsFrame(p, b, s, cs[k])
  /\ IsBottom(b, cs[1])
  /\ \A k \in 2 .. Len(cs) : IsCalledFrom(p, b, cs[k - 1], cs[k])
  /\ \A k \in 2 .. Len(cs) : \A j \in 1 .. k - 1 : cs[j] + Size(p, b, cs[j]) <= cs[k]

Top(cs) == cs[Len(cs)]

\* The window of a frame holds its header.
LEMMA FrameSize ==
  ASSUME NEW p, IsProgram(p), NEW b, NEW s, NEW n, IsFrame(p, b, s, n)
  PROVE  Size(p, b, n) \in Nat /\ Size(p, b, n) >= 4
BY WindowSize DEF IsFrame, IsCode, Size

\* Only the innermost frame reaches above its base.
LEMMA BelowTop ==
  ASSUME NEW p, IsProgram(p), NEW b, NEW s, NEW cs, FrameChain(p, b, s, cs)
  PROVE  /\ Len(cs) \in Nat /\ Len(cs) >= 1
         /\ \A k \in 1 .. Len(cs) : cs[k] \in Nat /\ cs[k] <= Top(cs)
         /\ \A k \in 1 .. Len(cs) - 1 : cs[k] + 3 < Top(cs)
         /\ Top(cs) \in Nat /\ IsFrame(p, b, s, Top(cs))
<1>1. cs \in Seq(Nat) /\ cs # <<>> BY DEF FrameChain
<1>2. Len(cs) \in Nat /\ Len(cs) >= 1 /\ \A k \in 1 .. Len(cs) : cs[k] \in Nat
  BY <1>1
<1>3. ASSUME NEW k \in 1 .. Len(cs) - 1
      PROVE  cs[k] + 3 < Top(cs)
  <2>1. IsFrame(p, b, s, cs[k]) /\ cs[k] \in Nat BY <1>2 DEF FrameChain
  <2>2. Size(p, b, cs[k]) \in Nat /\ Size(p, b, cs[k]) >= 4 BY <2>1, FrameSize
  <2>3. cs[k] + Size(p, b, cs[k]) <= Top(cs) BY <1>2 DEF FrameChain, Top
  <2> QED BY <2>1, <2>2, <2>3, <1>2, SMTT(30) DEF Top
<1>4. IsFrame(p, b, s, Top(cs)) /\ Top(cs) \in Nat BY <1>2 DEF FrameChain, Top
<1>5. \A k \in 1 .. Len(cs) : cs[k] <= Top(cs)
  <2> SUFFICES ASSUME NEW k \in 1 .. Len(cs) PROVE cs[k] <= Top(cs) OBVIOUS
  <2>1. CASE k = Len(cs) BY <2>1, <1>4 DEF Top
  <2>2. CASE k # Len(cs) BY <2>2, <1>2, <1>3, <1>4
  <2> QED BY <2>1, <2>2
<1> QED BY <1>2, <1>3, <1>4, <1>5

\* The frames stand as long as nothing is written below the end of the
\* innermost header, however the stack grows.
LEMMA ChainKept ==
  ASSUME NEW p, IsProgram(p), NEW b, NEW d, NEW s \in Nat, NEW t \in Nat, s <= t,
         NEW cs, FrameChain(p, b, s, cs),
         \A n \in 0 .. Top(cs) + 3 : d[n] = b[n]
  PROVE  FrameChain(p, d, t, cs)
<1>1. /\ Len(cs) \in Nat /\ Len(cs) >= 1 /\ Top(cs) \in Nat
      /\ \A k \in 1 .. Len(cs) : cs[k] \in Nat /\ cs[k] <= Top(cs)
  BY BelowTop
<1>2. \A k \in 1 .. Len(cs) :
        /\ d[cs[k]] = b[cs[k]] /\ d[cs[k] + 1] = b[cs[k] + 1]
        /\ d[cs[k] + 2] = b[cs[k] + 2] /\ d[cs[k] + 3] = b[cs[k] + 3]
  <2> TAKE k \in 1 .. Len(cs)
  <2>1. cs[k] \in 0 .. Top(cs) + 3 /\ cs[k] + 1 \in 0 .. Top(cs) + 3
        /\ cs[k] + 2 \in 0 .. Top(cs) + 3 /\ cs[k] + 3 \in 0 .. Top(cs) + 3
    BY <1>1
  <2> QED BY <2>1
<1>3. \A k \in 1 .. Len(cs) : Size(p, d, cs[k]) = Size(p, b, cs[k]) BY <1>2 DEF Size
<1>4. ASSUME NEW k \in 1 .. Len(cs) PROVE IsFrame(p, d, t, cs[k])
  <2>1. IsFrame(p, b, s, cs[k]) BY DEF FrameChain
  <2>2. Size(p, b, cs[k]) \in Nat BY <2>1, FrameSize
  <2> QED BY <2>1, <2>2, <1>1, <1>2, <1>3 DEF IsFrame
<1>5. IsBottom(d, cs[1])
  <2>1. IsBottom(b, cs[1]) /\ cs[1] = 0 BY DEF FrameChain, IsBottom
  <2> QED BY <2>1, <1>1, <1>2 DEF IsBottom
<1>6. ASSUME NEW k \in 2 .. Len(cs) PROVE IsCalledFrom(p, d, cs[k - 1], cs[k])
  <2>1. IsCalledFrom(p, b, cs[k - 1], cs[k]) BY DEF FrameChain
  <2>2. k - 1 \in 1 .. Len(cs) /\ k \in 1 .. Len(cs) BY <1>1
  <2> QED BY <2>1, <2>2, <1>2, <1>3 DEF IsCalledFrom
<1>7. \A k \in 2 .. Len(cs) : \A j \in 1 .. k - 1 : cs[j] + Size(p, d, cs[j]) <= cs[k]
  BY <1>1, <1>3, SMTT(30) DEF FrameChain
<1> QED BY <1>4, <1>5, <1>6, <1>7 DEF FrameChain

\* The innermost frame is the bottom one or was called by the one below it.
LEMMA TopFrame ==
  ASSUME NEW p, IsProgram(p), NEW b, NEW s, NEW cs, FrameChain(p, b, s, cs)
  PROVE  \/ /\ Len(cs) = 1 /\ Top(cs) = 0
            /\ b[1].v = 1 /\ b[2].v = -1 /\ b[3].v = -1
         \/ /\ Len(cs) > 1 /\ cs[Len(cs) - 1] \in Nat
            /\ IsFrame(p, b, s, cs[Len(cs) - 1])
            /\ IsCalledFrom(p, b, cs[Len(cs) - 1], Top(cs))
<1>1. Len(cs) \in Nat /\ Len(cs) >= 1 /\ \A k \in 1 .. Len(cs) : cs[k] \in Nat
  BY BelowTop
<1>2. CASE Len(cs) = 1 BY <1>2 DEF FrameChain, IsBottom, Top
<1>3. CASE Len(cs) > 1
  <2>1. Len(cs) \in 2 .. Len(cs) /\ Len(cs) - 1 \in 1 .. Len(cs)
    BY <1>1, <1>3
  <2> QED BY <1>1, <1>3, <2>1 DEF FrameChain, Top
<1> QED BY <1>1, <1>2, <1>3

\* Leaving the innermost frame leaves the frames of its callers.
LEMMA ChainPopped ==
  ASSUME NEW p, IsProgram(p), NEW b, NEW s, NEW cs, FrameChain(p, b, s, cs), Len(cs) > 1
  PROVE  /\ FrameChain(p, b, s, SubSeq(cs, 1, Len(cs) - 1))
         /\ Len(SubSeq(cs, 1, Len(cs) - 1)) = Len(cs) - 1
         /\ Top(SubSeq(cs, 1, Len(cs) - 1)) = cs[Len(cs) - 1]
         /\ \A k \in 1 .. Len(cs) - 1 : SubSeq(cs, 1, Len(cs) - 1)[k] = cs[k]
<1> DEFINE rest == SubSeq(cs, 1, Len(cs) - 1)
<1>1. cs \in Seq(Nat) /\ Len(cs) \in Nat BY DEF FrameChain
<1>2. rest \in Seq(Nat) /\ Len(rest) = Len(cs) - 1 /\ \A k \in 1 .. Len(cs) - 1 : rest[k] = cs[k]
  BY <1>1
<1> HIDE DEF rest
<1>3. rest # <<>>
  <2>1. Len(rest) > 0 BY <1>1, <1>2
  <2>2. Len(<<>>) = 0 BY EmptySeq
  <2> QED BY <2>1, <2>2
<1>4. \A k \in 1 .. Len(rest) : IsFrame(p, b, s, rest[k]) BY <1>1, <1>2 DEF FrameChain
<1>5. IsBottom(b, rest[1]) BY <1>1, <1>2, SMTT(30) DEF FrameChain
<1>6. ASSUME NEW k \in 2 .. Len(rest) PROVE IsCalledFrom(p, b, rest[k - 1], rest[k])
  <2>1. rest[k - 1] = cs[k - 1] /\ rest[k] = cs[k] /\ k \in 2 .. Len(cs) BY <1>1, <1>2
  <2> QED BY <2>1 DEF FrameChain
<1>7. ASSUME NEW k \in 2 .. Len(rest), NEW j \in 1 .. k - 1
      PROVE  rest[j] + Size(p, b, rest[j]) <= rest[k]
  <2>1. rest[j] = cs[j] /\ rest[k] = cs[k] /\ k \in 2 .. Len(cs) BY <1>1, <1>2
  <2> QED BY <2>1 DEF FrameChain
<1>8. FrameChain(p, b, s, rest) BY <1>2, <1>3, <1>4, <1>5, <1>6, <1>7 DEF FrameChain
<1>9. Top(rest) = cs[Len(cs) - 1]
  <2>1. Len(cs) - 1 \in 1 .. Len(cs) - 1 BY <1>1
  <2> QED BY <2>1, <1>2 DEF Top
<1> QED BY <1>2, <1>8, <1>9 DEF rest

\* A call puts a frame on top of the caller's window.
LEMMA ChainPushed ==
  ASSUME NEW p, IsProgram(p), NEW b, NEW s \in Nat, NEW cs, FrameChain(p, b, s, cs),
         NEW n \in Nat, IsFrame(p, b, s, n), IsCalledFrom(p, b, Top(cs), n)
  PROVE  /\ FrameChain(p, b, s, Append(cs, n))
         /\ Len(Append(cs, n)) = Len(cs) + 1
         /\ Top(Append(cs, n)) = n
         /\ \A k \in 1 .. Len(cs) : Append(cs, n)[k] = cs[k]
<1> DEFINE more == Append(cs, n)
<1>1. cs \in Seq(Nat) /\ Len(cs) \in Nat /\ Len(cs) >= 1 BY BelowTop DEF FrameChain
<1>2. /\ more \in Seq(Nat) /\ Len(more) = Len(cs) + 1
      /\ \A k \in 1 .. Len(cs) : more[k] = cs[k]
      /\ more[Len(cs) + 1] = n
  BY <1>1
<1>3. more # <<>> BY <1>1, <1>2
<1> HIDE DEF more
<1>4. ASSUME NEW k \in 1 .. Len(more) PROVE IsFrame(p, b, s, more[k])
  <2>1. CASE k = Len(cs) + 1 BY <2>1, <1>2
  <2>2. CASE k # Len(cs) + 1
    <3>1. k \in 1 .. Len(cs) BY <2>2, <1>1, <1>2
    <3>2. more[k] = cs[k] BY <3>1, <1>2
    <3> QED BY <3>1, <3>2 DEF FrameChain
  <2> QED BY <2>1, <2>2
<1>5. IsBottom(b, more[1]) BY <1>1, <1>2 DEF FrameChain
<1>6. ASSUME NEW k \in 2 .. Len(more) PROVE IsCalledFrom(p, b, more[k - 1], more[k])
  <2>1. CASE k = Len(cs) + 1
    <3>1. more[k - 1] = Top(cs) /\ more[k] = n BY <2>1, <1>1, <1>2 DEF Top
    <3> QED BY <3>1
  <2>2. CASE k # Len(cs) + 1
    <3>1. k \in 2 .. Len(cs) /\ k - 1 \in 1 .. Len(cs) /\ k \in 1 .. Len(cs)
      BY <2>2, <1>1, <1>2
    <3>2. more[k - 1] = cs[k - 1] /\ more[k] = cs[k] BY <3>1, <1>2
    <3> QED BY <3>1, <3>2 DEF FrameChain
  <2> QED BY <2>1, <2>2
<1>7. n = Top(cs) + Size(p, b, Top(cs)) BY DEF IsCalledFrom
<1>8. Size(p, b, Top(cs)) \in Nat /\ Top(cs) \in Nat BY FrameSize, BelowTop
<1>9. ASSUME NEW k \in 2 .. Len(more), NEW j \in 1 .. k - 1
      PROVE  more[j] + Size(p, b, more[j]) <= more[k]
  <2>1. j \in 1 .. Len(cs) /\ more[j] = cs[j] BY <1>1, <1>2
  <2>2. CASE k # Len(cs) + 1
    <3>1. more[k] = cs[k] /\ k \in 2 .. Len(cs) BY <2>2, <1>1, <1>2
    <3> QED BY <2>1, <3>1 DEF FrameChain
  <2>3. CASE k = Len(cs) + 1 /\ j = Len(cs)
    <3>1. more[j] = Top(cs) /\ more[k] = n BY <2>1, <2>3, <1>2 DEF Top
    <3> QED BY <3>1, <1>7, <1>8
  <2>4. CASE k = Len(cs) + 1 /\ j # Len(cs)
    <3>1. j \in 1 .. Len(cs) - 1 /\ Len(cs) \in 2 .. Len(cs) BY <1>1, <2>1, <2>4
    <3>2. cs[j] + Size(p, b, cs[j]) <= Top(cs) BY <3>1 DEF FrameChain, Top
    <3>3. IsFrame(p, b, s, cs[j]) /\ cs[j] \in Nat BY <2>1, <1>1 DEF FrameChain
    <3>4. Size(p, b, cs[j]) \in Nat BY <3>3, FrameSize
    <3> QED BY <2>1, <2>4, <3>2, <3>3, <3>4, <1>2, <1>7, <1>8, SMTT(30)
  <2> QED BY <2>2, <2>3, <2>4
<1>10. FrameChain(p, b, s, more) BY <1>2, <1>3, <1>4, <1>5, <1>6, <1>9 DEF FrameChain
<1>11. Top(more) = n BY <1>1, <1>2 DEF Top
<1> QED BY <1>2, <1>10, <1>11 DEF more

\* A tail call replaces the function of the innermost frame.
LEMMA ChainReused ==
  ASSUME NEW p, IsProgram(p), NEW b, NEW d, NEW s \in Nat, NEW cs, FrameChain(p, b, s, cs),
         NEW f, IsCode(p, f), Top(cs) + p.fun[f].stack_size <= s,
         d[Top(cs)] = Function(f),
         \A n \in 0 .. Top(cs) + 3 : n # Top(cs) => d[n] = b[n]
  PROVE  FrameChain(p, d, s, cs)
<1>1. /\ Len(cs) \in Nat /\ Len(cs) >= 1 /\ Top(cs) \in Nat
      /\ \A k \in 1 .. Len(cs) : cs[k] \in Nat /\ cs[k] <= Top(cs)
      /\ \A k \in 1 .. Len(cs) - 1 : cs[k] + 3 < Top(cs)
      /\ IsFrame(p, b, s, Top(cs))
  BY BelowTop
<1>2. \A k \in 1 .. Len(cs) :
        d[cs[k] + 1] = b[cs[k] + 1] /\ d[cs[k] + 2] = b[cs[k] + 2] /\ d[cs[k] + 3] = b[cs[k] + 3]
  <2> SUFFICES ASSUME NEW k \in 1 .. Len(cs)
               PROVE  d[cs[k] + 1] = b[cs[k] + 1] /\ d[cs[k] + 2] = b[cs[k] + 2]
                        /\ d[cs[k] + 3] = b[cs[k] + 3]
    OBVIOUS
  <2>1. k = Len(cs) \/ k \in 1 .. Len(cs) - 1 BY <1>1
  <2>2. cs[k] \in Nat /\ (cs[k] = Top(cs) \/ cs[k] + 3 < Top(cs)) BY <2>1, <1>1 DEF Top
  <2>3. /\ cs[k] + 1 \in 0 .. Top(cs) + 3 /\ cs[k] + 1 # Top(cs)
        /\ cs[k] + 2 \in 0 .. Top(cs) + 3 /\ cs[k] + 2 # Top(cs)
        /\ cs[k] + 3 \in 0 .. Top(cs) + 3 /\ cs[k] + 3 # Top(cs)
    BY <2>2, <1>1, SMTT(30)
  <2> QED BY <2>3
<1>3. \A k \in 1 .. Len(cs) - 1 : d[cs[k]] = b[cs[k]]
  <2> TAKE k \in 1 .. Len(cs) - 1
  <2>1. k \in 1 .. Len(cs) /\ cs[k] + 3 < Top(cs) BY <1>1
  <2>2. cs[k] \in 0 .. Top(cs) + 3 /\ cs[k] # Top(cs) BY <2>1, <1>1
  <2> QED BY <2>2
<1>4. \A k \in 1 .. Len(cs) - 1 : Size(p, d, cs[k]) = Size(p, b, cs[k]) BY <1>3 DEF Size
<1>5. Size(p, d, Top(cs)) = p.fun[f].stack_size BY DEF Size, Function
<1>6. ASSUME NEW k \in 1 .. Len(cs) PROVE IsFrame(p, d, s, cs[k])
  <2>1. IsFrame(p, b, s, cs[k]) BY DEF FrameChain
  <2>2. CASE k = Len(cs)
    <3>1. cs[k] = Top(cs) BY <2>2 DEF Top
    <3> QED BY <2>1, <3>1, <1>2, <1>5 DEF IsFrame, Function
  <2>3. CASE k # Len(cs)
    <3>1. k \in 1 .. Len(cs) - 1 BY <2>3, <1>1
    <3> QED BY <2>1, <3>1, <1>2, <1>3, <1>4 DEF IsFrame
  <2> QED BY <2>2, <2>3
<1>7. IsBottom(d, cs[1])
  <2>1. IsBottom(b, cs[1]) BY DEF FrameChain
  <2> QED BY <2>1, <1>1, <1>2 DEF IsBottom
<1>8. ASSUME NEW k \in 2 .. Len(cs) PROVE IsCalledFrom(p, d, cs[k - 1], cs[k])
  <2>1. IsCalledFrom(p, b, cs[k - 1], cs[k]) BY DEF FrameChain
  <2>2. k - 1 \in 1 .. Len(cs) - 1 /\ k \in 1 .. Len(cs) BY <1>1
  <2> QED BY <2>1, <2>2, <1>2, <1>3, <1>4 DEF IsCalledFrom
<1>9. ASSUME NEW k \in 2 .. Len(cs), NEW j \in 1 .. k - 1
      PROVE  cs[j] + Size(p, d, cs[j]) <= cs[k]
  <2>1. j \in 1 .. Len(cs) - 1 BY <1>1
  <2> QED BY <2>1, <1>4 DEF FrameChain
<1> QED BY <1>6, <1>7, <1>8, <1>9 DEF FrameChain

-----------------------------------------------------------------------------
(* The inductive invariant.                                                *)

\* The frames in progress, and where in its function the innermost one is.
FramesStand ==
  Alive =>
    /\ FrameChain(c, buf, size, calls)
    /\ Top(calls) = Innermost
    /\ InnermostPc \in Pcs(c) /\ Owns(c, buf[Innermost].v, InnermostPc)
    /\ mode = "throw" => c.bc[throw.pc + 1].op \in {"DIV", "THROW", "CALL_NEW", "CALL"}

\* The room CALL_NEW tested for is there until the call.
RoomKept ==
  mode = "execute" =>
    \A g \in DOMAIN c.fun :
      IsPreparing(c, pc, g) => base + Window + fun(g).stack_size < size

\* Where the arguments of a call of g are put.
ArgumentSlots(g) == base + Window + 4 .. base + Window + 3 + fun(g).arg_len

\* Above the innermost window there is nothing but arguments being passed.
AboveIsEmpty ==
  Alive /\ ~HasTailCalls(c) =>
    \A n \in Innermost + Size(c, buf, Innermost) .. size - 1 :
      \/ buf[n].type = "UNKNOWN"
      \/ /\ mode = "execute"
         /\ \E g \in DOMAIN c.fun : IsPreparing(c, pc, g) /\ n \in ArgumentSlots(g)

IInv == TypeOK /\ FramesStand /\ RoomKept /\ WindowIsCurrent /\ AboveIsEmpty

\* The values of a program.
LEMMA ValueFacts ==
  ASSUME NEW p, IsProgram(p)
  PROVE  /\ Unknown \in Values(p) /\ String \in Values(p)
         /\ \A n \in Int : Long(n) \in Values(p)
         /\ \A f \in DOMAIN p.fun : Function(f) \in Values(p)
<1>1. \A f \in DOMAIN p.fun : f \in Int BY WindowSize
<1> QED BY <1>1 DEF Values, Types, Unknown, String, Long, Function

\* What the invariant says of the running function and its instruction.
LEMMA RunningFacts ==
  ASSUME IInv, mode = "execute"
  PROVE  /\ IsProgram(c) /\ IsCode(c, Running)
         /\ Running = buf[base].v /\ Size(c, buf, base) = Window
         /\ pc \in Pcs(c) /\ pc \in Nat /\ Owns(c, Running, pc)
         /\ InstrWellFormed(c, Running, pc) /\ CallGoesOn(c, pc)
         /\ base \in Nat /\ size \in Nat
         /\ Window \in Nat /\ Window >= 4 /\ base + Window <= size
         /\ FrameChain(c, buf, size, calls) /\ Top(calls) = base
         /\ IsFrame(c, buf, size, base)
         /\ buf \in [0 .. size - 1 -> Value]
<1>1. IsProgram(c) BY ProgramsAreWellFormed DEF IInv, TypeOK
<1>2. /\ base \in Nat /\ size \in Nat /\ base < size /\ buf \in [0 .. size - 1 -> Value]
  BY DEF IInv, TypeOK
<1>3. /\ FrameChain(c, buf, size, calls) /\ Top(calls) = base
      /\ pc \in Pcs(c) /\ Owns(c, buf[base].v, pc)
  BY DEF IInv, FramesStand, Alive, Innermost, InnermostPc
<1>4. IsFrame(c, buf, size, base) BY <1>1, <1>3, BelowTop
<1>5. Running = buf[base].v BY <1>2 DEF Running, R
<1>6. Size(c, buf, base) = Window BY <1>5 DEF Size, Window, fun
<1>7. IsCode(c, Running) /\ base + Window <= size BY <1>4, <1>5, <1>6 DEF IsFrame
<1>8. Window \in Nat /\ Window >= 4 BY <1>1, <1>4, <1>6, FrameSize
<1>9. InstrWellFormed(c, Running, pc) /\ CallGoesOn(c, pc)
  BY <1>1, <1>3, <1>5, <1>7, InstrIsWellFormed
<1>10. pc \in Nat BY <1>3 DEF Pcs
<1> QED BY <1>1, <1>2, <1>3, <1>4, <1>5, <1>6, <1>7, <1>8, <1>9, <1>10

\* The operands of the running instruction.
LEMMA RunningOperands ==
  ASSUME IInv, mode = "execute"
  PROVE  /\ Instr.op \in {"SET", "DIV", "THROW", "CALL"} =>
              Instr.pa \in Int /\ 4 <= Instr.pa /\ Instr.pa < Window
         /\ Instr.op = "JMP" =>
              \A t \in Instr.to : t \in Pcs(c) /\ Owns(c, Running, t) /\ t \in Entries(c)
         /\ Instr.op = "CALL_NEW" => Instr.f \in DOMAIN c.fun
         /\ Instr.op = "RET" =>
              Instr.pa \in Int /\ 0 <= Instr.pa /\ Instr.pa < Window
         /\ Instr.op \in Passing =>
              /\ Instr.f \in DOMAIN c.fun /\ IsPreparing(c, pc, Instr.f)
              /\ base + Window + fun(Instr.f).stack_size < size
         /\ Instr.op = "CALL_SET" =>
              /\ Instr.pa \in Int /\ 4 <= Instr.pa /\ Instr.pa <= 3 + fun(Instr.f).arg_len
              /\ Instr.pb \in Int /\ 4 <= Instr.pb /\ Instr.pb < Window
         /\ Instr.op = "TAIL_CALL" => ~fun(Instr.f).buildin
<1>1. /\ IsProgram(c) /\ InstrWellFormed(c, Running, pc) /\ pc \in Pcs(c)
      /\ Window \in Nat /\ Window >= 4
  BY RunningFacts
<1>2. Window = c.fun[Running].stack_size BY DEF Window, fun
<1> HIDE DEF Window
<1>3. Instr.op \in {"SET", "DIV", "THROW", "CALL"} =>
        Instr.pa \in Int /\ 4 <= Instr.pa /\ Instr.pa < Window
  <2>1. Instr.op \in {"SET", "DIV", "THROW", "CALL"} =>
          Instr.pa \in 4 .. c.fun[Running].stack_size - 1
    BY <1>1, Operands DEF Instr
  <2> QED BY <2>1, <1>1, <1>2
<1>4. Instr.op = "JMP" =>
        \A t \in Instr.to : t \in Pcs(c) /\ Owns(c, Running, t) /\ t \in Entries(c)
  BY <1>1, Operands, EntryKinds DEF Instr
<1>5. /\ Instr.op = "CALL_NEW" => Instr.f \in DOMAIN c.fun
      /\ Instr.op = "TAIL_CALL" => ~fun(Instr.f).buildin
  BY <1>1, Operands DEF Instr, fun
<1>6. Instr.op = "RET" => Instr.pa \in Int /\ 0 <= Instr.pa /\ Instr.pa < Window
  <2>1. Instr.op = "RET" => Instr.pa \in 4 .. c.fun[Running].stack_size - 1 \cup {0}
    BY <1>1, Operands DEF Instr
  <2> QED BY <2>1, <1>1, <1>2
<1>7. Instr.op \in Passing => Instr.f \in DOMAIN c.fun /\ IsPreparing(c, pc, Instr.f)
  BY <1>1, Operands DEF Instr
<1>8. Instr.op \in Passing => base + Window + fun(Instr.f).stack_size < size
  BY <1>7 DEF IInv, RoomKept
<1>9. Instr.op = "CALL_SET" =>
        /\ Instr.pa \in Int /\ 4 <= Instr.pa /\ Instr.pa <= 3 + fun(Instr.f).arg_len
        /\ Instr.pb \in Int /\ 4 <= Instr.pb /\ Instr.pb < Window
  <2> SUFFICES ASSUME Instr.op = "CALL_SET"
               PROVE  /\ Instr.pa \in 4 .. 3 + fun(Instr.f).arg_len
                      /\ Instr.pb \in 4 .. Window - 1
                      /\ fun(Instr.f).arg_len \in Nat
    BY <1>1
  <2>1. Instr.f \in DOMAIN c.fun BY <1>7 DEF Passing
  <2>2. fun(Instr.f).arg_len \in Nat BY <1>1, <2>1, WindowSize DEF fun
  <2>3. /\ Instr.pa \in 4 .. 3 + c.fun[Instr.f].arg_len
        /\ Instr.pb \in 4 .. c.fun[Running].stack_size - 1
    BY <1>1, Operands DEF Instr
  <2> QED BY <1>2, <2>2, <2>3 DEF fun
<1> QED BY <1>3, <1>4, <1>5, <1>6, <1>7, <1>8, <1>9

\* Only arguments and the call itself run while a call is prepared.
LEMMA PreparesNothing ==
  ASSUME IInv, mode = "execute",
         Instr.op \notin {"SET", "CALL_SET", "CALL", "TAIL_CALL"}
  PROVE  \A g \in DOMAIN c.fun : ~IsPreparing(c, pc, g)
<1>1. CallGoesOn(c, pc) BY RunningFacts
<1> QED BY <1>1 DEF CallGoesOn, Instr

\* A step of the running function that leaves the headers alone and goes on in
\* the same function.
LEMMA SameFrame ==
  ASSUME IInv, mode = "execute", mode' = "execute", c' = c, base' = base, calls' = calls,
         size' \in Nat, size <= size', \A n \in 0 .. base + 3 : buf'[n] = buf[n],
         pc' \in Pcs(c), Owns(c, Running, pc')
  PROVE  /\ FramesStand' /\ Running' = Running /\ Window' = Window
         /\ Innermost' = base /\ Size(c, buf, Innermost)' = Window
<1>1. /\ IsProgram(c) /\ FrameChain(c, buf, size, calls) /\ Top(calls) = base
      /\ base \in Nat /\ size \in Nat /\ Running = buf[base].v
  BY RunningFacts
<1>2. FrameChain(c, buf', size', calls) BY <1>1, ChainKept
<1>3. buf'[base] = buf[base] BY <1>1
<1>4. Running' = Running BY <1>1, <1>3 DEF Running, R
<1>5. Window' = Window BY <1>4 DEF Window, fun
<1>6. FrameChain(c, buf, size, calls)' BY <1>2
<1>7. (Top(calls) = Innermost)' BY <1>1 DEF Innermost
<1>8. (InnermostPc \in Pcs(c) /\ Owns(c, buf[Innermost].v, InnermostPc))'
  BY <1>1, <1>3 DEF InnermostPc, Innermost
<1>9. Innermost' = base BY DEF Innermost
<1>10. Size(c, buf, Innermost)' = Window
  BY <1>1, <1>3, <1>9 DEF Size, Window, fun
<1> QED BY <1>4, <1>5, <1>6, <1>7, <1>8, <1>9, <1>10 DEF FramesStand

\* The slots above the window are empty when no call is prepared.
LEMMA NothingAbove ==
  ASSUME IInv, mode = "execute", ~HasTailCalls(c),
         Instr.op \notin {"SET", "CALL_SET", "CALL", "TAIL_CALL"}
  PROVE  \A n \in base + Window .. size - 1 : buf[n].type = "UNKNOWN"
<1>1. \A g \in DOMAIN c.fun : ~IsPreparing(c, pc, g) BY PreparesNothing
<1>2. Innermost = base /\ Size(c, buf, base) = Window BY RunningFacts DEF Innermost
<1> QED BY <1>1, <1>2 DEF IInv, AboveIsEmpty, Alive

\* The room stays when the next instruction follows one that begins no call.
LEMMA KeepsRoom ==
  ASSUME IInv, mode = "execute", Instr.op # "CALL_NEW", pc' = pc + 1, c' = c,
         base' = base, size' = size, Window' = Window
  PROVE  RoomKept'
<1> SUFFICES ASSUME NEW g \in DOMAIN c.fun, IsPreparing(c, pc + 1, g)
             PROVE  base + Window + fun(g).stack_size < size
  BY DEF RoomKept, fun
<1>1. pc \in Int BY RunningFacts
<1>2. IsPreparing(c, pc, g) BY <1>1, PreparedBefore DEF Instr
<1> QED BY <1>2 DEF IInv, RoomKept

\* Nothing needs room where nothing is prepared.
LEMMA NeedsNoRoom ==
  ASSUME \A g : ~IsPreparing(c', pc', g)
  PROVE  RoomKept'
BY DEF RoomKept

LEMMA InitInvariant == Init => IInv
<1> SUFFICES ASSUME Init PROVE IInv OBVIOUS
<1> DEFINE m == c.main
<1>1. IsProgram(c) BY ProgramsAreWellFormed DEF Init
<1>2. m \in DOMAIN c.fun /\ ~c.fun[m].buildin BY <1>1 DEF IsProgram, WellFormed
<1>3. IsCode(c, m) BY <1>2 DEF IsCode
<1>4. c.fun[m].stack_size \in Nat /\ c.fun[m].stack_size >= 4 BY <1>1, <1>2, WindowSize
<1>5. c.fun[m].addr \in Pcs(c) /\ Owns(c, m, c.fun[m].addr) BY <1>1, <1>3, CodeRange
<1>6. /\ size \in Nat /\ size >= c.fun[m].stack_size
      /\ base = 0 /\ pc = c.fun[m].addr /\ mode = "execute" /\ calls = <<0>>
      /\ regs = [block |-> block, base |-> base] /\ block = 0 /\ throw = NoThrow
  BY <1>4, CallStackAssumption DEF Init, fun
<1>7. /\ buf[0] = Function(m) /\ buf[1] = Long(1) /\ buf[2] = Long(-1) /\ buf[3] = Long(-1)
      /\ \A n \in 4 .. size - 1 : buf[n] = Unknown
  BY <1>4, <1>6 DEF Init
<1>8. buf \in [0 .. size - 1 -> Value]
  <2>1. \A i \in 0 .. size - 1 :
          (IF i = 0 THEN Function(m) ELSE IF i = 1 THEN Long(1)
           ELSE IF i \in {2, 3} THEN Long(-1) ELSE Unknown) \in Values(c)
    BY <1>1, <1>2, ValueFacts
  <2> QED BY <2>1 DEF Init, Value
<1>9. TypeOK
  <2>1. pc \in 0 .. Len(c.bc) BY <1>5, <1>6 DEF Pcs
  <2>2. throw \in [pc : Nat, base : 0 .. size - 1, e : Value]
    BY <1>1, <1>4, <1>6, ValueFacts DEF NoThrow, Value
  <2>3. regs \in [block : Nat, base : Nat] BY <1>6
  <2>4. calls \in Seq(Nat) BY <1>6
  <2> QED BY <1>4, <1>6, <1>8, <2>1, <2>2, <2>3, <2>4 DEF TypeOK, Init
<1>10. Size(c, buf, 0) = c.fun[m].stack_size BY <1>7 DEF Size, Function
<1>11. FrameChain(c, buf, size, <<0>>)
  <2>1. IsFrame(c, buf, size, 0)
    BY <1>3, <1>4, <1>6, <1>7, <1>10 DEF IsFrame, Function, Long
  <2>2. IsBottom(buf, 0) BY <1>7 DEF IsBottom, Long
  <2> QED BY <2>1, <2>2 DEF FrameChain
<1>12. FramesStand
  <2>1. Top(<<0>>) = 0 BY DEF Top
  <2> QED BY <1>5, <1>6, <1>7, <1>11, <2>1
      DEF FramesStand, Innermost, InnermostPc, Function
<1>13. \A g : ~IsPreparing(c, pc, g)
  <2>1. pc \in Entries(c) BY <1>2, <1>6, EntryKinds
  <2>2. pc \in Int BY <1>5, <1>6 DEF Pcs
  <2> QED BY <2>1, <2>2, EntryPreparesNothing
<1>14. RoomKept BY <1>13 DEF RoomKept
<1>15. AboveIsEmpty
  <2>1. \A n \in c.fun[m].stack_size .. size - 1 : buf[n].type = "UNKNOWN"
    BY <1>4, <1>7 DEF Unknown
  <2> QED BY <2>1, <1>4, <1>6, <1>10 DEF AboveIsEmpty, Innermost
<1>16. WindowIsCurrent BY <1>6 DEF WindowIsCurrent
<1> QED BY <1>9, <1>12, <1>14, <1>15, <1>16 DEF IInv

\* A write to a register above the header disturbs neither the headers nor
\* what is above the window.
LEMMA WriteInWindow ==
  ASSUME IInv, mode = "execute", NEW r \in Int, 4 <= r, r < Window, NEW v \in Value,
         buf' = Put(buf, base + r, v)
  PROVE  /\ buf' \in [0 .. size - 1 -> Value]
         /\ \A n \in 0 .. base + 3 : buf'[n] = buf[n]
         /\ \A n \in base + Window .. size - 1 : buf'[n] = buf[n]
<1>1. /\ base \in Nat /\ size \in Nat /\ Window \in Nat /\ base + Window <= size
      /\ buf \in [0 .. size - 1 -> Value]
  BY RunningFacts
<1>2. base + r \in 0 .. size - 1 /\ base + r > base + 3 /\ base + r < base + Window
  BY <1>1
<1>3. buf' = [buf EXCEPT ![base + r] = v] BY <1>1, <1>2 DEF Put, Stored
<1> QED BY <1>1, <1>2, <1>3

\* A step that throws leaves the frames as they are.
LEMMA ThrowKeeps ==
  ASSUME IInv, mode = "execute", NEW e \in Value, Throw(e),
         Instr.op \in {"DIV", "THROW", "CALL_NEW"},
         c' = c, size' = size, base' = base, pc' = pc, regs' = regs, block' = block,
         calls' = calls, buf' \in [0 .. size - 1 -> Value],
         \A n \in 0 .. base + 3 : buf'[n] = buf[n],
         \A n \in base + Window .. size - 1 : buf'[n] = buf[n]
  PROVE  IInv'
<1>1. /\ IsProgram(c) /\ FrameChain(c, buf, size, calls) /\ Top(calls) = base
      /\ base \in Nat /\ size \in Nat /\ Running = buf[base].v
      /\ pc \in Pcs(c) /\ pc \in Nat /\ Owns(c, Running, pc)
      /\ Size(c, buf, base) = Window
  BY RunningFacts
<1>2. mode' = "throw" /\ throw' = [pc |-> pc, base |-> base, e |-> e] BY DEF Throw
<1>3. throw'.pc = pc /\ throw'.base = base BY <1>2
<1>4. FrameChain(c, buf', size, calls) BY <1>1, ChainKept
<1>5. buf'[base] = buf[base] BY <1>1
<1>6. Innermost' = base /\ InnermostPc' = pc BY <1>2, <1>3 DEF Innermost, InnermostPc
<1>7. Size(c, buf, Innermost)' = Window BY <1>1, <1>5, <1>6 DEF Size
<1>8. FramesStand'
  <2>1. FrameChain(c, buf, size, calls)' BY <1>4
  <2>2. (Top(calls) = Innermost)' BY <1>1, <1>6
  <2>3. (InnermostPc \in Pcs(c) /\ Owns(c, buf[Innermost].v, InnermostPc))'
    BY <1>1, <1>5, <1>6
  <2>4. (c.bc[throw.pc + 1].op \in {"DIV", "THROW", "CALL_NEW", "CALL"})'
    BY <1>3 DEF Instr
  <2> QED BY <2>1, <2>2, <2>3, <2>4 DEF FramesStand
<1>9. TypeOK'
  <2>1. base \in 0 .. size - 1 BY DEF IInv, TypeOK
  <2>2. throw' \in [pc : Nat, base : 0 .. size - 1, e : Value] BY <2>1, <1>1, <1>2
  <2>3. Value' = Value BY DEF Value
  <2> QED BY <2>2, <2>3, <1>2 DEF IInv, TypeOK
<1>10. AboveIsEmpty'
  <2> SUFFICES ASSUME ~HasTailCalls(c), NEW n \in base + Window .. size - 1
               PROVE  buf'[n].type = "UNKNOWN"
    BY <1>6, <1>7 DEF AboveIsEmpty
  <2> QED BY NothingAbove
<1>11. RoomKept' /\ WindowIsCurrent' BY <1>2 DEF RoomKept, WindowIsCurrent
<1> QED BY <1>8, <1>9, <1>10, <1>11 DEF IInv

-----------------------------------------------------------------------------
(* One lemma per instruction.                                              *)

LEMMA WriteKeeps ==
  ASSUME IInv, Write
  PROVE  IInv'
<1>1. /\ mode = "execute" /\ c.bc[pc + 1].op = "SET" /\ pc' = pc + 1
      /\ buf' = Put(buf, base + Instr.pa, Instr.v)
      /\ c' = c /\ size' = size /\ base' = base /\ regs' = regs /\ block' = block
      /\ mode' = mode /\ throw' = throw /\ calls' = calls
  BY DEF Write, At, Instr
<1>2. PICK r \in Int : r = Instr.pa /\ 4 <= r /\ r < Window
  BY <1>1, RunningOperands DEF Instr
<1>3. PICK v \in Value : v = Instr.v
  BY <1>1, RunningFacts DEF IsProgram, Value, Instr
<1>4. /\ size \in Nat /\ pc \in Pcs(c)
      /\ IsProgram(c) /\ IsCode(c, Running) /\ Owns(c, Running, pc) /\ CallGoesOn(c, pc)
  BY <1>1, RunningFacts
<1>5. buf' = Put(buf, base + r, v) BY <1>1, <1>2, <1>3
<1>6. /\ buf' \in [0 .. size - 1 -> Value]
      /\ \A n \in 0 .. base + 3 : buf'[n] = buf[n]
      /\ \A n \in base + Window .. size - 1 : buf'[n] = buf[n]
  BY <1>1, <1>2, <1>5, WriteInWindow
<1>8. pc + 1 \in Pcs(c) /\ Owns(c, Running, pc + 1) BY <1>1, <1>4, GoesOn
<1>9. /\ FramesStand' /\ Window' = Window
      /\ Innermost' = base /\ Size(c, buf, Innermost)' = Window
  BY <1>1, <1>4, <1>6, <1>8, SameFrame
<1>10. RoomKept' BY <1>1, <1>9, KeepsRoom DEF Instr
<1>11. WindowIsCurrent' BY <1>1 DEF IInv, WindowIsCurrent
<1>12. TypeOK'
  <2>1. pc' \in 0 .. Len(c.bc) BY <1>1, <1>8 DEF Pcs
  <2>2. Value' = Value BY <1>1 DEF Value
  <2> QED BY <2>1, <2>2, <1>1, <1>6 DEF IInv, TypeOK
<1>13. AboveIsEmpty'
  <2> SUFFICES ASSUME ~HasTailCalls(c), NEW n \in base + Window .. size - 1,
                      buf'[n].type # "UNKNOWN"
               PROVE  \E g \in DOMAIN c.fun :
                        IsPreparing(c, pc + 1, g) /\ n \in ArgumentSlots(g)'
    BY <1>1, <1>9 DEF AboveIsEmpty, Alive
  <2>1. buf'[n] = buf[n] BY <1>6
  <2>2. PICK g \in DOMAIN c.fun : IsPreparing(c, pc, g) /\ n \in ArgumentSlots(g)
    BY <1>1, <2>1, RunningFacts DEF IInv, AboveIsEmpty, Alive, Innermost
  <2>3. IsPreparing(c, pc + 1, g) BY <1>1, <1>4, <2>2 DEF CallGoesOn
  <2>4. n \in ArgumentSlots(g)' BY <1>1, <1>9, <2>2 DEF ArgumentSlots, fun
  <2> QED BY <2>3, <2>4
<1> QED BY <1>9, <1>10, <1>11, <1>12, <1>13 DEF IInv

LEMMA DivideKeeps ==
  ASSUME IInv, Divide
  PROVE  IInv'
<1>1. /\ mode = "execute" /\ Instr.op = "DIV"
      /\ c' = c /\ size' = size /\ base' = base /\ regs' = regs /\ block' = block
      /\ calls' = calls
  BY DEF Divide, At
<1>2. /\ IsProgram(c) /\ IsCode(c, Running) /\ Owns(c, Running, pc) /\ pc \in Pcs(c)
      /\ base \in Nat /\ size \in Nat /\ Window \in Nat
      /\ buf \in [0 .. size - 1 -> Value]
  BY <1>1, RunningFacts
<1>3. ASSUME buf' = Put(buf, base + Instr.pa, Long(0)), pc' = pc + 1,
             mode' = mode, throw' = throw
      PROVE  IInv'
  <2>1. PICK r \in Int : r = Instr.pa /\ 4 <= r /\ r < Window BY <1>1, RunningOperands
  <2>2. PICK v \in Value : v = Long(0) BY <1>2, ValueFacts DEF Value
  <2>3. buf' = Put(buf, base + r, v) BY <1>3, <2>1, <2>2
  <2>4. /\ buf' \in [0 .. size - 1 -> Value]
        /\ \A n \in 0 .. base + 3 : buf'[n] = buf[n]
        /\ \A n \in base + Window .. size - 1 : buf'[n] = buf[n]
    BY <1>1, <2>1, <2>3, WriteInWindow
  <2>5. pc + 1 \in Pcs(c) /\ Owns(c, Running, pc + 1) BY <1>1, <1>2, GoesOn DEF Instr
  <2>6. /\ FramesStand' /\ Window' = Window
        /\ Innermost' = base /\ Size(c, buf, Innermost)' = Window
    BY <1>1, <1>2, <1>3, <2>4, <2>5, SameFrame
  <2>7. RoomKept' BY <1>1, <1>3, <2>6, KeepsRoom
  <2>8. WindowIsCurrent' BY <1>1, <1>3 DEF IInv, WindowIsCurrent
  <2>9. TypeOK'
    <3>1. pc' \in 0 .. Len(c.bc) BY <1>3, <2>5 DEF Pcs
    <3>2. Value' = Value BY <1>1 DEF Value
    <3> QED BY <3>1, <3>2, <1>1, <1>3, <2>4 DEF IInv, TypeOK
  <2>10. AboveIsEmpty'
    <3> SUFFICES ASSUME ~HasTailCalls(c), NEW n \in base + Window .. size - 1
                 PROVE  buf'[n].type = "UNKNOWN"
      BY <1>1, <2>6 DEF AboveIsEmpty
    <3> QED BY <1>1, <2>4, NothingAbove
  <2> QED BY <2>6, <2>7, <2>8, <2>9, <2>10 DEF IInv
<1>4. ASSUME Throw(String), buf' = buf, pc' = pc
      PROVE  IInv'
  <2>1. PICK e \in Value : e = String BY <1>2, ValueFacts DEF Value
  <2>2. Throw(e) BY <1>4, <2>1
  <2>3. /\ buf' \in [0 .. size - 1 -> Value]
        /\ \A n \in 0 .. base + 3 : buf'[n] = buf[n]
        /\ \A n \in base + Window .. size - 1 : buf'[n] = buf[n]
    BY <1>2, <1>4
  <2> QED BY <1>1, <1>4, <2>2, <2>3, ThrowKeeps
<1> QED BY <1>3, <1>4 DEF Divide

LEMMA JumpKeeps ==
  ASSUME IInv, Jump
  PROVE  IInv'
<1>1. /\ mode = "execute" /\ Instr.op = "JMP" /\ pc' \in Instr.to
      /\ c' = c /\ size' = size /\ base' = base /\ regs' = regs /\ block' = block
      /\ calls' = calls /\ buf' = buf /\ mode' = mode /\ throw' = throw
  BY DEF Jump, At
<1>2. /\ base \in Nat /\ size \in Nat /\ buf \in [0 .. size - 1 -> Value]
  BY <1>1, RunningFacts
<1>3. pc' \in Pcs(c) /\ Owns(c, Running, pc') /\ pc' \in Entries(c)
  BY <1>1, RunningOperands
<1>4. /\ FramesStand' /\ Innermost' = base /\ Size(c, buf, Innermost)' = Window
  BY <1>1, <1>2, <1>3, SameFrame
<1>5. \A g : ~IsPreparing(c', pc', g)
  <2>1. pc' \in Int BY <1>3 DEF Pcs
  <2> QED BY <2>1, <1>1, <1>3, EntryPreparesNothing
<1>6. RoomKept' BY <1>5, NeedsNoRoom
<1>7. WindowIsCurrent' BY <1>1 DEF IInv, WindowIsCurrent
<1>8. TypeOK'
  <2>1. pc' \in 0 .. Len(c.bc) BY <1>3 DEF Pcs
  <2>2. Value' = Value BY <1>1 DEF Value
  <2> QED BY <2>1, <2>2, <1>1 DEF IInv, TypeOK
<1>9. AboveIsEmpty'
  <2> SUFFICES ASSUME ~HasTailCalls(c), NEW n \in base + Window .. size - 1
               PROVE  buf'[n].type = "UNKNOWN"
    BY <1>1, <1>4 DEF AboveIsEmpty
  <2> QED BY <1>1, NothingAbove
<1> QED BY <1>4, <1>6, <1>7, <1>8, <1>9 DEF IInv

\* CALL_NEW goes on with room for the callee's frame and a slot left, whether
\* the stack had it or has grown.
MakesRoom ==
  /\ size' \in Nat /\ size <= size' /\ base + Window + fun(Instr.f).stack_size < size'
  /\ buf' \in [0 .. size' - 1 -> Value]
  /\ \A n \in 0 .. size - 1 : buf'[n] = buf[n]
  /\ \A n \in size .. size' - 1 : buf'[n] = Unknown
  /\ block' \in Nat /\ regs' = [block |-> block', base |-> base] /\ pc' = pc + 1
  /\ c' = c /\ base' = base /\ mode' = mode /\ throw' = throw /\ calls' = calls

LEMMA RoomMade ==
  ASSUME IInv, At("CALL_NEW"), MakesRoom
  PROVE  IInv'
<1>0. mode = "execute" /\ Instr.op = "CALL_NEW" BY DEF At
<1>1. /\ IsProgram(c) /\ IsCode(c, Running) /\ Owns(c, Running, pc) /\ pc \in Pcs(c)
      /\ pc \in Nat /\ base \in Nat /\ size \in Nat /\ Window \in Nat /\ Window >= 4
      /\ base + Window <= size
  BY <1>0, RunningFacts
<1>2. PICK t \in Nat : t = size' /\ size <= t BY DEF MakesRoom
<1>grown. size <= t BY <1>2
<1>3. /\ \A n \in 0 .. size - 1 : buf'[n] = buf[n]
      /\ \A n \in size .. t - 1 : buf'[n] = Unknown
  BY <1>2 DEF MakesRoom
<1>4. /\ c' = c /\ base' = base /\ mode' = mode /\ throw' = throw /\ calls' = calls
      /\ pc' = pc + 1
  BY DEF MakesRoom
<1>5. \A n \in 0 .. base + 3 : buf'[n] = buf[n] BY <1>1, <1>3
<1>6. pc + 1 \in Pcs(c) /\ Owns(c, Running, pc + 1) BY <1>0, <1>1, GoesOn DEF Instr
<1>7. /\ FramesStand' /\ Window' = Window
      /\ Innermost' = base /\ Size(c, buf, Innermost)' = Window
  BY <1>0, <1>1, <1>2, <1>4, <1>5, <1>6, SameFrame
<1>8. RoomKept'
  <2> SUFFICES ASSUME NEW g \in DOMAIN c.fun, IsPreparing(c, pc + 1, g)
               PROVE  base + Window + fun(g).stack_size < size'
    BY <1>4, <1>7 DEF RoomKept, fun
  <2>1. pc \in Int BY <1>1
  <2>2. g = Instr.f BY <1>0, <2>1, PreparedBefore DEF Instr
  <2> QED BY <2>2 DEF MakesRoom
<1>9. WindowIsCurrent' BY DEF WindowIsCurrent, MakesRoom
<1>10. TypeOK'
  <2>1. pc' \in 0 .. Len(c.bc) BY <1>4, <1>6 DEF Pcs
  <2>2. Value' = Value BY <1>4 DEF Value
  <2>3. base \in 0 .. t - 1 BY <1>1, <1>grown
  <2>4. regs' \in [block : Nat, base : Nat] /\ block' \in Nat BY <1>1 DEF MakesRoom
  <2>5. throw' \in [pc : Nat, base : 0 .. t - 1, e : Value]
    <3>1. throw \in [pc : Nat, base : 0 .. size - 1, e : Value] BY DEF IInv, TypeOK
    <3>2. 0 .. size - 1 \subseteq 0 .. t - 1 BY <1>1, <1>grown
    <3> QED BY <3>1, <3>2, <1>4
  <2>6. buf' \in [0 .. size' - 1 -> Value] BY DEF MakesRoom
  <2> QED BY <2>1, <2>2, <2>3, <2>4, <2>5, <2>6, <1>2, <1>4 DEF IInv, TypeOK
<1>11. AboveIsEmpty'
  <2> SUFFICES ASSUME ~HasTailCalls(c), NEW n \in base + Window .. t - 1
               PROVE  buf'[n].type = "UNKNOWN"
    BY <1>2, <1>4, <1>7 DEF AboveIsEmpty
  <2>1. CASE n < size
    <3>1. n \in base + Window .. size - 1 /\ buf'[n] = buf[n] BY <2>1, <1>1, <1>3
    <3> QED BY <3>1, <1>0, NothingAbove
  <2>2. CASE ~(n < size)
    <3>1. n \in size .. t - 1 BY <2>2, <1>1, <1>grown
    <3> QED BY <3>1, <1>3 DEF Unknown
  <2> QED BY <2>1, <2>2
<1> QED BY <1>7, <1>8, <1>9, <1>10, <1>11 DEF IInv

LEMMA CallNewKeeps ==
  ASSUME IInv, CallNew
  PROVE  IInv'
<1>1. /\ mode = "execute" /\ Instr.op = "CALL_NEW" /\ At("CALL_NEW")
      /\ c' = c /\ base' = base /\ calls' = calls
  BY DEF CallNew, At
<1>2. /\ IsProgram(c) /\ base \in Nat /\ size \in Nat /\ Window \in Nat
      /\ buf \in [0 .. size - 1 -> Value]
  BY <1>1, RunningFacts
<1>3. PICK f \in DOMAIN c.fun : f = Instr.f BY <1>1, RunningOperands
<1>4. PICK w \in Nat : w = fun(f).stack_size BY <1>2, WindowSize DEF fun
<1>5. block \in Nat BY DEF IInv, TypeOK
<1>6. CASE /\ HasRoom(f) /\ pc' = pc + 1 /\ WindowInto(block)
           /\ UNCHANGED <<buf, size, block, mode, throw>>
  <2>1. base + Window + fun(Instr.f).stack_size < size' BY <1>3, <1>6 DEF HasRoom
  <2>2. regs' = [block |-> block', base |-> base] BY <1>6 DEF WindowInto
  <2>3. size <= size' BY <1>2, <1>6
  <2>4. \A n \in size .. size' - 1 : buf'[n] = Unknown BY <1>2, <1>6
  <2>5. MakesRoom BY <2>1, <2>2, <2>3, <2>4, <1>1, <1>2, <1>5, <1>6 DEF MakesRoom
  <2> QED BY <2>5, <1>1, RoomMade
<1>7. CASE /\ ~HasRoom(f) /\ (\E s \in Doubled(f) : Grow(f, s)) /\ pc' = pc + 1
           /\ WindowInto(block + 1) /\ UNCHANGED <<mode, throw>>
  <2>1. PICK s \in Doubled(f) : Grow(f, s) BY <1>7
  <2>2. s \in Int /\ s > base + Window + w BY <2>1, <1>2, <1>4 DEF Doubled
  <2>3. size <= base + Window + w BY <1>2, <1>4, <1>7 DEF HasRoom
  <2>4. size' = s /\ size' \in Nat /\ size <= size' BY <2>1, <2>2, <2>3, <1>2 DEF Grow
  <2>5. base + Window + fun(Instr.f).stack_size < size' BY <1>2, <1>3, <1>4, <2>2, <2>4
  <2>6. /\ block' = block + 1
        /\ buf' = [n \in 0 .. s - 1 |-> IF n < size THEN buf[n] ELSE Unknown]
    BY <2>1 DEF Grow
  <2>7. Unknown \in Value BY <1>2, ValueFacts DEF Value
  <2>8. buf' \in [0 .. size' - 1 -> Value]
    <3>1. \A n \in 0 .. s - 1 : (IF n < size THEN buf[n] ELSE Unknown) \in Value
      BY <1>2, <2>2, <2>7
    <3> QED BY <3>1, <2>4, <2>6
  <2>9. \A n \in 0 .. size - 1 : buf'[n] = buf[n] BY <1>2, <2>4, <2>6
  <2>10. \A n \in size .. size' - 1 : buf'[n] = Unknown BY <1>2, <2>4, <2>6
  <2>11. regs' = [block |-> block', base |-> base] BY <1>7, <2>6 DEF WindowInto
  <2>12. block' \in Nat BY <1>5, <2>6
  <2>13. MakesRoom
    BY <1>1, <1>7, <2>4, <2>5, <2>8, <2>9, <2>10, <2>11, <2>12 DEF MakesRoom
  <2> QED BY <1>1, <2>13, RoomMade
<1>8. CASE Throw(String) /\ UNCHANGED <<buf, size, pc, regs, block>>
  <2>1. PICK e \in Value : e = String BY <1>2, ValueFacts DEF Value
  <2>2. Throw(e) BY <1>8, <2>1
  <2>3. /\ buf' \in [0 .. size - 1 -> Value]
        /\ \A n \in 0 .. base + 3 : buf'[n] = buf[n]
        /\ \A n \in base + Window .. size - 1 : buf'[n] = buf[n]
    BY <1>2, <1>8
  <2> QED BY <1>1, <1>8, <2>2, <2>3, ThrowKeeps
<1> QED BY <1>3, <1>6, <1>7, <1>8 DEF CallNew

LEMMA CallSetKeeps ==
  ASSUME IInv, CallSet
  PROVE  IInv'
<1>1. /\ mode = "execute" /\ Instr.op = "CALL_SET" /\ pc' = pc + 1
      /\ buf' = Put(buf, base + Window + Instr.pa, R(Instr.pb))
      /\ c' = c /\ size' = size /\ base' = base /\ regs' = regs /\ block' = block
      /\ mode' = mode /\ throw' = throw /\ calls' = calls
  BY DEF CallSet, At
<1>2. /\ IsProgram(c) /\ IsCode(c, Running) /\ Owns(c, Running, pc) /\ pc \in Pcs(c)
      /\ pc \in Nat /\ base \in Nat /\ size \in Nat /\ Window \in Nat /\ Window >= 4
      /\ base + Window <= size /\ buf \in [0 .. size - 1 -> Value] /\ CallGoesOn(c, pc)
  BY <1>1, RunningFacts
<1>3. PICK f \in DOMAIN c.fun : f = Instr.f /\ IsPreparing(c, pc, f)
  BY <1>1, RunningOperands DEF Passing
<1>4. PICK r \in Int : r = Instr.pa /\ 4 <= r /\ r <= 3 + fun(f).arg_len
  BY <1>1, <1>3, RunningOperands
<1>5. PICK i \in Int : i = Instr.pb /\ 4 <= i /\ i < Window BY <1>1, RunningOperands
<1>6. /\ fun(f).arg_len \in Nat /\ fun(f).stack_size \in Nat
      /\ fun(f).stack_size >= 4 + fun(f).arg_len
  BY <1>2, WindowSize DEF fun
<1>7. base + Window + fun(f).stack_size < size
  BY <1>1, <1>3, RunningOperands DEF Passing
<1>8. base + Window + r \in base + Window .. size - 1
  <2>1. PICK a \in Nat, w \in Nat :
          /\ a = fun(f).arg_len /\ w = fun(f).stack_size /\ w >= 4 + a
          /\ base + Window + w < size /\ r <= 3 + a
    BY <1>4, <1>6, <1>7
  <2>2. w >= 4 + a /\ base + Window + w < size /\ 4 <= r /\ r <= 3 + a BY <2>1, <1>4
  <2> QED BY <2>2, <1>2
<1>9. R(i) \in Value BY <1>2, <1>5 DEF R
<1>10. /\ buf' \in [0 .. size - 1 -> Value]
       /\ \A n \in 0 .. size - 1 : n # base + Window + r => buf'[n] = buf[n]
  <2>1. base + Window + r \in 0 .. size - 1 BY <1>2, <1>8
  <2>2. buf' = Put(buf, base + Window + r, R(i)) BY <1>1, <1>4, <1>5
  <2>3. /\ buf' \in [0 .. size - 1 -> Value]
        /\ \A n \in 0 .. size - 1 : buf'[n] = IF n = base + Window + r THEN R(i) ELSE buf[n]
    BY <2>1, <2>2, <1>2, <1>9 DEF Put, Stored
  <2> QED BY <2>3
<1>11. \A n \in 0 .. base + 3 : buf'[n] = buf[n] BY <1>2, <1>4, <1>8, <1>10
<1>12. pc + 1 \in Pcs(c) /\ Owns(c, Running, pc + 1) BY <1>1, <1>2, GoesOn DEF Instr
<1>13. /\ FramesStand' /\ Window' = Window
       /\ Innermost' = base /\ Size(c, buf, Innermost)' = Window
  BY <1>1, <1>2, <1>11, <1>12, SameFrame
<1>14. RoomKept' BY <1>1, <1>13, KeepsRoom
<1>15. WindowIsCurrent' BY <1>1 DEF IInv, WindowIsCurrent
<1>16. TypeOK'
  <2>1. pc' \in 0 .. Len(c.bc) BY <1>1, <1>12 DEF Pcs
  <2>2. Value' = Value BY <1>1 DEF Value
  <2> QED BY <2>1, <2>2, <1>1, <1>10 DEF IInv, TypeOK
<1>17. AboveIsEmpty'
  <2> SUFFICES ASSUME ~HasTailCalls(c), NEW n \in base + Window .. size - 1,
                      buf'[n].type # "UNKNOWN"
               PROVE  \E g \in DOMAIN c.fun :
                        IsPreparing(c, pc + 1, g) /\ n \in ArgumentSlots(g)'
    BY <1>1, <1>13 DEF AboveIsEmpty, Alive
  <2>1. IsPreparing(c, pc + 1, f) BY <1>1, <1>2, <1>3 DEF CallGoesOn, Instr
  <2>2. CASE n = base + Window + r
    <3>1. PICK a \in Nat, w \in Nat : a = fun(f).arg_len /\ w = base + Window
      BY <1>2, <1>6
    <3>2. n = w + r /\ 4 <= r /\ r <= 3 + a BY <2>2, <3>1, <1>4
    <3>3. n \in w + 4 .. w + 3 + a BY <3>2
    <3>4. n \in base + Window + 4 .. base + Window + 3 + fun(f).arg_len BY <3>1, <3>3
    <3>5. n \in ArgumentSlots(f)' BY <3>4, <1>1, <1>13 DEF ArgumentSlots, fun
    <3> QED BY <2>1, <3>5
  <2>3. CASE n # base + Window + r
    <3>1. buf'[n] = buf[n] BY <2>3, <1>2, <1>10
    <3>2. PICK g \in DOMAIN c.fun : IsPreparing(c, pc, g) /\ n \in ArgumentSlots(g)
      BY <1>1, <3>1, RunningFacts DEF IInv, AboveIsEmpty, Alive, Innermost
    <3>3. IsPreparing(c, pc + 1, g) BY <1>1, <1>2, <3>2 DEF CallGoesOn, Instr
    <3>4. n \in ArgumentSlots(g)' BY <1>1, <1>13, <3>2 DEF ArgumentSlots, fun
    <3> QED BY <3>3, <3>4
  <2> QED BY <2>2, <2>3
<1> QED BY <1>13, <1>14, <1>15, <1>16, <1>17 DEF IInv

\* What a call finds above the window is its arguments.
LEMMA OnlyArgumentsAbove ==
  ASSUME IInv, mode = "execute", ~HasTailCalls(c), Instr.op = "CALL",
         NEW n \in base + Window .. size - 1, buf[n].type # "UNKNOWN"
  PROVE  base + Window + 4 <= n /\ n < base + Window + fun(Instr.f).stack_size
<1>1. /\ IsProgram(c) /\ pc \in Nat /\ base \in Nat /\ Window \in Nat
      /\ Size(c, buf, base) = Window
  BY RunningFacts
<1>2. PICK g \in DOMAIN c.fun : IsPreparing(c, pc, g) /\ n \in ArgumentSlots(g)
  BY <1>1 DEF IInv, AboveIsEmpty, Alive, Innermost
<1>3. IsPreparing(c, pc, Instr.f) BY RunningOperands DEF Passing
<1>4. g = Instr.f BY <1>1, <1>2, <1>3, OneCallPrepared
<1>5. PICK a \in Nat, w \in Nat : a = fun(g).arg_len /\ w = fun(g).stack_size /\ w >= 4 + a
  BY <1>1, WindowSize DEF fun
<1>6. n \in base + Window + 4 .. base + Window + 3 + a BY <1>2, <1>5 DEF ArgumentSlots
<1>7. w >= 4 + a BY <1>5
<1>8. base + Window + 4 <= n /\ n < base + Window + w BY <1>1, <1>6, <1>7
<1> QED BY <1>4, <1>5, <1>8

LEMMA CallKeeps ==
  ASSUME IInv, Call
  PROVE  IInv'
<1>1. /\ mode = "execute" /\ Instr.op = "CALL" /\ ~fun(Instr.f).buildin
      /\ buf' = WithHeader(Instr.f, Instr.pa) /\ base' = base + Window
      /\ pc' = fun(Instr.f).addr /\ regs' = [block |-> block, base |-> base']
      /\ calls' = Append(calls, base')
      /\ c' = c /\ size' = size /\ block' = block /\ mode' = mode /\ throw' = throw
  BY DEF Call, At, CalleeBase
<1>2. /\ IsProgram(c) /\ Owns(c, Running, pc) /\ pc \in Pcs(c) /\ pc \in Nat
      /\ Running = buf[base].v /\ Size(c, buf, base) = Window
      /\ FrameChain(c, buf, size, calls) /\ Top(calls) = base
      /\ buf \in [0 .. size - 1 -> Value]
  BY <1>1, RunningFacts
<1>3. /\ base \in Nat /\ size \in Nat /\ Window \in Nat /\ Window >= 4
      /\ base + Window <= size
  BY <1>1, RunningFacts
<1>4. PICK f \in DOMAIN c.fun : f = Instr.f BY <1>1, RunningOperands DEF Passing
<1>5. IsCode(c, f) BY <1>1, <1>4 DEF IsCode, fun
<1>6. PICK r \in Int : r = Instr.pa BY <1>1, RunningOperands
<1>7. PICK w \in Nat : w = c.fun[f].stack_size /\ w >= 4
  BY <1>2, WindowSize
<1>8. base + Window + w < size /\ w >= 4
  BY <1>1, <1>4, <1>7, RunningOperands DEF Passing, fun
<1>9. PICK n \in Nat : n = base + Window BY <1>3
<1>10. n + w < size /\ n > base + 3 BY <1>3, <1>8, <1>9
<1>11. /\ buf'[n] = Function(f) /\ buf'[n + 1] = Long(r)
       /\ buf'[n + 2] = Long(pc + 1) /\ buf'[n + 3] = Long(base)
       /\ \A i \in 0 .. size - 1 : i \notin n .. n + 3 => buf'[i] = buf[i]
       /\ buf' = [i \in 0 .. size - 1 |-> buf'[i]]
  <2> DEFINE d == [i \in n .. n + 3 |-> Header(f, r, pc + 1)[i - base - Window + 1]]
  <2>0. n .. n + 3 \subseteq 0 .. size - 1 BY <1>3, <1>8, <1>10
  <2>1. buf' = [i \in 0 .. size - 1 |->
                 IF i \in n .. n + 3 THEN Header(f, r, pc + 1)[i - base - Window + 1]
                 ELSE buf[i]]
    <3>1. buf' = Stored(buf, d) BY <1>1, <1>4, <1>6, <1>9 DEF WithHeader
    <3>2. DOMAIN d = n .. n + 3 /\ DOMAIN buf = 0 .. size - 1 BY <1>2
    <3>3. DOMAIN d \subseteq DOMAIN buf BY <2>0, <3>2
    <3> HIDE DEF d
    <3>4. buf' = [i \in 0 .. size - 1 |-> IF i \in n .. n + 3 THEN d[i] ELSE buf[i]]
      BY <3>1, <3>2, <3>3 DEF Stored
    <3> QED BY <3>4 DEF d
  <2>2. n \in 0 .. size - 1 /\ n + 1 \in 0 .. size - 1 /\ n + 2 \in 0 .. size - 1
        /\ n + 3 \in 0 .. size - 1
    BY <1>3, <1>8, <1>10
  <2>3. n - base - Window + 1 = 1 /\ n + 1 - base - Window + 1 = 2
        /\ n + 2 - base - Window + 1 = 3 /\ n + 3 - base - Window + 1 = 4
    BY <1>3, <1>9
  <2> DEFINE H == Header(f, r, pc + 1)
  <2>4. H[1] = Function(f) /\ H[2] = Long(r) /\ H[3] = Long(pc + 1) /\ H[4] = Long(base)
    BY DEF Header
  <2> HIDE DEF H
  <2>5. n \in n .. n + 3 /\ n + 1 \in n .. n + 3 /\ n + 2 \in n .. n + 3 /\ n + 3 \in n .. n + 3
    OBVIOUS
  <2>x. \A i \in n .. n + 3 : buf'[i] = H[i - base - Window + 1]
    BY <2>1, <1>3, <1>8, <1>10 DEF H
  <2>6. buf'[n] = Function(f)
    <3>1. buf'[n] = H[n - base - Window + 1] BY <2>5, <2>x
    <3> QED BY <3>1, <2>3, <2>4
  <2>7. buf'[n + 1] = Long(r)
    <3>1. PICK j \in Int : j = n + 1 OBVIOUS
    <3>2. j \in n .. n + 3 /\ j - base - Window + 1 = 2 BY <3>1, <1>3, <1>9
    <3>3. buf'[j] = H[2] BY <3>2, <2>x
    <3> QED BY <3>1, <3>3, <2>4
  <2>8. buf'[n + 2] = Long(pc + 1)
    <3>1. PICK j \in Int : j = n + 2 OBVIOUS
    <3>2. j \in n .. n + 3 /\ j - base - Window + 1 = 3 BY <3>1, <1>3, <1>9
    <3>3. buf'[j] = H[3] BY <3>2, <2>x
    <3> QED BY <3>1, <3>3, <2>4
  <2>9. buf'[n + 3] = Long(base)
    <3>1. PICK j \in Int : j = n + 3 OBVIOUS
    <3>2. j \in n .. n + 3 /\ j - base - Window + 1 = 4 BY <3>1, <1>3, <1>9
    <3>3. buf'[j] = H[4] BY <3>2, <2>x
    <3> QED BY <3>1, <3>3, <2>4
  <2>10. \A i \in 0 .. size - 1 : i \notin n .. n + 3 => buf'[i] = buf[i] BY <2>1
  <2>11. buf' = [i \in 0 .. size - 1 |-> buf'[i]] BY <2>1
  <2> QED BY <2>6, <2>7, <2>8, <2>9, <2>10, <2>11
<1>12. buf' \in [0 .. size - 1 -> Value]
  <2>1. Function(f) \in Value /\ Long(r) \in Value /\ Long(pc + 1) \in Value
        /\ Long(base) \in Value
    BY <1>2, <1>3, ValueFacts DEF Value
  <2>2. ASSUME NEW i \in 0 .. size - 1 PROVE buf'[i] \in Value
    <3>1. i = n \/ i = n + 1 \/ i = n + 2 \/ i = n + 3 \/ i \notin n .. n + 3 OBVIOUS
    <3> QED BY <3>1, <2>1, <1>2, <1>11
  <2> QED BY <2>2, <1>11
<1>13. /\ FrameChain(c, buf', size, Append(calls, n)) /\ Top(Append(calls, n)) = n
       /\ Size(c, buf', n) = w
  <2>1. \A i \in 0 .. base + 3 : buf'[i] = buf[i] BY <1>3, <1>8, <1>10, <1>11
  <2>2. FrameChain(c, buf', size, calls) BY <2>1, <1>2, <1>3, ChainKept
  <2>3. Size(c, buf', n) = w BY <1>7, <1>11 DEF Size, Function
  <2>4. IsFrame(c, buf', size, n)
    BY <1>3, <1>5, <1>10, <1>11, <2>3 DEF IsFrame, Function, Long
  <2>5. buf'[base] = buf[base] BY <2>1, <1>3
  <2>6. IsCalledFrom(c, buf', base, n)
    <3>1. n = base + Size(c, buf', base) BY <2>5, <1>2, <1>9 DEF Size
    <3>2. buf'[n + 2].v = pc + 1 /\ buf'[n + 1].v = r /\ buf'[n + 3].v = base
      BY <1>11 DEF Long
    <3>3. buf'[n + 2].v - 1 = pc /\ pc + 1 \in Nat BY <3>2, <1>2
    <3>4. Owns(c, buf'[base].v, pc) /\ pc \in Pcs(c) BY <2>5, <1>2
    <3>5. c.bc[pc + 1].op = "CALL" /\ c.bc[pc + 1].pa = r BY <1>1, <1>6 DEF Instr
    <3> QED BY <3>1, <3>2, <3>3, <3>4, <3>5 DEF IsCalledFrom
  <2> QED BY <2>2, <2>3, <2>4, <2>6, <1>2, <1>3, ChainPushed
<1>14. c.fun[f].addr \in Pcs(c) /\ Owns(c, f, c.fun[f].addr) BY <1>2, <1>5, CodeRange
<1>15. /\ base' = n /\ pc' = c.fun[f].addr /\ calls' = Append(calls, n)
       /\ Innermost' = n /\ InnermostPc' = pc' /\ Size(c, buf, Innermost)' = w
  BY <1>1, <1>4, <1>9, <1>13 DEF Innermost, InnermostPc, fun
<1>16. FramesStand'
  <2>1. FrameChain(c, buf, size, calls)' BY <1>1, <1>13, <1>15
  <2>2. (Top(calls) = Innermost)' BY <1>13, <1>15
  <2>3. (InnermostPc \in Pcs(c) /\ Owns(c, buf[Innermost].v, InnermostPc))'
    BY <1>1, <1>11, <1>14, <1>15 DEF Function
  <2> QED BY <2>1, <2>2, <2>3, <1>1 DEF FramesStand
<1>17. \A g : ~IsPreparing(c', pc', g)
  <2>1. c.fun[f].addr \in Entries(c) BY EntryKinds
  <2>2. c.fun[f].addr \in Int BY <1>14 DEF Pcs
  <2> QED BY <2>1, <2>2, <1>1, <1>15, EntryPreparesNothing
<1>18. RoomKept' BY <1>17, NeedsNoRoom
<1>19. WindowIsCurrent' BY <1>1 DEF WindowIsCurrent
<1>20. TypeOK'
  <2>1. pc' \in 0 .. Len(c.bc) BY <1>14, <1>15 DEF Pcs
  <2>2. Value' = Value BY <1>1 DEF Value
  <2>3. n \in 0 .. size - 1 BY <1>3, <1>8, <1>10
  <2>4. regs' \in [block : Nat, base : Nat] BY <1>1, <1>15 DEF IInv, TypeOK
  <2>5. calls' \in Seq(Nat) BY <1>15 DEF IInv, TypeOK
  <2> QED BY <2>1, <2>2, <2>3, <2>4, <2>5, <1>1, <1>12, <1>15 DEF IInv, TypeOK
<1>21. AboveIsEmpty'
  <2> SUFFICES ASSUME ~HasTailCalls(c), NEW i \in n + w .. size - 1
               PROVE  buf'[i].type = "UNKNOWN"
    BY <1>1, <1>15 DEF AboveIsEmpty
  <2>1. i \in 0 .. size - 1 /\ i \notin n .. n + 3 /\ i \in base + Window .. size - 1
    BY <1>3, <1>8, <1>9
  <2>2. buf'[i] = buf[i] BY <2>1, <1>11
  <2>3. CASE buf[i].type # "UNKNOWN"
    <3>1. i < base + Window + fun(Instr.f).stack_size
      BY <2>1, <2>3, <1>1, OnlyArgumentsAbove
    <3>2. i < base + Window + w BY <3>1, <1>4, <1>7 DEF fun
    <3> QED BY <3>2, <1>3, <1>9
  <2> QED BY <2>2, <2>3
<1> QED BY <1>16, <1>18, <1>19, <1>20, <1>21 DEF IInv

LEMMA CallBuildinKeeps ==
  ASSUME IInv, CallBuildin
  PROVE  IInv'
<1>1. /\ mode = "execute" /\ Instr.op = "CALL" /\ pc' = pc + 1
      /\ c' = c /\ size' = size /\ base' = base /\ regs' = regs /\ block' = block
      /\ mode' = mode /\ throw' = throw /\ calls' = calls
  BY DEF CallBuildin, At
<1>2. /\ IsProgram(c) /\ IsCode(c, Running) /\ Owns(c, Running, pc) /\ pc \in Pcs(c)
      /\ pc \in Nat /\ buf \in [0 .. size - 1 -> Value]
  BY <1>1, RunningFacts
<1>3. /\ base \in Nat /\ size \in Nat /\ Window \in Nat /\ Window >= 4
      /\ base + Window <= size
  BY <1>1, RunningFacts
<1>4. PICK f \in DOMAIN c.fun : f = Instr.f BY <1>1, RunningOperands DEF Passing
<1>5. PICK r \in Int : r = Instr.pa /\ 4 <= r /\ r < Window BY <1>1, RunningOperands
<1>6. PICK w \in Nat : w = fun(f).stack_size BY <1>2, WindowSize DEF fun
<1>7. Unknown \in Value /\ Long(0) \in Value /\ String \in Value
  BY <1>2, ValueFacts DEF Value
<1>8. PICK v \in Value : buf' = Put(Freed(base + Window, base + Window + w - 1), base + r, v)
  BY <1>4, <1>5, <1>6, <1>7 DEF CallBuildin
<1>9. /\ buf' \in [0 .. size - 1 -> Value]
      /\ \A n \in 0 .. size - 1 :
           buf'[n] = IF n = base + r THEN v
                     ELSE IF n \in base + Window .. base + Window + w - 1 THEN Unknown
                     ELSE buf[n]
  <2>1. base + Window + w < size
    BY <1>1, <1>4, <1>6, RunningOperands DEF Passing
  <2>2. base + Window .. base + Window + w - 1 \subseteq 0 .. size - 1 BY <2>1, <1>3
  <2>3. 4 <= r /\ r < Window BY <1>5
  <2>4. base + r \in 0 .. size - 1 BY <2>3, <1>3
  <2> DEFINE b == Freed(base + Window, base + Window + w - 1)
  <2>5. b = [n \in 0 .. size - 1 |->
               IF n \in base + Window .. base + Window + w - 1 THEN Unknown ELSE buf[n]]
    <3>1. DOMAIN buf = 0 .. size - 1 BY <1>2
    <3> QED BY <3>1, <2>2 DEF Freed, Stored
  <2>6. b \in [0 .. size - 1 -> Value] BY <2>5, <1>2, <1>7
  <2> HIDE DEF b
  <2>7. /\ buf' \in [0 .. size - 1 -> Value]
        /\ \A n \in 0 .. size - 1 : buf'[n] = IF n = base + r THEN v ELSE b[n]
    <3>1. buf' = Put(b, base + r, v) BY <1>8 DEF b
    <3> QED BY <3>1, <2>4, <2>6 DEF Put, Stored
  <2> QED BY <2>5, <2>7
<1>10. 4 <= r /\ r < Window BY <1>5
<1>12. \A n \in 0 .. base + 3 : buf'[n] = buf[n]
  <2> TAKE n \in 0 .. base + 3
  <2>1. n \in 0 .. size - 1 /\ n # base + r /\ n \notin base + Window .. base + Window + w - 1
    BY <1>3, <1>10
  <2> QED BY <2>1, <1>9
<1>13. pc + 1 \in Pcs(c) /\ Owns(c, Running, pc + 1) BY <1>1, <1>2, GoesOn DEF Instr
<1>14. /\ FramesStand' /\ Window' = Window
       /\ Innermost' = base /\ Size(c, buf, Innermost)' = Window
  BY <1>1, <1>3, <1>12, <1>13, SameFrame
<1>15. RoomKept' BY <1>1, <1>14, KeepsRoom
<1>16. WindowIsCurrent' BY <1>1 DEF IInv, WindowIsCurrent
<1>17. TypeOK'
  <2>1. pc' \in 0 .. Len(c.bc) BY <1>1, <1>13 DEF Pcs
  <2>2. Value' = Value BY <1>1 DEF Value
  <2> QED BY <2>1, <2>2, <1>1, <1>9 DEF IInv, TypeOK
<1>18. AboveIsEmpty'
  <2> SUFFICES ASSUME ~HasTailCalls(c), NEW n \in base + Window .. size - 1
               PROVE  buf'[n].type = "UNKNOWN"
    BY <1>1, <1>14 DEF AboveIsEmpty
  <2>1. n \in 0 .. size - 1 /\ n # base + r BY <1>3, <1>10
  <2>2. CASE n \in base + Window .. base + Window + w - 1 BY <2>1, <2>2, <1>9 DEF Unknown
  <2>3. CASE n \notin base + Window .. base + Window + w - 1
    <3>1. buf'[n] = buf[n] BY <2>1, <2>3, <1>9
    <3>2. ~(n < base + Window + w) BY <2>3, <1>3
    <3> QED BY <3>1, <3>2, <1>1, <1>4, <1>6, OnlyArgumentsAbove
  <2> QED BY <2>2, <2>3
<1> QED BY <1>14, <1>15, <1>16, <1>17, <1>18 DEF IInv

LEMMA TailCallKeeps ==
  ASSUME IInv, TailCall
  PROVE  IInv'
<1>1. /\ mode = "execute" /\ Instr.op = "TAIL_CALL"
      /\ buf' = Reused(Instr.f) /\ pc' = fun(Instr.f).addr
      /\ c' = c /\ size' = size /\ base' = base /\ regs' = regs /\ block' = block
      /\ mode' = mode /\ throw' = throw /\ calls' = calls
  BY DEF TailCall, At
<1>2. /\ IsProgram(c) /\ pc \in Pcs(c) /\ buf \in [0 .. size - 1 -> Value]
      /\ FrameChain(c, buf, size, calls) /\ Top(calls) = base
  BY <1>1, RunningFacts
<1>3. /\ base \in Nat /\ size \in Nat /\ Window \in Nat /\ Window >= 4
      /\ base + Window <= size
  BY <1>1, RunningFacts
<1>4. PICK f \in DOMAIN c.fun : f = Instr.f BY <1>1, RunningOperands DEF Passing
<1>5. IsCode(c, f) BY <1>1, <1>4, RunningOperands DEF IsCode, fun
<1>6. PICK w \in Nat, a \in Nat : w = c.fun[f].stack_size /\ a = c.fun[f].arg_len /\ w >= 4 + a
  BY <1>2, WindowSize
<1>7. base + Window + w < size
  BY <1>1, <1>4, <1>6, RunningOperands DEF Passing, fun
<1>8. w >= 4 + a BY <1>6
<1>9. /\ \A n \in 0 .. size - 1 :
           buf'[n] = IF n = base THEN Function(f)
                     ELSE IF n \in base + 4 .. base + 4 + a THEN buf[n + Window]
                     ELSE IF n \in base + Window + 4 .. base + Window + 4 + a THEN Unknown
                     ELSE buf[n]
      /\ buf' = [n \in 0 .. size - 1 |-> buf'[n]]
  <2>1. PICK last \in Nat, end \in Nat : last = base + 4 + a /\ end = base + Window + 4 + a
    BY <1>3
  <2>2. last < size /\ end < size /\ Window + last = end BY <2>1, <1>3, <1>7, <1>8
  <2>3. /\ base + Window + 4 .. end \subseteq 0 .. size - 1
        /\ base + 4 .. last \subseteq 0 .. size - 1
        /\ base \in 0 .. size - 1
    BY <2>2, <1>3
  <2> DEFINE freed == Freed(base + Window + 4, end)
             down == [n \in base + 4 .. last |-> buf[n + Window]]
             moved == Stored(freed, down)
  <2>4. buf' = Put(moved, base, Function(f))
    BY <2>1, <2>2, <1>1, <1>4, <1>6 DEF Reused, fun
  <2>5. DOMAIN buf = 0 .. size - 1 BY <1>2
  <2>6. freed = [n \in 0 .. size - 1 |->
                   IF n \in base + Window + 4 .. end THEN Unknown ELSE buf[n]]
    BY <2>3, <2>5 DEF Freed, Stored
  <2>7. DOMAIN freed = 0 .. size - 1 /\ DOMAIN down = base + 4 .. last BY <2>6
  <2>8. DOMAIN down \subseteq DOMAIN freed BY <2>3, <2>7
  <2> HIDE DEF freed, down
  <2>9. moved = [n \in 0 .. size - 1 |->
                   IF n \in base + 4 .. last THEN down[n] ELSE freed[n]]
    BY <2>7, <2>8 DEF Stored
  <2>10. DOMAIN moved = 0 .. size - 1 BY <2>9
  <2> HIDE DEF moved
  <2>11. buf' = [n \in 0 .. size - 1 |-> IF n = base THEN Function(f) ELSE moved[n]]
    BY <2>3, <2>4, <2>10 DEF Put, Stored
  <2>12. ASSUME NEW n \in 0 .. size - 1
         PROVE  buf'[n] = IF n = base THEN Function(f)
                          ELSE IF n \in base + 4 .. last THEN buf[n + Window]
                          ELSE IF n \in base + Window + 4 .. end THEN Unknown
                          ELSE buf[n]
    <3>1. n \in base + 4 .. last => down[n] = buf[n + Window] BY DEF down
    <3>2. freed[n] = IF n \in base + Window + 4 .. end THEN Unknown ELSE buf[n] BY <2>6
    <3>3. moved[n] = IF n \in base + 4 .. last THEN down[n] ELSE freed[n] BY <2>9
    <3> QED BY <3>1, <3>2, <3>3, <2>11
  <2>13. buf' = [n \in 0 .. size - 1 |-> buf'[n]] BY <2>11
  <2> QED BY <2>1, <2>12, <2>13
<1>10. buf' \in [0 .. size - 1 -> Value]
  <2>1. Function(f) \in Value /\ Unknown \in Value BY <1>2, ValueFacts DEF Value
  <2>2. ASSUME NEW n \in 0 .. size - 1 PROVE buf'[n] \in Value
    <3>1. CASE n \in base + 4 .. base + 4 + a
      <4>1. n + Window \in 0 .. size - 1 /\ n # base BY <3>1, <1>3, <1>7, <1>8
      <4> QED BY <3>1, <4>1, <1>2, <1>9
    <3>2. CASE n \notin base + 4 .. base + 4 + a BY <3>2, <2>1, <1>2, <1>9
    <3> QED BY <3>1, <3>2
  <2> QED BY <2>2, <1>9
<1>11. /\ buf'[base] = Function(f)
       /\ \A n \in 0 .. base + 3 : n # base => buf'[n] = buf[n]
  <2>1. base \in 0 .. size - 1 BY <1>3
  <2>2. ASSUME NEW n \in 0 .. base + 3, n # base PROVE buf'[n] = buf[n]
    <3>1. n \in 0 .. size - 1 /\ n \notin base + 4 .. base + 4 + a
          /\ n \notin base + Window + 4 .. base + Window + 4 + a
      BY <1>3
    <3> QED BY <2>2, <3>1, <1>9
  <2> QED BY <2>1, <2>2, <1>9
<1>12. FrameChain(c, buf', size, calls)
  <2>1. base + c.fun[f].stack_size <= size BY <1>3, <1>6, <1>7
  <2> QED BY <2>1, <1>2, <1>3, <1>5, <1>11, ChainReused
<1>13. c.fun[f].addr \in Pcs(c) /\ Owns(c, f, c.fun[f].addr) BY <1>2, <1>5, CodeRange
<1>14. pc' = c.fun[f].addr BY <1>1, <1>4 DEF fun
<1>15. FramesStand'
  <2>1. FrameChain(c, buf, size, calls)' BY <1>1, <1>12
  <2>2. (Top(calls) = Innermost)' BY <1>1, <1>2 DEF Innermost
  <2>3. (InnermostPc \in Pcs(c) /\ Owns(c, buf[Innermost].v, InnermostPc))'
    BY <1>1, <1>11, <1>13, <1>14 DEF Function, Innermost, InnermostPc
  <2> QED BY <2>1, <2>2, <2>3, <1>1 DEF FramesStand
<1>16. \A g : ~IsPreparing(c', pc', g)
  <2>1. c.fun[f].addr \in Entries(c) BY EntryKinds
  <2>2. c.fun[f].addr \in Int BY <1>13 DEF Pcs
  <2> QED BY <2>1, <2>2, <1>1, <1>14, EntryPreparesNothing
<1>17. RoomKept' BY <1>16, NeedsNoRoom
<1>18. WindowIsCurrent' BY <1>1 DEF IInv, WindowIsCurrent
<1>19. TypeOK'
  <2>1. pc' \in 0 .. Len(c.bc) BY <1>13, <1>14 DEF Pcs
  <2>2. Value' = Value BY <1>1 DEF Value
  <2> QED BY <2>1, <2>2, <1>1, <1>10 DEF IInv, TypeOK
<1>20. AboveIsEmpty'
  <2>1. HasTailCalls(c) BY <1>1, <1>2 DEF HasTailCalls, Instr
  <2> QED BY <2>1, <1>1 DEF AboveIsEmpty
<1> QED BY <1>15, <1>17, <1>18, <1>19, <1>20 DEF IInv

LEMMA ThrowValueKeeps ==
  ASSUME IInv, ThrowValue
  PROVE  IInv'
<1>1. /\ mode = "execute" /\ Instr.op = "THROW" /\ Throw(R(Instr.pa))
      /\ buf' = Put(buf, base + Instr.pa, Unknown)
      /\ c' = c /\ size' = size /\ base' = base /\ pc' = pc /\ regs' = regs
      /\ block' = block /\ calls' = calls
  BY DEF ThrowValue, At
<1>2. IsProgram(c) /\ buf \in [0 .. size - 1 -> Value] BY <1>1, RunningFacts
<1>3. /\ base \in Nat /\ size \in Nat /\ Window \in Nat /\ base + Window <= size
  BY <1>1, RunningFacts
<1>4. PICK r \in Int : r = Instr.pa /\ 4 <= r /\ r < Window BY <1>1, RunningOperands
<1>5. PICK v \in Value : v = Unknown BY <1>2, ValueFacts DEF Value
<1>6. buf' = Put(buf, base + r, v) BY <1>1, <1>4, <1>5
<1>7. /\ buf' \in [0 .. size - 1 -> Value]
      /\ \A n \in 0 .. base + 3 : buf'[n] = buf[n]
      /\ \A n \in base + Window .. size - 1 : buf'[n] = buf[n]
  BY <1>1, <1>4, <1>6, WriteInWindow
<1>8. PICK e \in Value : e = R(Instr.pa)
  <2>1. 4 <= r /\ r < Window BY <1>4
  <2>2. base + r \in 0 .. size - 1 BY <2>1, <1>3
  <2> QED BY <2>2, <1>2, <1>4 DEF R
<1>9. Throw(e) BY <1>1, <1>8
<1> QED BY <1>1, <1>7, <1>9, ThrowKeeps

\* What a caller finds in the frame it called.
\* The call is at q, the result goes to register r and the caller's window
\* has w slots.
ReturnsTo(p, b, m, n, q, r, w) ==
  /\ w = Size(p, b, m) /\ n = m + w
  /\ b[n + 1].v = r /\ b[n + 2].v = q + 1 /\ b[n + 3].v = m
  /\ q \in Pcs(p) /\ Owns(p, b[m].v, q) /\ p.bc[q + 1].op = "CALL" /\ p.bc[q + 1].pa = r
  /\ q + 1 \in Pcs(p) /\ Owns(p, b[m].v, q + 1)
  /\ \A g : ~IsPreparing(p, q + 1, g)

LEMMA CallerFacts ==
  ASSUME NEW p, IsProgram(p), NEW b, NEW s, NEW m, NEW n, IsFrame(p, b, s, m),
         IsCalledFrom(p, b, m, n)
  PROVE  \E q \in Nat, r \in Nat, w \in Nat :
           ReturnsTo(p, b, m, n, q, r, w) /\ 4 <= r /\ r < w
<1>1. PICK t \in Nat : t = b[n + 2].v BY DEF IsCalledFrom
<1>2. IsCode(p, b[m].v) BY DEF IsFrame
<1>3. PICK q \in Int : q = t - 1 BY <1>1
<1>4. /\ q \in Pcs(p) /\ Owns(p, b[m].v, q) /\ q + 1 = t
      /\ p.bc[q + 1].op = "CALL" /\ b[n + 1].v = p.bc[q + 1].pa
  BY <1>1, <1>3 DEF IsCalledFrom
<1>5. t \in Pcs(p) /\ Owns(p, b[m].v, t) BY <1>2, <1>4, GoesOn
<1>6. InstrWellFormed(p, b[m].v, q) BY <1>2, <1>4, InstrIsWellFormed
<1>7. PICK w \in Nat : w = Size(p, b, m) BY FrameSize
<1>8. PICK r \in Nat : r = b[n + 1].v /\ 4 <= r /\ r < w
  <2>1. b[n + 1].v \in 4 .. w - 1 BY <1>4, <1>6, <1>7, Operands DEF Size
  <2> QED BY <2>1
<1>9. ASSUME NEW g PROVE ~IsPreparing(p, q + 1, g) BY <1>4, PreparedBefore
<1>10. q \in Nat BY <1>4 DEF Pcs
<1>11. n = m + w /\ b[n + 3].v = m BY <1>7 DEF IsCalledFrom
<1>12. ReturnsTo(p, b, m, n, q, r, w)
  BY <1>1, <1>4, <1>5, <1>7, <1>8, <1>9, <1>11 DEF ReturnsTo
<1> QED BY <1>8, <1>10, <1>12

LEMMA RetKeeps ==
  ASSUME IInv, Ret
  PROVE  IInv'
<1>1. /\ mode = "execute" /\ Instr.op = "RET"
      /\ regs' = [block |-> block, base |-> base']
      /\ calls' = SubSeq(calls, 1, Len(calls) - 1)
      /\ c' = c /\ size' = size /\ block' = block /\ throw' = throw
  BY DEF Ret, At
<1>2. /\ IsProgram(c) /\ pc \in Pcs(c) /\ pc \in Nat /\ buf \in [0 .. size - 1 -> Value]
      /\ FrameChain(c, buf, size, calls) /\ Top(calls) = base
      /\ IsFrame(c, buf, size, base) /\ Size(c, buf, base) = Window
  BY <1>1, RunningFacts
<1>3. /\ base \in Nat /\ size \in Nat /\ Window \in Nat /\ Window >= 4
      /\ base + Window <= size
  BY <1>1, RunningFacts
<1>4. R(1) = buf[base + 1] /\ R(2) = buf[base + 2] /\ R(3) = buf[base + 3] BY DEF R
<1>5. Unknown \in Value BY <1>2, ValueFacts DEF Value
<1>6. PICK result \in Value : result = IF Instr.pa = 0 THEN Unknown ELSE R(Instr.pa)
  <2>1. CASE Instr.pa = 0 BY <2>1, <1>5
  <2>2. CASE Instr.pa # 0
    <3>1. PICK r \in Int : r = Instr.pa /\ 0 <= r /\ r < Window BY <1>1, RunningOperands
    <3>2. 0 <= r /\ r < Window BY <3>1
    <3>3. base + r \in 0 .. size - 1 BY <3>2, <1>3
    <3> QED BY <2>2, <3>1, <3>3, <1>2 DEF R
  <2> QED BY <2>1, <2>2
<1>7. /\ FreeFrame \in [0 .. size - 1 -> Value]
      /\ \A n \in 0 .. size - 1 :
           FreeFrame[n] = IF n \in base .. base + Window - 1 THEN Unknown ELSE buf[n]
  <2>0. base .. base + Window - 1 \subseteq 0 .. size - 1 BY <1>3
  <2>1. FreeFrame = [n \in 0 .. size - 1 |->
                       IF n \in base .. base + Window - 1 THEN Unknown ELSE buf[n]]
    <3>1. DOMAIN buf = 0 .. size - 1 BY <1>2
    <3> QED BY <2>0, <3>1 DEF FreeFrame, Freed, Stored
  <2> QED BY <2>1, <1>2, <1>5
<1>8. calls \in Seq(Nat) /\ Len(calls) \in Nat BY <1>2 DEF FrameChain
<1>9. calls' \in Seq(Nat) BY <1>1, <1>8
<1>10. WindowIsCurrent' BY <1>1 DEF WindowIsCurrent
<1>11. throw \in [pc : Nat, base : 0 .. size - 1, e : Value] /\ block \in Nat /\ c \in Programs
  BY DEF IInv, TypeOK
<1>12. Value' = Value BY <1>1 DEF Value
<1>15. PICK to, down, reg :
         /\ to = R(2).v /\ down = R(3).v /\ reg = R(1).v
         /\ base' = IF to >= 0 THEN down ELSE base
         /\ buf' = Put(FreeFrame, (IF to >= 0 THEN down ELSE base) + reg, result)
         /\ \/ to >= 0 /\ pc' = to /\ mode' = mode
            \/ to < 0 /\ pc' = pc + 1 /\ mode' = "died"
  BY <1>6 DEF Ret
<1>13. CASE /\ Len(calls) = 1 /\ base = 0
            /\ buf[1].v = 1 /\ buf[2].v = -1 /\ buf[3].v = -1
  <2>1. reg = 1 /\ to < 0 /\ ~(to >= 0) BY <1>4, <1>13, <1>15
  <2>2. /\ buf' = Put(FreeFrame, base + 1, result) /\ base' = base
        /\ pc' = pc + 1 /\ mode' = "died"
    BY <2>1, <1>15
  <2>3. buf' \in [0 .. size - 1 -> Value]
    <3>1. base + 1 \in 0 .. size - 1 BY <1>3
    <3> QED BY <3>1, <2>2, <1>6, <1>7 DEF Put, Stored
  <2>4. base \in 0 .. size - 1 BY <1>3
  <2>5. pc' \in 0 .. Len(c.bc)
    <3>1. Len(c.bc) \in Nat BY <1>2 DEF IsProgram, WellFormed
    <3> QED BY <3>1, <2>2, <1>2 DEF Pcs
  <2>6. TypeOK' BY <2>2, <2>3, <2>4, <2>5, <1>1, <1>3, <1>9, <1>11, <1>12 DEF TypeOK
  <2> QED BY <2>2, <2>6, <1>10 DEF IInv, FramesStand, RoomKept, AboveIsEmpty, Alive
<1>14. CASE /\ Len(calls) > 1 /\ calls[Len(calls) - 1] \in Nat
            /\ IsFrame(c, buf, size, calls[Len(calls) - 1])
            /\ IsCalledFrom(c, buf, calls[Len(calls) - 1], base)
  <2>1. PICK m \in Nat :
          /\ m = calls[Len(calls) - 1] /\ IsFrame(c, buf, size, m)
          /\ IsCalledFrom(c, buf, m, base)
    BY <1>14
  <2>2. PICK q \in Nat, r \in Nat, w \in Nat :
          ReturnsTo(c, buf, m, base, q, r, w) /\ 4 <= r /\ r < w
    BY <2>1, <1>2, CallerFacts
  <2>3. PICK t \in Nat : t = q + 1 OBVIOUS
  <2>4. base = m + w /\ 4 <= r /\ r < w BY <2>2 DEF ReturnsTo
  <2>5. /\ w = Size(c, buf, m) /\ t \in Pcs(c) /\ Owns(c, buf[m].v, t)
        /\ reg = r /\ to = t /\ down = m /\ t >= 0 /\ ~(t < 0)
        /\ \A g : ~IsPreparing(c, t, g)
    BY <2>2, <2>3, <1>4, <1>15 DEF ReturnsTo
  <2>6. /\ buf' = Put(FreeFrame, m + r, result) /\ base' = m
        /\ pc' = t /\ mode' = mode
    BY <2>5, <1>15
  <2>7. m + r \in 0 .. size - 1 /\ m + r > m + 3 /\ m + r < base BY <2>4, <1>3
  <2>8. /\ buf' \in [0 .. size - 1 -> Value]
        /\ \A n \in 0 .. size - 1 :
             buf'[n] = IF n = m + r THEN result
                       ELSE IF n \in base .. base + Window - 1 THEN Unknown ELSE buf[n]
    <3>1. /\ buf' \in [0 .. size - 1 -> Value]
          /\ \A n \in 0 .. size - 1 : buf'[n] = IF n = m + r THEN result ELSE FreeFrame[n]
      BY <2>6, <2>7, <1>6, <1>7 DEF Put, Stored
    <3> QED BY <3>1, <1>7
  <2>9. ASSUME NEW n \in 0 .. m + 3 PROVE buf'[n] = buf[n]
    <3>1. n \in 0 .. size - 1 /\ n # m + r /\ n \notin base .. base + Window - 1
      BY <2>4, <1>3
    <3> QED BY <3>1, <2>8
  <2>10. FrameChain(c, buf, size, calls') /\ Top(calls') = m
    BY <2>1, <1>1, <1>2, <1>14, ChainPopped
  <2>11. FrameChain(c, buf', size, calls') BY <2>9, <2>10, <1>2, <1>3, ChainKept
  <2>12. buf'[m] = buf[m] BY <2>9
  <2>13. Innermost' = m /\ InnermostPc' = t /\ Size(c, buf, Innermost)' = w
    BY <2>5, <2>6, <2>12, <1>1 DEF Innermost, InnermostPc, Size
  <2>14. FramesStand'
    <3>1. FrameChain(c, buf, size, calls)' BY <2>11, <1>1
    <3>2. (Top(calls) = Innermost)' BY <2>10, <2>13
    <3>3. (InnermostPc \in Pcs(c) /\ Owns(c, buf[Innermost].v, InnermostPc))'
      BY <2>5, <2>12, <2>13, <1>1
    <3> QED BY <3>1, <3>2, <3>3, <2>6, <1>1 DEF FramesStand
  <2>15. RoomKept' BY <2>5, <2>6, <1>1 DEF RoomKept
  <2>16. TypeOK'
    <3>1. m \in 0 .. size - 1 BY <2>4, <1>3
    <3>2. t \in 0 .. Len(c.bc) BY <2>5 DEF Pcs
    <3>3. regs' \in [block : Nat, base : Nat] BY <2>6, <1>1, <1>11
    <3> QED BY <3>1, <3>2, <3>3, <2>6, <2>8, <1>1, <1>3, <1>9, <1>11, <1>12 DEF TypeOK
  <2>17. AboveIsEmpty'
    <3> SUFFICES ASSUME ~HasTailCalls(c), NEW n \in m + w .. size - 1
                 PROVE  buf'[n].type = "UNKNOWN"
      BY <2>13, <1>1 DEF AboveIsEmpty
    <3>1. n \in 0 .. size - 1 /\ n # m + r /\ n \in base .. size - 1 BY <2>4, <1>3
    <3>2. CASE n \in base .. base + Window - 1 BY <3>1, <3>2, <2>8 DEF Unknown
    <3>3. CASE n \notin base .. base + Window - 1
      <4>1. n \in base + Window .. size - 1 BY <3>1, <3>3, <1>3
      <4>2. buf[n].type = "UNKNOWN" BY <4>1, <1>1, NothingAbove
      <4> QED BY <4>2, <3>1, <3>3, <2>8
    <3> QED BY <3>2, <3>3
  <2> QED BY <2>14, <2>15, <2>16, <2>17, <1>10 DEF IInv
<1> QED BY <1>2, <1>13, <1>14, TopFrame

-----------------------------------------------------------------------------
(* One lemma per step of lgx_co_throw.                                     *)

\* What the invariant says of the frame an exception comes out of.
LEMMA ThrowingFacts ==
  ASSUME IInv, mode = "throw"
  PROVE  /\ IsProgram(c) /\ IsCode(c, ThrownIn) /\ ThrownIn = buf[throw.base].v
         /\ throw.pc \in Pcs(c) /\ throw.pc \in Nat /\ Owns(c, ThrownIn, throw.pc)
         /\ throw.base \in Nat /\ size \in Nat /\ throw.e \in Value
         /\ Size(c, buf, throw.base) \in Nat /\ Size(c, buf, throw.base) >= 4
         /\ throw.base + Size(c, buf, throw.base) <= size
         /\ Size(c, buf, throw.base) = fun(ThrownIn).stack_size
         /\ FrameChain(c, buf, size, calls) /\ Top(calls) = throw.base
         /\ buf \in [0 .. size - 1 -> Value]
         /\ ~HasTailCalls(c) =>
              \A n \in throw.base + Size(c, buf, throw.base) .. size - 1 : buf[n].type = "UNKNOWN"
<1>1. IsProgram(c) BY ProgramsAreWellFormed DEF IInv, TypeOK
<1>2. /\ size \in Nat /\ buf \in [0 .. size - 1 -> Value]
      /\ throw.base \in Nat /\ throw.pc \in Nat /\ throw.e \in Value
  BY DEF IInv, TypeOK
<1>3. /\ FrameChain(c, buf, size, calls) /\ Top(calls) = throw.base
      /\ throw.pc \in Pcs(c) /\ Owns(c, buf[throw.base].v, throw.pc)
  BY DEF IInv, FramesStand, Alive, Innermost, InnermostPc
<1>4. IsFrame(c, buf, size, throw.base) BY <1>1, <1>3, BelowTop
<1>5. Size(c, buf, throw.base) \in Nat /\ Size(c, buf, throw.base) >= 4
  BY <1>1, <1>4, FrameSize
<1>6. ThrownIn = buf[throw.base].v BY DEF ThrownIn
<1>7. Size(c, buf, throw.base) = fun(ThrownIn).stack_size BY <1>6 DEF Size, fun
<1>8. IsCode(c, ThrownIn) /\ throw.base + Size(c, buf, throw.base) <= size
  BY <1>4, <1>6 DEF IsFrame
<1>9. ~HasTailCalls(c) =>
        \A n \in throw.base + Size(c, buf, throw.base) .. size - 1 : buf[n].type = "UNKNOWN"
  BY DEF IInv, AboveIsEmpty, Alive, Innermost
<1> QED BY <1>1, <1>2, <1>3, <1>5, <1>6, <1>7, <1>8, <1>9

\* A catch block that is found belongs to a try block around the instruction.
LEMMA HandlerFacts ==
  ASSUME NEW p, NEW e, NEW b \in Handlers(p, e)
  PROVE  \E x \in c.exception : \E k \in DOMAIN x.catch :
           /\ b = x.catch[k] /\ x \in Lesser(p) /\ x.start <= p /\ p <= x.end
           /\ k \in Matches(x, e)
<1>1. PICK x \in {x \in Lesser(p) : p <= x.end} :
        b \in {x.catch[k] : k \in {k \in Matches(x, e) : \A j \in Matches(x, e) : j <= k}}
  BY DEF Handlers
<1>2. PICK k \in Matches(x, e) : b = x.catch[k] BY <1>1
<1>3. k \in DOMAIN x.catch BY <1>2 DEF Matches
<1>4. x \in c.exception /\ x.start <= p /\ x \in Lesser(p) /\ p <= x.end
  BY <1>1 DEF Lesser, StartedBy
<1> QED BY <1>2, <1>3, <1>4

\* A catch block of a try block around an instruction is in its function, and
\* so is the register that takes the exception.
LEMMA CatchIsInFunction ==
  ASSUME NEW p, IsProgram(p), NEW f, IsCode(p, f), NEW q \in Pcs(p), Owns(p, f, q),
         NEW x \in p.exception, x.start <= q, q <= x.end, NEW k \in DOMAIN x.catch
  PROVE  /\ x.catch[k].start \in Pcs(p) /\ Owns(p, f, x.catch[k].start)
         /\ x.catch[k].start \in Entries(p)
         /\ x.catch[k].reg \in 4 .. p.fun[f].stack_size - 1
<1>1. TryWellFormed(p, x) BY DEF IsProgram, WellFormed
<1>2. x.start \in Pcs(p) /\ x.end \in Pcs(p) BY <1>1 DEF TryWellFormed
<1>3. PICK g \in DOMAIN p.fun :
        /\ ~p.fun[g].buildin /\ Owns(p, g, x.start) /\ Owns(p, g, x.end)
        /\ x.catch[k].start \in Pcs(p) /\ Owns(p, g, x.catch[k].start)
        /\ x.catch[k].reg \in 4 .. p.fun[g].stack_size - 1
  BY <1>1 DEF TryWellFormed
<1>4. IsCode(p, g) BY <1>3 DEF IsCode
<1>5. q \in Int BY DEF Pcs
<1>6. Owns(p, g, q) BY <1>2, <1>3, <1>4, <1>5, BetweenOwned
<1>7. f = g BY <1>4, <1>6, OwnerIsUnique
<1> QED BY <1>3, <1>7, EntryKinds

LEMMA CaughtKeeps ==
  ASSUME IInv, Caught
  PROVE  IInv'
<1>1. /\ mode = "throw" /\ base' = throw.base /\ regs' = [block |-> block, base |-> base']
      /\ mode' = "execute" /\ throw' = NoThrow
      /\ c' = c /\ size' = size /\ block' = block /\ calls' = calls
  BY DEF Caught
<1>2. PICK b \in Handlers(throw.pc, throw.e) :
        pc' = b.start /\ buf' = Put(buf, throw.base + b.reg, throw.e)
  BY DEF Caught
<1>3. PICK n \in Nat : n = throw.base BY <1>1, ThrowingFacts
<1>4. PICK w \in Nat : w = Size(c, buf, n) /\ w >= 4 /\ n + w <= size
  BY <1>1, <1>3, ThrowingFacts
<1>5. w >= 4 /\ n + w <= size /\ size \in Nat BY <1>1, <1>4, ThrowingFacts
<1>6. /\ IsProgram(c) /\ IsCode(c, buf[n].v) /\ c.fun[buf[n].v].stack_size = w
      /\ throw.pc \in Pcs(c) /\ Owns(c, buf[n].v, throw.pc)
      /\ buf \in [0 .. size - 1 -> Value] /\ throw.e \in Value
      /\ FrameChain(c, buf, size, calls) /\ Top(calls) = n
  BY <1>1, <1>3, <1>4, ThrowingFacts DEF Size
<1>7. /\ b.start \in Pcs(c) /\ Owns(c, buf[n].v, b.start) /\ b.start \in Entries(c)
      /\ b.reg \in 4 .. w - 1
  <2>1. PICK x \in c.exception : \E k \in DOMAIN x.catch :
          /\ b = x.catch[k] /\ x \in Lesser(throw.pc) /\ x.start <= throw.pc
          /\ throw.pc <= x.end /\ k \in Matches(x, throw.e)
    BY HandlerFacts
  <2>2. PICK k \in DOMAIN x.catch : b = x.catch[k] BY <2>1
  <2> QED BY <2>1, <2>2, <1>6, CatchIsInFunction
<1>8. PICK r \in Int : r = b.reg /\ 4 <= r /\ r < w BY <1>4, <1>7
<1>9. 4 <= r /\ r < w BY <1>8
<1>10. n + r \in 0 .. size - 1 /\ n + r > n + 3 /\ n + r < n + w BY <1>5, <1>9
<1>11. buf' = Put(buf, n + r, throw.e) BY <1>2, <1>3, <1>8
<1>12. /\ buf' \in [0 .. size - 1 -> Value]
       /\ \A i \in 0 .. size - 1 : i # n + r => buf'[i] = buf[i]
  BY <1>6, <1>10, <1>11 DEF Put, Stored
<1>13. ASSUME NEW i \in 0 .. n + 3 PROVE buf'[i] = buf[i]
  <2>1. i \in 0 .. size - 1 /\ i # n + r BY <1>5, <1>10
  <2> QED BY <2>1, <1>12
<1>14. FrameChain(c, buf', size, calls)
  <2>1. \A i \in 0 .. Top(calls) + 3 : buf'[i] = buf[i] BY <1>6, <1>13
  <2>2. IsProgram(c) /\ FrameChain(c, buf, size, calls) /\ size \in Nat /\ size <= size
    BY <1>5, <1>6
  <2> QED BY <2>1, <2>2, ChainKept
<1>15. buf'[n] = buf[n] BY <1>13
<1>16. Innermost' = n /\ InnermostPc' = b.start /\ Size(c, buf, Innermost)' = w
  BY <1>1, <1>2, <1>3, <1>4, <1>15 DEF Innermost, InnermostPc, Size
<1>17. FramesStand'
  <2>1. FrameChain(c, buf, size, calls)' BY <1>1, <1>14
  <2>2. (Top(calls) = Innermost)' BY <1>1, <1>6, <1>16
  <2>3. (InnermostPc \in Pcs(c) /\ Owns(c, buf[Innermost].v, InnermostPc))'
    BY <1>1, <1>7, <1>15, <1>16
  <2> QED BY <2>1, <2>2, <2>3, <1>1 DEF FramesStand
<1>18. RoomKept'
  <2>1. b.start \in Int BY <1>7 DEF Pcs
  <2>2. \A g : ~IsPreparing(c', pc', g) BY <2>1, <1>1, <1>2, <1>7, EntryPreparesNothing
  <2> QED BY <2>2, NeedsNoRoom
<1>19. WindowIsCurrent' BY <1>1 DEF WindowIsCurrent
<1>20. TypeOK'
  <2>1. b.start \in 0 .. Len(c.bc) BY <1>7 DEF Pcs
  <2>2. Value' = Value BY <1>1 DEF Value
  <2>3. n \in 0 .. size - 1 /\ 0 \in 0 .. size - 1 BY <1>5
  <2>4. regs' \in [block : Nat, base : Nat] BY <1>1, <1>3 DEF IInv, TypeOK
  <2>5. throw' \in [pc : Nat, base : 0 .. size - 1, e : Value]
    <3>1. Unknown \in Value BY <1>6, ValueFacts DEF Value
    <3> QED BY <3>1, <2>3, <1>1 DEF NoThrow
  <2> QED BY <2>1, <2>2, <2>3, <2>4, <2>5, <1>1, <1>2, <1>3, <1>12 DEF IInv, TypeOK
<1>21. AboveIsEmpty'
  <2> SUFFICES ASSUME ~HasTailCalls(c), NEW i \in n + w .. size - 1
               PROVE  buf'[i].type = "UNKNOWN"
    BY <1>1, <1>16 DEF AboveIsEmpty
  <2>1. i \in 0 .. size - 1 /\ i # n + r BY <1>5, <1>9
  <2>2. buf[i].type = "UNKNOWN" BY <1>1, <1>3, <1>4, ThrowingFacts
  <2> QED BY <2>1, <2>2, <1>12
<1> QED BY <1>17, <1>18, <1>19, <1>20, <1>21 DEF IInv

LEMMA RethrowKeeps ==
  ASSUME IInv, Rethrow
  PROVE  IInv'
<1>1. /\ mode = "throw" /\ buf[throw.base + 2].v >= 0
      /\ buf' = Freed(throw.base, throw.base + fun(ThrownIn).stack_size - 1)
      /\ throw' = InCaller /\ calls' = SubSeq(calls, 1, Len(calls) - 1)
      /\ c' = c /\ size' = size /\ base' = base /\ pc' = pc /\ regs' = regs
      /\ block' = block /\ mode' = mode
  BY DEF Rethrow
<1>2. PICK n \in Nat : n = throw.base BY <1>1, ThrowingFacts
<1>3. PICK u \in Nat : u = Size(c, buf, n) /\ u >= 4 /\ n + u <= size
  BY <1>1, <1>2, ThrowingFacts
<1>4. u >= 4 /\ n + u <= size /\ size \in Nat BY <1>1, <1>3, ThrowingFacts
<1>5. /\ IsProgram(c) /\ buf \in [0 .. size - 1 -> Value] /\ throw.e \in Value
      /\ FrameChain(c, buf, size, calls) /\ Top(calls) = n
  BY <1>1, <1>2, ThrowingFacts
<1>6. PICK m \in Nat :
        /\ Len(calls) > 1 /\ m = calls[Len(calls) - 1] /\ IsFrame(c, buf, size, m)
        /\ IsCalledFrom(c, buf, m, n)
  <2>1. ~(Len(calls) = 1 /\ Top(calls) = 0 /\ buf[2].v = -1) BY <1>1, <1>2, <1>5
  <2> QED BY <2>1, <1>5, TopFrame
<1>7. PICK q \in Nat, r \in Nat, w \in Nat :
        ReturnsTo(c, buf, m, n, q, r, w) /\ 4 <= r /\ r < w
  BY <1>5, <1>6, CallerFacts
<1>8. n = m + w /\ 4 <= r /\ r < w BY <1>7 DEF ReturnsTo
<1>9. /\ w = Size(c, buf, m) /\ q \in Pcs(c) /\ Owns(c, buf[m].v, q)
      /\ c.bc[q + 1].op = "CALL" /\ buf[n + 2].v = q + 1 /\ buf[n + 3].v = m
  BY <1>7 DEF ReturnsTo
<1>10. throw' = [throw EXCEPT !.pc = q, !.base = m]
  <2>1. buf[n + 2].v - 1 = q BY <1>9
  <2> QED BY <2>1, <1>1, <1>2, <1>9 DEF InCaller
<1>11. throw \in [pc : Nat, base : 0 .. size - 1, e : Value] BY DEF IInv, TypeOK
<1>12. throw'.pc = q /\ throw'.base = m /\ throw'.e = throw.e BY <1>10, <1>11
<1>13. /\ buf' \in [0 .. size - 1 -> Value]
       /\ \A i \in 0 .. size - 1 :
            buf'[i] = IF i \in n .. n + u - 1 THEN Unknown ELSE buf[i]
  <2>1. buf' = [i \in 0 .. size - 1 |-> IF i \in n .. n + u - 1 THEN Unknown ELSE buf[i]]
    <3>1. buf' = Freed(n, n + u - 1) BY <1>1, <1>2, <1>3, ThrowingFacts
    <3>2. n .. n + u - 1 \subseteq 0 .. size - 1 BY <1>4
    <3>3. DOMAIN buf = 0 .. size - 1 BY <1>5
    <3> QED BY <3>1, <3>2, <3>3 DEF Freed, Stored
  <2>2. Unknown \in Value BY <1>5, ValueFacts DEF Value
  <2> QED BY <2>1, <2>2, <1>5
<1>14. ASSUME NEW i \in 0 .. m + 3 PROVE buf'[i] = buf[i]
  <2>1. i \in 0 .. size - 1 /\ i \notin n .. n + u - 1 BY <1>4, <1>8
  <2> QED BY <2>1, <1>13
<1>15. FrameChain(c, buf, size, calls') /\ Top(calls') = m
  BY <1>1, <1>5, <1>6, ChainPopped
<1>16. FrameChain(c, buf', size, calls') BY <1>4, <1>5, <1>14, <1>15, ChainKept
<1>17. buf'[m] = buf[m] BY <1>14
<1>18. Innermost' = m /\ InnermostPc' = q /\ Size(c, buf, Innermost)' = w
  BY <1>1, <1>9, <1>12, <1>17 DEF Innermost, InnermostPc, Size
<1>19. FramesStand'
  <2>1. FrameChain(c, buf, size, calls)' BY <1>1, <1>16
  <2>2. (Top(calls) = Innermost)' BY <1>15, <1>18
  <2>3. (InnermostPc \in Pcs(c) /\ Owns(c, buf[Innermost].v, InnermostPc))'
    BY <1>1, <1>9, <1>17, <1>18
  <2>4. (c.bc[throw.pc + 1].op \in {"DIV", "THROW", "CALL_NEW", "CALL"})'
    BY <1>1, <1>9, <1>12
  <2> QED BY <2>1, <2>2, <2>3, <2>4 DEF FramesStand
<1>20. TypeOK'
  <2>1. m \in 0 .. size - 1 BY <1>4, <1>8
  <2>2. throw' \in [pc : Nat, base : 0 .. size - 1, e : Value] BY <2>1, <1>10, <1>11
  <2>3. Value' = Value BY <1>1 DEF Value
  <2>4. calls' \in Seq(Nat) BY <1>15 DEF FrameChain
  <2> QED BY <2>2, <2>3, <2>4, <1>1, <1>13 DEF IInv, TypeOK
<1>21. AboveIsEmpty'
  <2> SUFFICES ASSUME ~HasTailCalls(c), NEW i \in m + w .. size - 1
               PROVE  buf'[i].type = "UNKNOWN"
    BY <1>1, <1>18 DEF AboveIsEmpty
  <2>1. i \in 0 .. size - 1 /\ i \in n .. size - 1 BY <1>8
  <2>2. CASE i \in n .. n + u - 1 BY <2>1, <2>2, <1>13 DEF Unknown
  <2>3. CASE i \notin n .. n + u - 1
    <3>1. i \in n + u .. size - 1 BY <2>1, <2>3, <1>4
    <3>2. buf[i].type = "UNKNOWN" BY <3>1, <1>1, <1>2, <1>3, ThrowingFacts
    <3> QED BY <3>2, <2>1, <2>3, <1>13
  <2> QED BY <2>2, <2>3
<1>22. RoomKept' /\ WindowIsCurrent' BY <1>1 DEF RoomKept, WindowIsCurrent
<1> QED BY <1>19, <1>20, <1>21, <1>22 DEF IInv

LEMMA UncaughtKeeps ==
  ASSUME IInv, Uncaught
  PROVE  IInv'
<1>1. /\ mode = "throw" /\ pc' = UncaughtPc /\ base' = throw.base
      /\ regs' = [block |-> block, base |-> base'] /\ mode' = "execute" /\ throw' = NoThrow
      /\ c' = c /\ buf' = buf /\ size' = size /\ block' = block /\ calls' = calls
  BY DEF Uncaught
<1>2. /\ IsProgram(c) /\ IsCode(c, ThrownIn) /\ ThrownIn = buf[throw.base].v
      /\ FrameChain(c, buf, size, calls) /\ Top(calls) = throw.base
      /\ buf \in [0 .. size - 1 -> Value]
  BY <1>1, ThrowingFacts
<1>3. /\ throw.base \in 0 .. size - 1 /\ 0 \in 0 .. size - 1 /\ throw.base \in Nat
  BY <1>1, ThrowingFacts DEF IInv, TypeOK
<1>4. PICK q \in Pcs(c) :
        q = c.fun[ThrownIn].end /\ Owns(c, ThrownIn, q) /\ c.bc[q + 1].op = "RET"
  BY <1>2, CodeRange
<1>5. pc' = q BY <1>1, <1>4 DEF UncaughtPc, fun
<1>6. Innermost' = throw.base /\ InnermostPc' = q BY <1>1, <1>5 DEF Innermost, InnermostPc
<1>7. FramesStand'
  <2>1. FrameChain(c, buf, size, calls)' BY <1>1, <1>2
  <2>2. (Top(calls) = Innermost)' BY <1>1, <1>2, <1>6
  <2>3. (InnermostPc \in Pcs(c) /\ Owns(c, buf[Innermost].v, InnermostPc))'
    BY <1>1, <1>2, <1>4, <1>6
  <2> QED BY <2>1, <2>2, <2>3, <1>1 DEF FramesStand
<1>8. \A g \in DOMAIN c.fun : ~IsPreparing(c, q, g)
  <2>1. CallGoesOn(c, q) BY <1>2, <1>4, InstrIsWellFormed
  <2> QED BY <2>1, <1>4 DEF CallGoesOn
<1>9. RoomKept' BY <1>1, <1>5, <1>8 DEF RoomKept
<1>10. WindowIsCurrent' BY <1>1 DEF WindowIsCurrent
<1>11. TypeOK'
  <2>1. q \in 0 .. Len(c.bc) BY <1>4 DEF Pcs
  <2>2. Value' = Value BY <1>1 DEF Value
  <2>3. regs' \in [block : Nat, base : Nat] BY <1>1, <1>3 DEF IInv, TypeOK
  <2>4. throw' \in [pc : Nat, base : 0 .. size - 1, e : Value]
    <3>1. Unknown \in Value BY <1>2, ValueFacts DEF Value
    <3> QED BY <3>1, <1>1, <1>3 DEF NoThrow
  <2> QED BY <2>1, <2>2, <2>3, <2>4, <1>1, <1>3, <1>5 DEF IInv, TypeOK
<1>12. AboveIsEmpty'
  <2>1. Size(c, buf, Innermost)' = Size(c, buf, throw.base) BY <1>1, <1>6 DEF Size
  <2> QED BY <2>1, <1>1, <1>6, ThrowingFacts DEF AboveIsEmpty
<1> QED BY <1>7, <1>9, <1>10, <1>11, <1>12 DEF IInv

-----------------------------------------------------------------------------
(* The invariant and what follows from it.                                 *)

LEMMA NextKeeps ==
  ASSUME IInv, [Next]_vars
  PROVE  IInv'
<1>1. CASE UNCHANGED vars
  BY <1>1 DEF vars, machine, IInv, TypeOK, FramesStand, RoomKept, WindowIsCurrent,
              AboveIsEmpty, Alive, Innermost, InnermostPc, ArgumentSlots, Value, Window,
              Running, R, fun
<1>2. CASE Died BY <1>1, <1>2 DEF Died
<1>3. CASE Write BY <1>3, WriteKeeps
<1>4. CASE Divide BY <1>4, DivideKeeps
<1>5. CASE Jump BY <1>5, JumpKeeps
<1>6. CASE CallNew BY <1>6, CallNewKeeps
<1>7. CASE CallSet BY <1>7, CallSetKeeps
<1>8. CASE Call BY <1>8, CallKeeps
<1>9. CASE CallBuildin BY <1>9, CallBuildinKeeps
<1>10. CASE TailCall BY <1>10, TailCallKeeps
<1>11. CASE Ret BY <1>11, RetKeeps
<1>12. CASE ThrowValue BY <1>12, ThrowValueKeeps
<1>13. CASE Caught BY <1>13, CaughtKeeps
<1>14. CASE Rethrow BY <1>14, RethrowKeeps
<1>15. CASE Uncaught BY <1>15, UncaughtKeeps
<1> QED BY <1>1, <1>2, <1>3, <1>4, <1>5, <1>6, <1>7, <1>8, <1>9, <1>10, <1>11, <1>12,
           <1>13, <1>14, <1>15 DEF Next

\* Every state a coroutine reaches satisfies the invariant: the registers 0 to
\* 3 of every frame say where the frames are.
THEOREM Invariance == Spec => []IInv
BY InitInvariant, NextKeeps, PTL DEF Spec

\* Every slot of the buffer holds a value and every variable has its type:
\* OP_CALL, OP_CALL_SET, OP_TAIL_CALL, OP_RET and lgx_co_throw write inside the
\* buffer only.
THEOREM TypeCorrect == Spec => []TypeOK
<1>1. IInv => TypeOK BY DEF IInv
<1> QED BY <1>1, Invariance, PTL

\* Following register 3 from the running frame visits the calls in progress.
THEOREM FramesAreLinked == Spec => []FramesLinked
<1>1. IInv => FramesLinked
  <2> SUFFICES ASSUME IInv, Alive
               PROVE  /\ calls # <<>> /\ calls[Len(calls)] = Innermost
                      /\ \A k \in 1 .. Len(calls) :
                           /\ buf[calls[k]].type = "FUNCTION"
                           /\ \A j \in 1 .. 3 : buf[calls[k] + j].type = "LONG"
                           /\ buf[calls[k] + 3].v = IF k = 1 THEN -1 ELSE calls[k - 1]
                           /\ (buf[calls[k] + 2].v < 0) <=> (k = 1)
    BY DEF FramesLinked
  <2>1. FrameChain(c, buf, size, calls) /\ Top(calls) = Innermost BY DEF IInv, FramesStand
  <2>2. calls # <<>> /\ calls[Len(calls)] = Innermost BY <2>1 DEF FrameChain, Top
  <2>3. ASSUME NEW k \in 1 .. Len(calls)
        PROVE  /\ buf[calls[k]].type = "FUNCTION"
               /\ \A j \in 1 .. 3 : buf[calls[k] + j].type = "LONG"
               /\ buf[calls[k] + 3].v = IF k = 1 THEN -1 ELSE calls[k - 1]
               /\ (buf[calls[k] + 2].v < 0) <=> (k = 1)
    <3>1. IsFrame(c, buf, size, calls[k]) BY <2>1 DEF FrameChain
    <3>2. \A j \in 1 .. 3 : buf[calls[k] + j].type = "LONG"
      <4> TAKE j \in 1 .. 3
      <4>1. j = 1 \/ j = 2 \/ j = 3 OBVIOUS
      <4> QED BY <3>1, <4>1 DEF IsFrame
    <3>3. CASE k = 1
      <4>1. calls[1] = 0 /\ buf[2].v = -1 /\ buf[3].v = -1 BY <2>1 DEF FrameChain, IsBottom
      <4>2. buf[calls[k] + 2].v = -1 /\ buf[calls[k] + 3].v = -1 BY <3>3, <4>1
      <4> QED BY <3>1, <3>2, <3>3, <4>2 DEF IsFrame
    <3>4. CASE k # 1
      <4>1. k \in 2 .. Len(calls) BY <3>4
      <4>2. IsCalledFrom(c, buf, calls[k - 1], calls[k]) BY <2>1, <4>1 DEF FrameChain
      <4>3. buf[calls[k] + 2].v \in Nat /\ buf[calls[k] + 3].v = calls[k - 1]
        BY <4>2 DEF IsCalledFrom
      <4>4. ~(buf[calls[k] + 2].v < 0) BY <4>3
      <4> QED BY <3>1, <3>2, <3>4, <4>3, <4>4 DEF IsFrame
    <3> QED BY <3>3, <3>4
  <2> QED BY <2>2, <2>3
<1> QED BY <1>1, Invariance, PTL

\* A frame starts where its caller's window ends, and ends inside the buffer.
THEOREM FramesStayInTheStack == Spec => []FramesFit
<1>1. IInv => FramesFit
  <2> SUFFICES ASSUME IInv, Alive
               PROVE  /\ calls[1] = 0
                      /\ \A k \in 1 .. Len(calls) :
                           /\ k > 1 => calls[k] = calls[k - 1] + fun(buf[calls[k - 1]].v).stack_size
                           /\ calls[k] + fun(buf[calls[k]].v).stack_size <= size
    BY DEF FramesFit
  <2>1. FrameChain(c, buf, size, calls) BY DEF IInv, FramesStand
  <2>2. calls[1] = 0 BY <2>1 DEF FrameChain, IsBottom
  <2>3. ASSUME NEW k \in 1 .. Len(calls)
        PROVE  /\ k > 1 => calls[k] = calls[k - 1] + fun(buf[calls[k - 1]].v).stack_size
               /\ calls[k] + fun(buf[calls[k]].v).stack_size <= size
    <3>1. calls[k] + fun(buf[calls[k]].v).stack_size <= size
      BY <2>1 DEF FrameChain, IsFrame, Size, fun
    <3>2. ASSUME k > 1
          PROVE  calls[k] = calls[k - 1] + fun(buf[calls[k - 1]].v).stack_size
      <4>1. k \in 2 .. Len(calls) BY <3>2
      <4> QED BY <2>1, <4>1 DEF FrameChain, IsCalledFrom, Size, fun
    <3> QED BY <3>1, <3>2
  <2> QED BY <2>2, <2>3
<1> QED BY <1>1, Invariance, PTL

\* Arguments and headers are written inside the buffer: the room CALL_NEW
\* tested for is there when the call is made.
THEOREM CallsHaveRoom == Spec => []WritesFit
<1>1. IInv => WritesFit BY RunningOperands DEF WritesFit
<1> QED BY <1>1, Invariance, PTL

\* Control stays in the function that register 0 names, in the running frame
\* and in every caller.
THEOREM ControlStaysInFunctions == Spec => []PcInFunction
<1>1. IInv => PcInFunction
  <2> SUFFICES ASSUME IInv, Alive
               PROVE  /\ Owns(c, buf[Innermost].v, InnermostPc)
                      /\ mode = "throw" =>
                           c.bc[throw.pc + 1].op \in {"DIV", "THROW", "CALL_NEW", "CALL"}
                      /\ \A k \in 2 .. Len(calls) :
                           LET at == buf[calls[k] + 2].v - 1
                           IN  Owns(c, buf[calls[k - 1]].v, at) /\ c.bc[at + 1].op = "CALL"
    BY DEF PcInFunction
  <2>1. /\ FrameChain(c, buf, size, calls) /\ Owns(c, buf[Innermost].v, InnermostPc)
        /\ mode = "throw" => c.bc[throw.pc + 1].op \in {"DIV", "THROW", "CALL_NEW", "CALL"}
    BY DEF IInv, FramesStand
  <2>2. ASSUME NEW k \in 2 .. Len(calls)
        PROVE  /\ Owns(c, buf[calls[k - 1]].v, buf[calls[k] + 2].v - 1)
               /\ c.bc[buf[calls[k] + 2].v - 1 + 1].op = "CALL"
    <3>1. IsCalledFrom(c, buf, calls[k - 1], calls[k]) BY <2>1 DEF FrameChain
    <3>2. PICK t \in Nat : t = buf[calls[k] + 2].v BY <3>1 DEF IsCalledFrom
    <3>3. t - 1 + 1 = t OBVIOUS
    <3> QED BY <3>1, <3>2, <3>3 DEF IsCalledFrom
  <2> QED BY <2>1, <2>2
<1> QED BY <1>1, Invariance, PTL

\* The window pointer of the interpreter is never stale when it executes.
THEOREM WindowStaysCurrent == Spec => []WindowIsCurrent
<1>1. IInv => WindowIsCurrent BY DEF IInv
<1> QED BY <1>1, Invariance, PTL

\* In a program without tail calls, a frame that is left leaves nothing behind
\* and a function that is called finds its locals empty.
THEOREM LeftFramesAreEmpty == Spec => []FramesAreClean
<1>1. IInv => FramesAreClean
  <2> SUFFICES ASSUME IInv, mode = "execute", ~HasTailCalls(c),
                      \A g \in DOMAIN c.fun : ~IsPreparing(c, pc, g),
                      NEW n \in base + Window .. size - 1
               PROVE  buf[n].type = "UNKNOWN"
    BY DEF FramesAreClean
  <2>1. Innermost = base /\ Size(c, buf, base) = Window BY RunningFacts DEF Innermost
  <2> QED BY <2>1 DEF IInv, AboveIsEmpty, Alive
<1> QED BY <1>1, Invariance, PTL

-----------------------------------------------------------------------------
(* Callers are untouched.                                                  *)

\* The action CallersUntouched speaks of, in its two parts.
CallerWindowsKept ==
  \A k \in 1 .. Len(calls') - 1 :
    \A n \in calls'[k] .. calls'[k + 1] - 1 : buf'[n] = buf[n]

ReturnKeepsTheRest ==
  mode = "execute" /\ Len(calls') < Len(calls) /\ calls' # <<>> =>
    \A n \in 0 .. base - 1 : n # base' + c.bc[pc'].pa => buf'[n] = buf[n]

\* The windows of the callers end where the innermost frame starts.
LEMMA LowerFrames ==
  ASSUME NEW p, IsProgram(p), NEW b, NEW s, NEW cs, FrameChain(p, b, s, cs)
  PROVE  \A k \in 1 .. Len(cs) - 1 : \A n \in cs[k] .. cs[k + 1] - 1 : n \in 0 .. Top(cs) - 1
<1> TAKE k \in 1 .. Len(cs) - 1
<1> TAKE n \in cs[k] .. cs[k + 1] - 1
<1>1. k \in 1 .. Len(cs) /\ k + 1 \in 1 .. Len(cs) BY BelowTop
<1>2. cs[k] \in Nat /\ cs[k + 1] \in Nat /\ cs[k + 1] <= Top(cs) /\ Top(cs) \in Nat
  BY <1>1, BelowTop
<1> QED BY <1>2

\* Only a frame that ends touches what is below its base.
LEMMA KeptBelow ==
  ASSUME IInv, [Next]_vars, mode # "died", calls' = calls,
         \A n \in 0 .. Innermost - 1 : buf'[n] = buf[n]
  PROVE  CallerWindowsKept /\ ReturnKeepsTheRest
<1>1. /\ IsProgram(c) /\ FrameChain(c, buf, size, calls) /\ Top(calls) = Innermost
  BY ProgramsAreWellFormed DEF IInv, TypeOK, FramesStand, Alive
<1>2. Len(calls) \in Nat BY <1>1, BelowTop
<1>3. \A k \in 1 .. Len(calls) - 1 : \A n \in calls[k] .. calls[k + 1] - 1 : buf'[n] = buf[n]
  <2>1. \A k \in 1 .. Len(calls) - 1 : \A n \in calls[k] .. calls[k + 1] - 1 :
          n \in 0 .. Innermost - 1
    BY <1>1, LowerFrames
  <2> QED BY <2>1
<1> QED BY <1>2, <1>3 DEF CallerWindowsKept, ReturnKeepsTheRest

LEMMA RegisterWriteBelow ==
  ASSUME IInv, mode = "execute", NEW r \in Int, 4 <= r, r < Window, NEW v,
         buf' = Put(buf, base + r, v)
  PROVE  \A n \in 0 .. base - 1 : buf'[n] = buf[n]
<1>1. base \in Nat /\ size \in Nat /\ Window \in Nat /\ base + Window <= size
      /\ buf \in [0 .. size - 1 -> Value]
  BY RunningFacts
<1> TAKE n \in 0 .. base - 1
<1>2. n \in DOMAIN buf /\ n # base + r BY <1>1
<1> QED BY <1>2, PutElsewhere

LEMMA GrowBelow ==
  ASSUME IInv, CallNew
  PROVE  \A n \in 0 .. base - 1 : buf'[n] = buf[n]
<1>1. mode = "execute" /\ Instr.op = "CALL_NEW" BY DEF CallNew, At
<1>2. /\ IsProgram(c) /\ base \in Nat /\ size \in Nat /\ Window \in Nat
      /\ base + Window <= size
  BY <1>1, RunningFacts
<1>3. PICK f \in DOMAIN c.fun : f = Instr.f BY <1>1, RunningOperands
<1>4. PICK w \in Nat : w = fun(f).stack_size BY <1>2, WindowSize DEF fun
<1> TAKE n \in 0 .. base - 1
<1>5. CASE buf' = buf BY <1>5
<1>6. CASE \E s \in Doubled(f) : Grow(f, s)
  <2>1. PICK s \in Doubled(f) : Grow(f, s) BY <1>6
  <2>2. s \in Int /\ s > base + Window + w BY <2>1, <1>2, <1>4 DEF Doubled
  <2>3. buf' = [i \in 0 .. s - 1 |-> IF i < size THEN buf[i] ELSE Unknown] BY <2>1 DEF Grow
  <2>4. n \in 0 .. s - 1 /\ n < size BY <2>2, <1>2
  <2> QED BY <2>3, <2>4
<1> QED BY <1>3, <1>5, <1>6 DEF CallNew

LEMMA RetUntouched ==
  ASSUME IInv, Ret
  PROVE  CallerWindowsKept /\ ReturnKeepsTheRest
<1>1. /\ mode = "execute" /\ Instr.op = "RET"
      /\ calls' = SubSeq(calls, 1, Len(calls) - 1)
  BY DEF Ret, At
<1>2. /\ IsProgram(c) /\ buf \in [0 .. size - 1 -> Value]
      /\ FrameChain(c, buf, size, calls) /\ Top(calls) = base
  BY <1>1, RunningFacts
<1>3. /\ base \in Nat /\ size \in Nat /\ Window \in Nat /\ Window >= 4
      /\ base + Window <= size
  BY <1>1, RunningFacts
<1>4. R(1) = buf[base + 1] /\ R(2) = buf[base + 2] /\ R(3) = buf[base + 3] BY DEF R
<1>5. CASE Len(calls) = 1
  <2>1. calls \in Seq(Nat) BY <1>2 DEF FrameChain
  <2>2. Len(calls') = 0 /\ calls' = <<>> BY <2>1, <1>1, <1>5
  <2> QED BY <2>2 DEF CallerWindowsKept, ReturnKeepsTheRest
<1>6. CASE /\ Len(calls) > 1 /\ calls[Len(calls) - 1] \in Nat
           /\ IsFrame(c, buf, size, calls[Len(calls) - 1])
           /\ IsCalledFrom(c, buf, calls[Len(calls) - 1], base)
  <2>1. PICK m \in Nat :
          /\ m = calls[Len(calls) - 1] /\ IsFrame(c, buf, size, m)
          /\ IsCalledFrom(c, buf, m, base)
    BY <1>6
  <2>2. PICK q \in Nat, r \in Nat, w \in Nat :
          ReturnsTo(c, buf, m, base, q, r, w) /\ 4 <= r /\ r < w
    BY <2>1, <1>2, CallerFacts
  <2>3. PICK t \in Nat : t = q + 1 OBVIOUS
  <2>4. base = m + w /\ 4 <= r /\ r < w BY <2>2 DEF ReturnsTo
  <2>5. R(1).v = r /\ R(2).v = t /\ R(3).v = m /\ t >= 0 /\ c.bc[t].pa = r
    BY <2>2, <2>3, <1>4 DEF ReturnsTo
  <2>6. PICK result : result = IF Instr.pa = 0 THEN Unknown ELSE R(Instr.pa) OBVIOUS
  <2>7. buf' = Put(FreeFrame, m + r, result) /\ base' = m /\ pc' = t
    <3>1. PICK to, down, reg :
            /\ to = R(2).v /\ down = R(3).v /\ reg = R(1).v
            /\ base' = IF to >= 0 THEN down ELSE base
            /\ buf' = Put(FreeFrame, (IF to >= 0 THEN down ELSE base) + reg, result)
            /\ (to >= 0 /\ pc' = to) \/ to < 0
      BY <2>6 DEF Ret
    <3>2. to = t /\ down = m /\ reg = r /\ t >= 0 /\ ~(t < 0) BY <2>5, <3>1
    <3> QED BY <3>1, <3>2
  <2>8. ASSUME NEW n \in 0 .. base - 1, n # m + r PROVE buf'[n] = buf[n]
    <3>1. n \in DOMAIN buf /\ n \notin base .. base + Window - 1 BY <1>2, <1>3
    <3>2. FreeFrame[n] = buf[n] /\ n \in DOMAIN FreeFrame BY <3>1, FreedElsewhere DEF FreeFrame
    <3> QED BY <2>7, <2>8, <3>2, PutElsewhere
  <2>9. FrameChain(c, buf, size, calls') /\ Top(calls') = m
    BY <2>1, <1>1, <1>2, <1>6, ChainPopped
  <2>10. ASSUME NEW n \in 0 .. m - 1 PROVE buf'[n] = buf[n]
    <3>1. n \in 0 .. base - 1 /\ n # m + r BY <2>4
    <3> QED BY <3>1, <2>8
  <2>11. CallerWindowsKept
    <3>1. \A n \in 0 .. Top(calls') - 1 : buf'[n] = buf[n] BY <2>9, <2>10
    <3>2. IsProgram(c) /\ FrameChain(c, buf, size, calls') BY <2>9, <1>2
    <3>3. \A k \in 1 .. Len(calls') - 1 : \A n \in calls'[k] .. calls'[k + 1] - 1 :
            n \in 0 .. Top(calls') - 1
      BY <3>2, LowerFrames
    <3> QED BY <3>1, <3>3 DEF CallerWindowsKept
  <2>12. base' + c.bc[pc'].pa = m + r BY <2>5, <2>7
  <2>13. ReturnKeepsTheRest BY <2>8, <2>12 DEF ReturnKeepsTheRest
  <2> QED BY <2>11, <2>13
<1> QED BY <1>2, <1>5, <1>6, TopFrame

\* What a step does to the slots below.
LEMMA StepUntouched ==
  ASSUME IInv, [Next]_vars
  PROVE  CallerWindowsKept /\ ReturnKeepsTheRest
<1>1. CASE buf' = buf /\ calls' = calls
  <2>1. Len(calls) \in Nat BY DEF IInv, TypeOK
  <2> QED BY <2>1, <1>1 DEF CallerWindowsKept, ReturnKeepsTheRest
<1>2. CASE Write
  <2>1. /\ mode = "execute" /\ Instr.op = "SET" /\ calls' = calls
        /\ buf' = Put(buf, base + Instr.pa, Instr.v)
    BY <1>2 DEF Write, At
  <2>2. PICK r \in Int : r = Instr.pa /\ 4 <= r /\ r < Window BY <2>1, RunningOperands
  <2>3. \A n \in 0 .. base - 1 : buf'[n] = buf[n] BY <2>1, <2>2, RegisterWriteBelow
  <2> QED BY <2>1, <2>3, KeptBelow DEF Innermost
<1>3. CASE Divide /\ buf' = Put(buf, base + Instr.pa, Long(0))
  <2>1. mode = "execute" /\ Instr.op = "DIV" /\ calls' = calls BY <1>3 DEF Divide, At
  <2>2. PICK r \in Int : r = Instr.pa /\ 4 <= r /\ r < Window BY <2>1, RunningOperands
  <2>3. \A n \in 0 .. base - 1 : buf'[n] = buf[n] BY <1>3, <2>1, <2>2, RegisterWriteBelow
  <2> QED BY <2>1, <2>3, KeptBelow DEF Innermost
<1>4. CASE CallNew
  <2>1. mode = "execute" /\ calls' = calls BY <1>4 DEF CallNew, At
  <2>2. \A n \in 0 .. base - 1 : buf'[n] = buf[n] BY <1>4, GrowBelow
  <2> QED BY <2>1, <2>2, KeptBelow DEF Innermost
<1>5. CASE CallSet
  <2>1. /\ mode = "execute" /\ Instr.op = "CALL_SET" /\ calls' = calls
        /\ buf' = Put(buf, base + Window + Instr.pa, R(Instr.pb))
    BY <1>5 DEF CallSet, At
  <2>2. /\ base \in Nat /\ size \in Nat /\ Window \in Nat /\ base + Window <= size
        /\ buf \in [0 .. size - 1 -> Value]
    BY <2>1, RunningFacts
  <2>3. PICK r \in Int : r = Instr.pa /\ 4 <= r BY <2>1, RunningOperands
  <2>4. 4 <= r BY <2>3
  <2>5. ASSUME NEW n \in 0 .. base - 1 PROVE buf'[n] = buf[n]
    <3>1. n \in DOMAIN buf /\ n # base + Window + r BY <2>2, <2>4
    <3> QED BY <3>1, <2>1, <2>3, PutElsewhere
  <2> QED BY <2>1, <2>5, KeptBelow DEF Innermost
<1>6. CASE Call
  <2>1. /\ mode = "execute" /\ base' = base + Window /\ calls' = Append(calls, base')
        /\ c' = c /\ mode' = mode /\ buf' = WithHeader(Instr.f, Instr.pa)
    BY <1>6 DEF Call, At, CalleeBase
  <2>2. /\ base \in Nat /\ size \in Nat /\ Window \in Nat /\ base + Window <= size
        /\ IsProgram(c) /\ FrameChain(c, buf, size, calls)
        /\ buf \in [0 .. size - 1 -> Value]
    BY <2>1, RunningFacts
  <2>3. PICK n \in Nat : n = base + Window BY <2>2
  <2>4. ASSUME NEW i \in 0 .. n - 1 PROVE buf'[i] = buf[i]
    <3>1. i \in DOMAIN buf /\ i \notin base + Window .. base + Window + 3 BY <2>2, <2>3
    <3> DEFINE h == [k \in base + Window .. base + Window + 3 |->
                       Header(Instr.f, Instr.pa, pc + 1)[k - base - Window + 1]]
    <3>2. buf' = Stored(buf, h) BY <2>1 DEF WithHeader
    <3>3. i \notin DOMAIN h BY <3>1
    <3> HIDE DEF h
    <3> QED BY <3>1, <3>2, <3>3, StoredElsewhere
  <2>5. IInv' BY NextKeeps
  <2>6. FrameChain(c, buf', size', calls') /\ Top(calls') = n
    BY <2>1, <2>3, <2>5 DEF IInv, FramesStand, Alive, Innermost
  <2>7. CallerWindowsKept
    <3>1. \A k \in 1 .. Len(calls') - 1 : \A i \in calls'[k] .. calls'[k + 1] - 1 :
            i \in 0 .. Top(calls') - 1
      BY <2>2, <2>6, LowerFrames
    <3> QED BY <3>1, <2>4, <2>6 DEF CallerWindowsKept
  <2>8. ReturnKeepsTheRest
    <3>1. calls \in Seq(Nat) /\ calls' = Append(calls, n) /\ Len(calls) \in Nat
      BY <2>1, <2>2, <2>3 DEF FrameChain
    <3>2. Len(calls') = Len(calls) + 1 BY <3>1
    <3>3. ~(Len(calls') < Len(calls)) BY <3>1, <3>2
    <3> QED BY <3>3 DEF ReturnKeepsTheRest
  <2> QED BY <2>7, <2>8
<1>7. CASE CallBuildin
  <2>1. mode = "execute" /\ Instr.op = "CALL" /\ calls' = calls BY <1>7 DEF CallBuildin, At
  <2>2. /\ base \in Nat /\ size \in Nat /\ Window \in Nat /\ base + Window <= size
        /\ buf \in [0 .. size - 1 -> Value]
    BY <2>1, RunningFacts
  <2>3. PICK r \in Int : r = Instr.pa /\ 4 <= r BY <2>1, RunningOperands
  <2>4. 4 <= r BY <2>3
  <2>5. PICK v, last : buf' = Put(Freed(base + Window, last), base + r, v)
    BY <1>7, <2>3 DEF CallBuildin
  <2>6. ASSUME NEW n \in 0 .. base - 1 PROVE buf'[n] = buf[n]
    <3>1. n \in DOMAIN buf /\ n # base + r /\ ~(n >= base + Window) BY <2>2, <2>4
    <3>2. n \notin base + Window .. last BY <3>1, <2>2
    <3>3. /\ Freed(base + Window, last)[n] = buf[n]
          /\ n \in DOMAIN Freed(base + Window, last)
      BY <3>1, <3>2, FreedElsewhere
    <3> QED BY <3>1, <3>3, <2>5, PutElsewhere
  <2> QED BY <2>1, <2>6, KeptBelow DEF Innermost
<1>8. CASE TailCall
  <2>1. /\ mode = "execute" /\ Instr.op = "TAIL_CALL" /\ calls' = calls
        /\ buf' = Reused(Instr.f)
    BY <1>8 DEF TailCall, At
  <2>2. /\ base \in Nat /\ size \in Nat /\ Window \in Nat /\ base + Window <= size
        /\ buf \in [0 .. size - 1 -> Value]
    BY <2>1, RunningFacts
  <2>3. PICK last, end :
          buf' = Put(Stored(Freed(base + Window + 4, end),
                            [n \in base + 4 .. last |-> buf[n + Window]]),
                     base, Function(Instr.f))
    BY <2>1 DEF Reused
  <2>4. ASSUME NEW n \in 0 .. base - 1 PROVE buf'[n] = buf[n]
    <3>1. n \in DOMAIN buf /\ n # base /\ ~(n >= base + 4) /\ ~(n >= base + Window + 4)
      BY <2>2
    <3>2. n \notin base + 4 .. last /\ n \notin base + Window + 4 .. end BY <3>1, <2>2
    <3> DEFINE freed == Freed(base + Window + 4, end)
               down == [i \in base + 4 .. last |-> buf[i + Window]]
    <3>3. freed[n] = buf[n] /\ n \in DOMAIN freed BY <3>1, <3>2, FreedElsewhere
    <3>4. n \notin DOMAIN down BY <3>2
    <3> HIDE DEF freed
    <3>5. Stored(freed, down)[n] = buf[n] /\ n \in DOMAIN Stored(freed, down)
      BY <3>3, <3>4, StoredElsewhere
    <3>6. buf' = Put(Stored(freed, down), base, Function(Instr.f)) BY <2>3 DEF freed
    <3> HIDE DEF down
    <3> QED BY <3>1, <3>5, <3>6, PutElsewhere
  <2> QED BY <2>1, <2>4, KeptBelow DEF Innermost
<1>9. CASE Ret BY <1>9, RetUntouched
<1>10. CASE ThrowValue
  <2>1. /\ mode = "execute" /\ Instr.op = "THROW" /\ calls' = calls
        /\ buf' = Put(buf, base + Instr.pa, Unknown)
    BY <1>10 DEF ThrowValue, At
  <2>2. PICK r \in Int : r = Instr.pa /\ 4 <= r /\ r < Window BY <2>1, RunningOperands
  <2>3. \A n \in 0 .. base - 1 : buf'[n] = buf[n] BY <2>1, <2>2, RegisterWriteBelow
  <2> QED BY <2>1, <2>3, KeptBelow DEF Innermost
<1>11. CASE Caught
  <2>1. /\ mode = "throw" /\ base' = throw.base /\ mode' = "execute"
        /\ c' = c /\ size' = size /\ calls' = calls
    BY <1>11 DEF Caught
  <2>2. IInv' BY NextKeeps
  <2>3. FrameChain(c, buf', size, calls') /\ Top(calls') = throw.base
    BY <2>1, <2>2 DEF IInv, FramesStand, Alive, Innermost
  <2>4. PICK b \in Handlers(throw.pc, throw.e) :
          buf' = Put(buf, throw.base + b.reg, throw.e)
    BY <1>11 DEF Caught
  <2>5. /\ IsProgram(c) /\ IsCode(c, ThrownIn) /\ throw.pc \in Pcs(c)
        /\ Owns(c, ThrownIn, throw.pc) /\ throw.base \in Nat /\ size \in Nat
        /\ throw.base + Size(c, buf, throw.base) <= size
        /\ Size(c, buf, throw.base) \in Nat /\ buf \in [0 .. size - 1 -> Value]
    BY <2>1, ThrowingFacts
  <2>6. PICK r \in Int : r = b.reg /\ 4 <= r
    <3>1. PICK x \in c.exception : \E k \in DOMAIN x.catch :
            b = x.catch[k] /\ x.start <= throw.pc /\ throw.pc <= x.end
      BY HandlerFacts
    <3>2. PICK k \in DOMAIN x.catch : b = x.catch[k] BY <3>1
    <3>3. b.reg \in 4 .. c.fun[ThrownIn].stack_size - 1
      BY <3>1, <3>2, <2>5, CatchIsInFunction
    <3> QED BY <3>3
  <2>7. PICK n \in Nat, w \in Nat : n = throw.base /\ w = Size(c, buf, n) /\ n + w <= size
    BY <2>5
  <2>8. n + w <= size /\ 4 <= r BY <2>6, <2>7
  <2>9. ASSUME NEW i \in 0 .. n - 1 PROVE buf'[i] = buf[i]
    <3>1. i \in DOMAIN buf /\ i # n + r BY <2>5, <2>8
    <3> QED BY <3>1, <2>4, <2>6, <2>7, PutElsewhere
  <2> QED BY <2>1, <2>7, <2>9, KeptBelow DEF Innermost
<1>12. CASE Rethrow
  <2>1. /\ mode = "throw" /\ mode' = mode /\ c' = c /\ size' = size
        /\ buf' = Freed(throw.base, throw.base + fun(ThrownIn).stack_size - 1)
        /\ calls' = SubSeq(calls, 1, Len(calls) - 1) /\ buf[throw.base + 2].v >= 0
    BY <1>12 DEF Rethrow
  <2>2. /\ IsProgram(c) /\ throw.base \in Nat /\ size \in Nat
        /\ FrameChain(c, buf, size, calls) /\ Top(calls) = throw.base
        /\ Size(c, buf, throw.base) \in Nat
        /\ throw.base + Size(c, buf, throw.base) <= size
        /\ buf \in [0 .. size - 1 -> Value]
    BY <2>1, ThrowingFacts
  <2>3. PICK n \in Nat, w \in Nat : n = throw.base /\ w = Size(c, buf, n) /\ n + w <= size
    BY <2>2
  <2>4. n + w <= size BY <2>3
  <2>5. ASSUME NEW i \in 0 .. n - 1 PROVE buf'[i] = buf[i]
    <3>1. PICK last : buf' = Freed(n, last) BY <2>1, <2>3
    <3>2. i \in DOMAIN buf /\ ~(i >= n) BY <2>2, <2>4
    <3>3. i \notin n .. last BY <3>2
    <3> QED BY <3>1, <3>2, <3>3, FreedElsewhere
  <2>6. PICK m \in Nat : m = calls[Len(calls) - 1] /\ Len(calls) > 1 /\ m <= n
    <3>1. ~(Len(calls) = 1 /\ Top(calls) = 0 /\ buf[2].v = -1) BY <2>1, <2>2
    <3>2. Len(calls) > 1 BY <3>1, <2>2, TopFrame
    <3>3. Len(calls) - 1 \in 1 .. Len(calls) BY <3>2, <2>2, BelowTop
    <3> QED BY <3>2, <3>3, <2>2, <2>3, BelowTop
  <2>7. FrameChain(c, buf, size, calls') /\ Top(calls') = m BY <2>1, <2>2, <2>6, ChainPopped
  <2>8. ASSUME NEW i \in 0 .. m - 1 PROVE buf'[i] = buf[i]
    <3>1. m <= n BY <2>6
    <3>2. i \in 0 .. n - 1 BY <3>1
    <3> QED BY <3>2, <2>5
  <2>9. CallerWindowsKept
    <3>1. \A k \in 1 .. Len(calls') - 1 : \A i \in calls'[k] .. calls'[k + 1] - 1 :
            i \in 0 .. Top(calls') - 1
      BY <2>2, <2>7, LowerFrames
    <3> QED BY <3>1, <2>7, <2>8 DEF CallerWindowsKept
  <2> QED BY <2>1, <2>9 DEF ReturnKeepsTheRest
<1> QED BY <1>1, <1>2, <1>3, <1>4, <1>5, <1>6, <1>7, <1>8, <1>9, <1>10, <1>11, <1>12
        DEF Next, Divide, Jump, Uncaught, Died, vars, machine

\* No step changes a register of a function below the running one, except the
\* one that takes the result when the function returns.
THEOREM CallersKeepTheirRegisters == Spec => CallersUntouched
<1>1. IInv /\ [Next]_vars =>
        [/\ \A k \in 1 .. Len(calls') - 1 :
              \A n \in calls'[k] .. calls'[k + 1] - 1 : buf'[n] = buf[n]
         /\ mode = "execute" /\ Len(calls') < Len(calls) /\ calls' # <<>> =>
              \A n \in 0 .. base - 1 : n # base' + c.bc[pc'].pa => buf'[n] = buf[n]]_vars
  BY StepUntouched DEF CallerWindowsKept, ReturnKeepsTheRest
<1> QED BY <1>1, Invariance, PTL DEF Spec, CallersUntouched

-----------------------------------------------------------------------------
(* The handler of an exception.                                            *)

\* Of two try blocks one ends before the other starts: no block is nested in
\* another.
TryBlocksApart(p) ==
  \A x, y \in p.exception : x # y => x.end < y.start \/ y.end < x.start

\* A try block around the instruction is the one block the table gives.
LEMMA TheBlockAround ==
  ASSUME IsProgram(c), TryBlocksApart(c), NEW p \in Int,
         NEW x \in c.exception, Encloses(x, p)
  PROVE  /\ Lesser(p) = {x}
         /\ \A y \in c.exception : Encloses(y, p) => y = x
<1>1. \A y \in c.exception : y.start \in Int /\ y.end \in Int /\ y.start <= y.end
  BY DEF IsProgram, WellFormed, TryWellFormed, Pcs
<1>2. x.start <= p /\ p <= x.end BY DEF Encloses
<1>3. \A y \in c.exception : y # x /\ y.start <= p => y.end < x.start
  BY <1>1, <1>2 DEF TryBlocksApart
<1>4. x \in StartedBy(p) BY <1>2 DEF StartedBy
<1>5. \A y \in StartedBy(p) : y # x => Before(y, x) /\ ~Before(x, y)
  <2> SUFFICES ASSUME NEW y \in StartedBy(p), y # x
               PROVE  Before(y, x) /\ ~Before(x, y)
    OBVIOUS
  <2>1. y \in c.exception /\ y.start <= p BY DEF StartedBy
  <2>2. y.end < x.start BY <1>3, <2>1
  <2>3. y.start < x.start BY <1>1, <2>1, <2>2
  <2> QED BY <1>1, <2>1, <2>3 DEF Before
<1>6. Lesser(p) = {x} BY <1>4, <1>5 DEF Lesser
<1>7. ASSUME NEW y \in c.exception, Encloses(y, p), y # x PROVE FALSE
  <2>1. y.start <= p /\ p <= y.end BY <1>7 DEF Encloses
  <2>2. y.end < x.start BY <1>3, <1>7, <2>1
  <2> QED BY <1>1, <1>2, <2>1, <2>2
<1> QED BY <1>6, <1>7

\* A try block with a catch block of the type has a last one.
LEMMA LastMatch ==
  ASSUME IsProgram(c), NEW x \in c.exception, NEW e, Matches(x, e) # {}
  PROVE  \E k \in Matches(x, e) : \A j \in Matches(x, e) : j <= k
<1>1. Len(x.catch) \in Nat /\ DOMAIN x.catch = 1 .. Len(x.catch)
  BY DEF IsProgram, WellFormed, TryWellFormed
<1>2. Matches(x, e) \subseteq 0 .. Len(x.catch) BY <1>1 DEF Matches
<1> QED BY <1>1, <1>2, GreatestNumber

\* lgx_co_throw finds a catch block exactly when a try block around the
\* instruction has one of the type.
LEMMA HandlerFound ==
  ASSUME IsProgram(c), TryBlocksApart(c), NEW p \in Int, NEW e,
         NEW x \in c.exception, Encloses(x, p), Matches(x, e) # {}
  PROVE  Handlers(p, e) # {}
<1>1. Lesser(p) = {x} BY TheBlockAround
<1>2. PICK k \in Matches(x, e) : \A j \in Matches(x, e) : j <= k BY LastMatch
<1>3. x \in {y \in Lesser(p) : p <= y.end} BY <1>1 DEF Encloses
<1>4. x.catch[k] \in Handlers(p, e) BY <1>2, <1>3 DEF Handlers
<1> QED BY <1>4

\* An exception is caught by the innermost try block around the instruction
\* that has a catch block of its type, and leaves a frame only when the frame
\* has none, in a program in which no try block is nested in another: the
\* table search of lgx_co_throw is right for those.
THEOREM HandlerIsTheNearest ==
  ASSUME \A p \in Programs : TryBlocksApart(p)
  PROVE  Spec => HandlerIsNearest
<1> DEFINE around == {x \in c.exception : Encloses(x, throw.pc) /\ Matches(x, throw.e) # {}}
           Nearest ==
             IF around = {}
             THEN mode' = "throw" \/ pc' = UncaughtPc
             ELSE \E x \in around :
                    /\ \A y \in around : x.start >= y.start /\ x.end <= y.end
                    /\ mode' = "execute"
                    /\ \E k \in Matches(x, throw.e) : pc' = x.catch[k].start
<1>1. ASSUME IInv, Next, mode = "throw" PROVE Nearest
  <2>1. IsProgram(c) /\ throw.pc \in Int BY <1>1, ThrowingFacts
  <2>2. TryBlocksApart(c) BY <1>1 DEF IInv, TypeOK
  <2>3. \A x \in c.exception : x.start \in Int /\ x.end \in Int
    BY <2>1 DEF IsProgram, WellFormed, TryWellFormed, Pcs
  <2>4. Caught \/ Rethrow \/ Uncaught
    BY <1>1 DEF Next, Write, Divide, Jump, CallNew, CallSet, Call, CallBuildin, TailCall,
                Ret, ThrowValue, At, Died
  <2>5. CASE Caught
    <3>1. PICK b \in Handlers(throw.pc, throw.e) : pc' = b.start BY <2>5 DEF Caught
    <3>2. mode' = "execute" BY <2>5 DEF Caught
    <3>3. PICK x \in c.exception :
            \E k \in DOMAIN x.catch :
              /\ b = x.catch[k] /\ x.start <= throw.pc /\ throw.pc <= x.end
              /\ k \in Matches(x, throw.e)
      BY HandlerFacts
    <3>4. PICK k \in Matches(x, throw.e) : b = x.catch[k] BY <3>3
    <3>5. Encloses(x, throw.pc) BY <3>3 DEF Encloses
    <3>6. x \in around BY <3>3, <3>4, <3>5
    <3>7. \A y \in around : y = x BY <2>1, <2>2, <3>5, TheBlockAround
    <3>8. \A y \in around : x.start >= y.start /\ x.end <= y.end BY <2>3, <3>7
    <3>9. pc' = x.catch[k].start BY <3>1, <3>4
    <3> HIDE DEF around
    <3> QED BY <3>2, <3>6, <3>8, <3>9
  <2>6. CASE Rethrow \/ Uncaught
    <3>1. Handlers(throw.pc, throw.e) = {} BY <2>6 DEF Rethrow, Uncaught
    <3>2. around = {} BY <2>1, <2>2, <3>1, HandlerFound
    <3>3. mode' = "throw" \/ pc' = UncaughtPc BY <2>6 DEF Rethrow, Uncaught
    <3> QED BY <3>2, <3>3
  <2> QED BY <2>4, <2>5, <2>6
<1>2. IInv /\ [Next]_vars => [mode = "throw" => Nearest]_vars
  <2> HIDE DEF Nearest
  <2> QED BY <1>1
<1> QED BY <1>2, Invariance, PTL DEF Spec, HandlerIsNearest
=============================================================================
