-------------------------- MODULE BytecodeBufferProofs --------------------------
(***************************************************************************)
(* Proofs about BytecodeBuffer, for every chunk capacity, every length of  *)
(* the instructions and whatever malloc leaves in a new chunk: chunks fit  *)
(* and are tiled by instructions, jumps and links lead where they should,  *)
(* a function's start finds its chunk, only the open stream changes, and   *)
(* nothing that is emitted is lost, duplicated or moved.                   *)
(***************************************************************************)
EXTENDS BytecodeStreams, BytecodeChunksProofs

\* The inductive invariant.
BInv == /\ Sound(buffer, placeholders, label)
        /\ inFunction \in BOOLEAN
        /\ inFunction <=> InFunction(buffer)

-----------------------------------------------------------------------------
\* One step of the buffer: the instructions the program may emit.
LEMMA PlainFacts ==
  ASSUME NEW i \in Plain
  PROVE  i \in Instruction /\ i.op \notin JumpOps /\ i.op # "OP_JMP_ADR"
  BY PlainAssumption

(* A jump back to a recorded label leads there. *)
LEMMA BackwardJumpSound ==
  ASSUME NEW b, NEW P, NEW L, Sound(b, P, L), NEW op \in JumpOps, NEW l \in L, NEW g \in Nat
  PROVE  LET d == Emitted(b, Jump(op, l.chunk - 1, l.offset), g)
         IN Sound(d, P, L) /\ Current(d).stream = Current(b).stream
<1> DEFINE i == Jump(op, l.chunk - 1, l.offset)
<1>1. /\ i \in Instruction /\ i.op # "OP_JMP_ADR"
      /\ Lands(b, Current(b).stream, i.x + 1, i.y)
  BY BackwardJumpLands
<1> HIDE DEF i
<1>2. LET d == Emitted(b, i, g) IN
      Sound(d, P, L) /\ Current(d).stream = Current(b).stream
  BY <1>1, EmittedSound
<1> QED
  BY <1>2 DEF i

LEMMA InitSound == Init => BInv
<1> SUFFICES ASSUME Init PROVE BInv
  OBVIOUS
<1>1. PICK g \in UninitLink : buffer = bc_buffer_create(g)
  BY DEF Init
<1>2. g \in Nat
  BY SizesAssumption
<1>3. Sound(buffer, {}, {}) /\ ~InFunction(buffer)
  BY <1>1, <1>2, CreatedSound
<1> QED
  BY <1>3 DEF Init, BInv

LEMMA StepSound == BInv /\ [Next]_vars => BInv'
<1> SUFFICES ASSUME BInv, [Next]_vars PROVE BInv'
  OBVIOUS
<1>0. /\ Sound(buffer, placeholders, label) /\ inFunction \in BOOLEAN
      /\ inFunction <=> InFunction(buffer)
      /\ \A g \in UninitLink : g \in Nat
  BY SizesAssumption DEF BInv
<1>1. ASSUME NEW i \in Plain, EmitInstruction(i) PROVE BInv'
  <2>1. PICK g \in UninitLink : buffer' = Emitted(buffer, i, g)
    BY <1>1 DEF EmitInstruction
  <2>2. Sound(buffer', placeholders, label) /\ Current(buffer').stream = Current(buffer).stream
    BY <1>0, <2>1, PlainFacts, EmittedSound
  <2> QED
    BY <1>0, <1>1, <2>2, SameStream DEF EmitInstruction, BInv
<1>2. ASSUME NEW op \in ForwardJumps, bc_emit_jump_with_placeholder(op) PROVE BInv'
  <2>1. PICK g \in UninitLink : buffer' = Emitted(buffer, Jump(op, 0, 0), g)
    BY <1>2 DEF bc_emit_jump_with_placeholder
  <2>2. op \in JumpOps
    BY ForwardJumpsAssumption DEF JumpOps
  <2>3. /\ Sound(buffer', placeholders', label)
        /\ Current(buffer').stream = Current(buffer).stream
    BY <1>0, <1>2, <2>1, <2>2, PlaceholderSound DEF bc_emit_jump_with_placeholder
  <2> QED
    BY <1>0, <1>2, <2>3, SameStream DEF bc_emit_jump_with_placeholder, BInv
<1>3. ASSUME NEW p \in placeholders, PatchPlaceholder(p) PROVE BInv'
  <2>1. /\ Sound(buffer', placeholders', label)
        /\ Current(buffer').stream = Current(buffer).stream
    BY <1>0, <1>3, PatchedSound DEF PatchPlaceholder
  <2> QED
    BY <1>0, <1>3, <2>1, SameStream DEF PatchPlaceholder, BInv
<1>4. ASSUME RecordLabel PROVE BInv'
  <2>1. Sound(buffer, placeholders, label \union {Position(buffer)})
    BY <1>0, LabelSound
  <2> QED
    BY <1>0, <1>4, <2>1 DEF RecordLabel, BInv
<1>5. ASSUME bc_emit_opcode_with_jump("OP_JMP") PROVE BInv'
  <2>1. PICK l \in label, g \in UninitLink :
          buffer' = Emitted(buffer, Jump("OP_JMP", l.chunk - 1, l.offset), g)
    BY <1>5 DEF bc_emit_opcode_with_jump
  <2>2. Sound(buffer', placeholders, label) /\ Current(buffer').stream = Current(buffer).stream
    <3>1. "OP_JMP" \in JumpOps
      BY DEF JumpOps
    <3> QED
      BY <1>0, <2>1, <3>1, BackwardJumpSound
  <2>3. Sound(buffer', placeholders, {})
    BY <2>2, FewerLabelsSound
  <2> QED
    BY <1>0, <1>5, <2>2, <2>3, SameStream DEF bc_emit_opcode_with_jump, BInv
<1>6. ASSUME StartFunction PROVE BInv'
  <2>1. PICK g \in UninitLink : buffer' = bc_start_non_linked_chunk(buffer, g)
    BY <1>6 DEF StartFunction
  <2>2. Sound(buffer', {}, {}) /\ InFunction(buffer')
    BY <1>0, <1>6, <2>1, StartedSound DEF StartFunction
  <2> QED
    BY <1>6, <2>2 DEF StartFunction, BInv
<1>7. ASSUME EndFunction PROVE BInv'
  <2>1. Sound(buffer', {}, {}) /\ ~InFunction(buffer')
    BY <1>0, <1>7, EndedSound DEF EndFunction
  <2> QED
    BY <1>7, <2>1 DEF EndFunction, BInv
<1>8. ASSUME UNCHANGED vars PROVE BInv'
  BY <1>0, <1>8 DEF vars, BInv
<1> QED
  BY <1>1, <1>2, <1>3, <1>4, <1>5, <1>6, <1>7, <1>8 DEF Next

(* The chunks, the open jumps and the label are sound in every state. *)
THEOREM BufferSound == Spec => []BInv
  BY InitSound, StepSound, PTL DEF Spec

-----------------------------------------------------------------------------
LEMMA InvariantTypes == BInv => TypeOK
<1> SUFFICES ASSUME BInv PROVE TypeOK
  OBVIOUS
<1>1. Sound(buffer, placeholders, label) /\ Typed(buffer) /\ inFunction \in BOOLEAN
  BY DEF BInv, Sound
<1>2. ASSUME NEW i \in DOMAIN Chunks
      PROVE  /\ Chunks[i].size \in Nat /\ Chunks[i].is_linked \in BOOLEAN
             /\ Chunks[i].linked_with \in Nat /\ Chunks[i].stream \in DOMAIN Chunks
             /\ \A o \in DOMAIN Chunks[i].code : o \in Nat /\ Chunks[i].code[o] \in Instruction
  <2>1. Chunks[i] \in Chunk /\ Chunks[i].stream \in 1 .. i
        /\ DOMAIN Chunks = 1 .. Len(Chunks) /\ Len(Chunks) \in Nat
    BY <1>1, BufferFacts DEF Chunks
  <2> QED
    BY <2>1, ChunkFacts
<1>3. /\ buffer.current_chunk \in DOMAIN Chunks
      /\ buffer.return_to \in DOMAIN Chunks \union {0} /\ buffer.next_chunk_id \in Nat
  BY <1>1, BufferFacts DEF Typed, Chunks
<1>4. ASSUME NEW p \in placeholders PROVE p.chunk \in DOMAIN Chunks /\ p.offset \in Nat
  <2>1. p.chunk \in DOMAIN Chunks /\ p.offset \in DOMAIN Chunks[p.chunk].code
    BY <1>1 DEF Sound, ArePlaceholders, Chunks
  <2> QED
    BY <1>2, <2>1
<1>5. ASSUME NEW l \in label PROVE l.chunk \in DOMAIN Chunks /\ l.offset \in Nat
  <2>1. /\ l.chunk \in DOMAIN Chunks
        /\ l.offset \in DOMAIN Chunks[l.chunk].code \union {Chunks[l.chunk].size}
    BY <1>1 DEF Sound, AreLabels, Lands, Chunks
  <2> QED
    BY <1>2, <2>1
<1> QED
  BY <1>1, <1>2, <1>3, <1>4, <1>5 DEF TypeOK

(* The buffer, its chunks, the placeholders and the label are what their types
   say, whatever is emitted (struct BytecodeBuffer, struct BytecodeChunk). *)
THEOREM Typing == Spec => []TypeOK
  BY BufferSound, InvariantTypes, PTL

(* bc_ensure_chunk_capacity: no emission and no link runs past a linked chunk. *)
THEOREM ChunksFit == Spec => []LinkedChunksFit
<1>1. BInv => LinkedChunksFit
  BY DEF BInv, Sound, RoomKept, LinkedChunksFit, Chunks
<1> QED
  BY <1>1, BufferSound, PTL

(* "Begin atomic emission": the instructions of a chunk follow each other without
   gap or overlap from offset 0 on. *)
THEOREM ChunksTiled == Spec => []InstructionsTileChunks
<1>1. BInv => InstructionsTileChunks
  BY DEF BInv, Sound, AllTiled, InstructionsTileChunks, Chunks
<1> QED
  BY <1>1, BufferSound, PTL

(* bc_backpatch_jump and bc_emit_opcode_with_jump: every jump that does not wait
   for its target leads to an instruction, or the end, of its own stream. *)
THEOREM JumpsLand == Spec => []JumpsLandOnInstructions
<1>1. BInv => JumpsLandOnInstructions
  <2> SUFFICES ASSUME BInv, NEW i \in DOMAIN Chunks, NEW o \in DOMAIN Chunks[i].code,
                      IsResolvedJump(i, o)
               PROVE  LET jump == Chunks[i].code[o]
                          t    == jump.x + 1
                      IN /\ t \in DOMAIN Chunks
                         /\ Chunks[t].stream = Chunks[i].stream
                         /\ jump.y \in DOMAIN Chunks[t].code \union {Chunks[t].size}
    BY DEF JumpsLandOnInstructions
  <2>1. Lands(buffer, Chunks[i].stream, Chunks[i].code[o].x + 1, Chunks[i].code[o].y)
    BY DEF BInv, Sound, JumpsLead, IsResolvedJump, Chunks
  <2> QED
    BY <2>1 DEF Lands, Chunks
<1> QED
  BY <1>1, BufferSound, PTL

(* bc_add_new_chunk: a link is the last instruction of its chunk and leads to
   the chunk in which that chunk's code goes on. *)
THEOREM LinksContinue == Spec => []LinksContinueTheirStream
<1>1. BInv => LinksContinueTheirStream
  <2> SUFFICES ASSUME BInv, NEW i \in DOMAIN Chunks, NEW o \in DOMAIN Chunks[i].code,
                      Chunks[i].code[o].op = "OP_JMP_ADR"
               PROVE  \E t \in DOMAIN Chunks : Continues(i, t) /\ LinkedTo(i, t)
    BY DEF LinksContinueTheirStream
  <2>1. PICK t \in DOMAIN Chunks : ContinuesIn(buffer, i, t) /\ LinkedIn(buffer, i, t)
    BY DEF BInv, Sound, LinksLead, Chunks
  <2> QED
    BY <2>1 DEF ContinuesIn, LinkedIn, Continues, LinkedTo, Chunks
<1> QED
  BY <1>1, BufferSound, PTL

(* The loop of bc_start_non_linked_chunk that never advances stops at once,
   wherever a function may be declared. *)
THEOREM StartTerminates == Spec => []FunctionStartTerminates
<1>1. BInv => FunctionStartTerminates
  <2> SUFFICES ASSUME BInv, ~inFunction PROVE SearchEnds(buffer)
    BY DEF FunctionStartTerminates
  <2>1. Typed(buffer) /\ MainLinked(buffer) /\ Current(buffer).stream = 1
    BY DEF BInv, Sound, InFunction
  <2>2. Current(buffer).is_linked
    BY <2>1 DEF MainLinked, Typed, Current
  <2> QED
    BY <2>2 DEF SearchEnds
<1> QED
  BY <1>1, BufferSound, PTL

-----------------------------------------------------------------------------
(* A step changes no chunk of a stream other than the open one. *)
LEMMA StepFreezes ==
  BInv /\ [Next]_vars =>
    [\A i \in DOMAIN Chunks :
       Chunks[i].stream # Current(buffer).stream => Chunks'[i] = Chunks[i]]_vars
<1> SUFFICES ASSUME BInv, Next, NEW k \in DOMAIN Chunks,
                    Chunks[k].stream # Current(buffer).stream
             PROVE  Chunks'[k] = Chunks[k]
  OBVIOUS
<1>0. /\ Sound(buffer, placeholders, label) /\ Typed(buffer) /\ AllTiled(buffer)
      /\ inFunction <=> InFunction(buffer)
      /\ \A g \in UninitLink : g \in Nat
      /\ k \in DOMAIN buffer.chunks /\ k # buffer.current_chunk
  BY SizesAssumption DEF BInv, Sound, Chunks, Current
<1>1. ASSUME NEW i \in Instruction, NEW g \in UninitLink, buffer' = Emitted(buffer, i, g)
      PROVE  Chunks'[k] = Chunks[k]
  BY <1>0, <1>1, EmittedOnlyHere DEF Chunks
<1>2. ASSUME NEW i \in Plain, EmitInstruction(i) PROVE Chunks'[k] = Chunks[k]
  BY <1>1, <1>2, PlainFacts DEF EmitInstruction
<1>3. ASSUME NEW op \in ForwardJumps, bc_emit_jump_with_placeholder(op)
      PROVE  Chunks'[k] = Chunks[k]
  <2>1. Jump(op, 0, 0) \in Instruction
    BY ForwardJumpsAssumption, JumpFacts DEF JumpOps
  <2> QED
    BY <1>1, <1>3, <2>1 DEF bc_emit_jump_with_placeholder
<1>4. ASSUME NEW p \in placeholders, PatchPlaceholder(p) PROVE Chunks'[k] = Chunks[k]
  <2>1. /\ p.chunk \in DOMAIN buffer.chunks
        /\ p.offset \in DOMAIN buffer.chunks[p.chunk].code
        /\ buffer.chunks[p.chunk].stream = Current(buffer).stream
    BY <1>0 DEF Sound, ArePlaceholders
  <2>2. Patches(buffer, p, buffer')
    BY <1>0, <1>4, <2>1, PatchedFacts DEF PatchPlaceholder
  <2> QED
    BY <1>0, <2>1, <2>2 DEF Patches, Chunks
<1>5. ASSUME RecordLabel PROVE Chunks'[k] = Chunks[k]
  BY <1>5 DEF RecordLabel, Chunks
<1>6. ASSUME bc_emit_opcode_with_jump("OP_JMP") PROVE Chunks'[k] = Chunks[k]
  <2>1. PICK l \in label, g \in UninitLink :
          buffer' = Emitted(buffer, Jump("OP_JMP", l.chunk - 1, l.offset), g)
    BY <1>6 DEF bc_emit_opcode_with_jump
  <2>2. "OP_JMP" \in JumpOps
    BY DEF JumpOps
  <2>3. Jump("OP_JMP", l.chunk - 1, l.offset) \in Instruction
    BY <1>0, <2>1, <2>2, BackwardJumpLands
  <2> QED
    BY <1>1, <2>1, <2>3
<1>7. ASSUME StartFunction PROVE Chunks'[k] = Chunks[k]
  <2>1. PICK g \in UninitLink : buffer' = bc_start_non_linked_chunk(buffer, g)
    BY <1>7 DEF StartFunction
  <2> QED
    BY <1>0, <1>7, <2>1, StartedSound DEF StartFunction, Chunks
<1>8. ASSUME EndFunction PROVE Chunks'[k] = Chunks[k]
  <2>1. buffer'.chunks = buffer.chunks
    BY <1>0, <1>8, EndedSound DEF EndFunction
  <2> QED
    BY <2>1 DEF Chunks
<1> QED
  BY <1>2, <1>3, <1>4, <1>5, <1>6, <1>7, <1>8 DEF Next

(* The code around a function, and the functions before it, stay as they are
   while it is emitted. *)
THEOREM StreamsFrozen == Spec => OtherStreamsFrozen
  BY BufferSound, StepFreezes, PTL DEF Spec, OtherStreamsFrozen

-----------------------------------------------------------------------------
(* Concatenating a list of lists from the left: h[k] is what the first k make. *)
Sums(h, parts) ==
  /\ h[0] = <<>>
  /\ \A k \in 1 .. Len(parts) : h[k] = h[k - 1] \o parts[k]

Summed(parts) == \E h : Sums(h, parts) /\ FlattenSeq(parts) = h[Len(parts)]

LEMMA FlattenSums ==
  ASSUME NEW A, NEW parts \in Seq(Seq(A))
  PROVE  Summed(parts)
<1>0. Len(parts) \in Nat /\ \A k \in 1 .. Len(parts) : parts[k] \in Seq(A)
  BY LenProperties, ElementOfSeq
<1>1. CASE Len(parts) = 0
  <2>1. FlattenSeq(parts) = parts /\ parts = <<>>
    BY <1>1, EmptySeq DEF FlattenSeq
  <2> DEFINE h == [k \in {0} |-> <<>>]
  <2>2. Sums(h, parts)
    BY <1>1 DEF Sums
  <2>3. FlattenSeq(parts) = h[Len(parts)]
    BY <1>1, <2>1
  <2> QED
    BY <2>2, <2>3 DEF Summed
<1>2. CASE Len(parts) # 0
  <2> DEFINE Fills(f, n) == f = [i \in 1 .. n |-> IF i = 1 THEN parts[i] ELSE f[i - 1] \o parts[i]]
             S == {n \in Nat : \E f : Fills(f, n)}
  <2>1. 0 \in S
    <3> DEFINE f == [i \in 1 .. 0 |-> <<>>]
    <3>1. Fills(f, 0)
      OBVIOUS
    <3> QED
      BY <3>1
  <2>2. ASSUME NEW n \in S PROVE n + 1 \in S
    <3>1. PICK f : Fills(f, n)
      OBVIOUS
    <3> DEFINE e == [i \in 1 .. n + 1 |-> IF i = n + 1
                                          THEN IF i = 1 THEN parts[i] ELSE f[n] \o parts[i]
                                          ELSE f[i]]
    <3>2. \A i \in 1 .. n + 1 : e[i] = IF i = 1 THEN parts[i] ELSE e[i - 1] \o parts[i]
      <4> TAKE i \in 1 .. n + 1
      <4>1. n \in Nat /\ (i = n + 1 \/ i \in 1 .. n)
        OBVIOUS
      <4>2. CASE i = n + 1
        <5>1. i # 1 => i - 1 = n /\ i - 1 \in 1 .. n + 1 /\ i - 1 # n + 1
          BY <4>1, <4>2
        <5>2. i # 1 => e[i - 1] = f[n]
          BY <5>1
        <5> QED
          BY <4>2, <5>1, <5>2
      <4>3. CASE i \in 1 .. n
        <5>0. f[i] = IF i = 1 THEN parts[i] ELSE f[i - 1] \o parts[i]
          <6> HIDE DEF e
          <6> QED
            BY <3>1, <4>3
        <5>1. e[i] = f[i]
          BY <4>1, <4>3
        <5>2. i # 1 => i - 1 \in 1 .. n + 1 /\ i - 1 # n + 1
          BY <4>1, <4>3
        <5>3. i # 1 => e[i - 1] = f[i - 1]
          BY <5>2
        <5> HIDE DEF e
        <5> QED
          BY <5>0, <5>1, <5>3
      <4> QED
        BY <4>1, <4>2, <4>3
    <3>3. e = [i \in 1 .. n + 1 |-> e[i]]
      OBVIOUS
    <3> HIDE DEF e
    <3>4. Fills(e, n + 1)
      BY <3>2, <3>3
    <3>5. n + 1 \in Nat
      OBVIOUS
    <3> HIDE DEF Fills
    <3> QED
      BY <3>4, <3>5
  <2>3. S = Nat
    <3> HIDE DEF S
    <3>1. S \in SUBSET Nat
      BY DEF S
    <3> QED
      BY <2>1, <2>2, <3>1, SetInduction
  <2> DEFINE f == CHOOSE f : Fills(f, Len(parts))
  <2>4. Fills(f, Len(parts))
    <3> HIDE DEF Fills
    <3>1. \E g : Fills(g, Len(parts))
      BY <1>0, <2>3
    <3> QED
      BY <3>1
  <2>5. FlattenSeq(parts) = f[Len(parts)]
    BY <1>2 DEF FlattenSeq
  <2> HIDE DEF f
  <2> DEFINE h == [k \in 0 .. Len(parts) |-> IF k = 0 THEN <<>> ELSE f[k]]
  <2>6. \A k \in 1 .. Len(parts) : h[k] = h[k - 1] \o parts[k]
    <3> TAKE k \in 1 .. Len(parts)
    <3>0. h[k] = f[k]
      BY <1>0
    <3>1. f[k] = IF k = 1 THEN parts[k] ELSE f[k - 1] \o parts[k]
      <4> HIDE DEF h
      <4> QED
        BY <2>4
    <3>2. CASE k = 1
      <4>1. h[k - 1] = <<>>
        BY <1>0, <3>2
      <4>2. <<>> \o parts[k] = parts[k]
        BY <1>0, ConcatEmptySeq
      <4> QED
        BY <3>0, <3>1, <3>2, <4>1, <4>2
    <3>3. CASE k # 1
      <4>1. h[k - 1] = f[k - 1]
        BY <1>0, <3>3
      <4> QED
        BY <3>0, <3>1, <3>3, <4>1
    <3> QED
      BY <3>2, <3>3
  <2>7. h[0] = <<>> /\ h[Len(parts)] = f[Len(parts)]
    BY <1>0, <1>2
  <2> HIDE DEF h
  <2>8. Sums(h, parts)
    BY <2>6, <2>7 DEF Sums
  <2> QED
    BY <2>5, <2>7, <2>8 DEF Summed
<1> QED
  BY <1>1, <1>2

LEMMA SumsTyped ==
  ASSUME NEW A, NEW parts \in Seq(Seq(A)), NEW h, Sums(h, parts)
  PROVE  \A k \in 0 .. Len(parts) : h[k] \in Seq(A)
<1>0. Len(parts) \in Nat /\ \A k \in 1 .. Len(parts) : parts[k] \in Seq(A)
  BY LenProperties, ElementOfSeq
<1> DEFINE S == {n \in Nat : n <= Len(parts) => h[n] \in Seq(A)}
<1>1. 0 \in S
  BY EmptySeq DEF Sums
<1>2. ASSUME NEW n \in S PROVE n + 1 \in S
  <2>1. SUFFICES ASSUME n + 1 <= Len(parts) PROVE h[n + 1] \in Seq(A)
    OBVIOUS
  <2>2. n \in Nat /\ n + 1 \in 1 .. Len(parts) /\ (n + 1) - 1 = n /\ h[n] \in Seq(A)
    BY <1>0, <2>1
  <2>3. h[n + 1] = h[n] \o parts[n + 1]
    BY <2>2 DEF Sums
  <2> QED
    BY <1>0, <2>2, <2>3, ConcatProperties
<1>3. S = Nat
  <2> HIDE DEF S
  <2>1. S \in SUBSET Nat
    BY DEF S
  <2> QED
    BY <1>1, <1>2, <2>1, SetInduction
<1> QED
  BY <1>0, <1>3

(* Lists that begin with the same lists. *)
LEMMA SumsAgree ==
  ASSUME NEW A, NEW p \in Seq(Seq(A)), NEW q \in Seq(Seq(A)),
         NEW h, Sums(h, p), NEW g, Sums(g, q),
         NEW m \in Nat, m <= Len(p), m <= Len(q), \A k \in 1 .. m : q[k] = p[k]
  PROVE  g[m] = h[m]
<1>0. Len(p) \in Nat /\ Len(q) \in Nat
  BY LenProperties
<1> DEFINE S == {n \in Nat : n <= m => g[n] = h[n]}
<1>1. 0 \in S
  BY DEF Sums
<1>2. ASSUME NEW n \in S PROVE n + 1 \in S
  <2>1. SUFFICES ASSUME n + 1 <= m PROVE g[n + 1] = h[n + 1]
    OBVIOUS
  <2>2. /\ n \in Nat /\ n + 1 \in 1 .. Len(p) /\ n + 1 \in 1 .. Len(q) /\ n + 1 \in 1 .. m
        /\ (n + 1) - 1 = n /\ g[n] = h[n]
    BY <1>0, <2>1
  <2>3. h[n + 1] = h[n] \o p[n + 1] /\ g[n + 1] = g[n] \o q[n + 1] /\ q[n + 1] = p[n + 1]
    BY <2>2 DEF Sums
  <2> QED
    BY <2>2, <2>3
<1>3. S = Nat
  <2> HIDE DEF S
  <2>1. S \in SUBSET Nat
    BY DEF S
  <2> QED
    BY <1>1, <1>2, <2>1, SetInduction
<1> QED
  BY <1>3

(* Empty lists at the end add nothing. *)
LEMMA SumsPadded ==
  ASSUME NEW A, NEW p \in Seq(Seq(A)), NEW h, Sums(h, p),
         NEW m \in Nat, m <= Len(p), \A k \in m + 1 .. Len(p) : p[k] = <<>>
  PROVE  h[Len(p)] = h[m]
<1>0. Len(p) \in Nat
  BY LenProperties
<1> DEFINE S == {n \in Nat : m + n <= Len(p) => h[m + n] = h[m]}
<1>1. 0 \in S
  OBVIOUS
<1>2. ASSUME NEW n \in S PROVE n + 1 \in S
  <2>1. SUFFICES ASSUME m + (n + 1) <= Len(p) PROVE h[m + (n + 1)] = h[m]
    OBVIOUS
  <2>2. /\ n \in Nat /\ m + (n + 1) \in 1 .. Len(p) /\ m + (n + 1) \in m + 1 .. Len(p)
        /\ (m + (n + 1)) - 1 = m + n /\ h[m + n] = h[m] /\ m \in 0 .. Len(p)
    BY <1>0, <2>1
  <2>3. h[m + (n + 1)] = h[m + n] \o <<>>
    BY <2>2 DEF Sums
  <2>4. h[m] \in Seq(A)
    BY <2>2, SumsTyped
  <2> QED
    BY <2>2, <2>3, <2>4, ConcatEmptySeq
<1>3. S = Nat
  <2> HIDE DEF S
  <2>1. S \in SUBSET Nat
    BY DEF S
  <2> QED
    BY <1>1, <1>2, <2>1, SetInduction
<1>4. Len(p) - m \in Nat /\ m + (Len(p) - m) = Len(p)
  BY <1>0
<1>5. Len(p) - m \in S
  BY <1>3, <1>4
<1> QED
  BY <1>0, <1>4, <1>5

LEMMA FlattenTyped ==
  ASSUME NEW A, NEW parts \in Seq(Seq(A))
  PROVE  FlattenSeq(parts) \in Seq(A)
<1>1. Len(parts) \in 0 .. Len(parts)
  BY LenProperties
<1> QED
  BY <1>1, FlattenSums, SumsTyped DEF Summed

LEMMA FlattenNothing ==
  ASSUME NEW A, NEW parts \in Seq(Seq(A)), \A k \in 1 .. Len(parts) : parts[k] = <<>>
  PROVE  FlattenSeq(parts) = <<>>
<1>1. PICK h : Sums(h, parts) /\ FlattenSeq(parts) = h[Len(parts)]
  BY FlattenSums DEF Summed
<1>2. Len(parts) \in Nat /\ 0 + 1 = 1
  BY LenProperties
<1>3. h[Len(parts)] = h[0]
  BY <1>1, <1>2, SumsPadded
<1> QED
  BY <1>1, <1>3 DEF Sums

LEMMA Regrouped ==
  ASSUME NEW A, NEW x \in Seq(A), NEW y \in Seq(A), NEW z \in Seq(A),
         NEW v, v = x \o y, NEW w, w = y \o z
  PROVE  x \o w = v \o z
  BY ConcatAssociative

(* q is p with e added to its list number j, after which both hold nothing. *)
AddedTo(p, q, j, e) ==
  /\ j \in 1 .. Len(q) /\ j <= Len(p) + 1
  /\ \A k \in 1 .. j - 1 : q[k] = p[k]
  /\ q[j] = (IF j <= Len(p) THEN p[j] ELSE <<>>) \o e
  /\ \A k \in j + 1 .. Len(p) : p[k] = <<>>
  /\ \A k \in j + 1 .. Len(q) : q[k] = <<>>

LEMMA FlattenAdded ==
  ASSUME NEW A, NEW p, p \in Seq(Seq(A)), NEW q, q \in Seq(Seq(A)),
         NEW e, e \in Seq(A), NEW j, AddedTo(p, q, j, e)
  PROVE  FlattenSeq(q) = FlattenSeq(p) \o e
<1> USE DEF AddedTo
<1>0. /\ Len(p) \in Nat /\ Len(q) \in Nat /\ j \in Nat /\ j - 1 \in Nat
      /\ j - 1 <= Len(p) /\ j - 1 <= Len(q) /\ j <= Len(q)
  BY LenProperties
<1>1. PICK h : Sums(h, p) /\ FlattenSeq(p) = h[Len(p)]
  BY FlattenSums DEF Summed
<1>2. PICK g : Sums(g, q) /\ FlattenSeq(q) = g[Len(q)]
  BY FlattenSums DEF Summed
<1>3. g[j - 1] = h[j - 1]
  <2> DEFINE m == j - 1
  <2>1. m \in Nat /\ m <= Len(p) /\ m <= Len(q) /\ \A k \in 1 .. m : q[k] = p[k]
    BY <1>0
  <2> HIDE DEF m
  <2>2. g[m] = h[m]
    BY <1>1, <1>2, <2>1, SumsAgree
  <2> QED
    BY <2>2 DEF m
<1>4. g[j] = g[j - 1] \o q[j]
  BY <1>2 DEF Sums
<1>5. g[Len(q)] = g[j]
  BY <1>0, <1>2, SumsPadded
<1>6. h[j - 1] \in Seq(A)
  BY <1>0, <1>1, SumsTyped
<1>7. CASE j <= Len(p)
  <2>1. j \in 1 .. Len(p) /\ p[j] \in Seq(A)
    BY <1>0, <1>7, ElementOfSeq
  <2>2. h[j] = h[j - 1] \o p[j]
    BY <1>1, <2>1 DEF Sums
  <2>3. h[Len(p)] = h[j]
    BY <1>0, <1>1, <1>7, SumsPadded
  <2>4. q[j] = p[j] \o e
    BY <1>7
  <2>5. h[j - 1] \o q[j] = h[j] \o e
    <3>1. PICK x, y, v, w : x = h[j - 1] /\ y = p[j] /\ v = h[j] /\ w = q[j]
      OBVIOUS
    <3>2. x \in Seq(A) /\ y \in Seq(A) /\ v = x \o y /\ w = y \o e /\ e \in Seq(A)
      BY <1>6, <2>1, <2>2, <2>4, <3>1
    <3>3. x \o w = v \o e
      BY ONLY <3>2, Regrouped
    <3> QED
      BY <3>1, <3>3
  <2> QED
    BY <1>1, <1>2, <1>3, <1>4, <1>5, <2>2, <2>3, <2>4, <2>5
<1>8. CASE ~(j <= Len(p))
  <2>1. Len(p) = j - 1
    BY <1>0, <1>8
  <2>2. q[j] = <<>> \o e
    BY <1>8
  <2>3. q[j] = e
    BY <2>2, ConcatEmptySeq
  <2> QED
    BY <1>1, <1>2, <1>3, <1>4, <1>5, <2>1, <2>3
<1> QED
  BY <1>7, <1>8

-----------------------------------------------------------------------------
(* The opcodes of chunks. *)
Opcode(i) == IF i.op # "OP_JMP_ADR" THEN << i.op >> ELSE <<>>

LEMMA OneElement ==
  ASSUME NEW A, NEW v \in A
  PROVE  << v >> \in Seq(A)
<1>1. << v >> = [k \in 1 .. 1 |-> v]
  OBVIOUS
<1>2. [k \in 1 .. 1 |-> v] \in Seq(A)
  BY IsASeq
<1> QED
  BY <1>1, <1>2

LEMMA OneOpcode ==
  ASSUME NEW i \in Instruction
  PROVE  Opcode(i) \in Seq(STRING)
<1>1. \A v \in STRING : << v >> \in Seq(STRING)
  BY OneElement
<1>2. <<>> \in Seq(STRING) /\ i.op \in STRING
  BY InstructionFacts, EmptySeq
<1> QED
  BY <1>1, <1>2 DEF Opcode

LEMMA OpsAtTyped ==
  ASSUME NEW c \in Chunk, NEW o
  PROVE  /\ OpsAt(c, o) \in Seq(STRING)
         /\ o \in DOMAIN c.code => OpsAt(c, o) = Opcode(c.code[o])
<1>1. o \in DOMAIN c.code => c.code[o] \in Instruction
  BY ChunkFacts
<1>2. o \in DOMAIN c.code => OpsAt(c, o) = Opcode(c.code[o])
  BY DEF OpsAt, Opcode
<1>3. o \notin DOMAIN c.code => OpsAt(c, o) = <<>>
  BY DEF OpsAt
<1> QED
  BY <1>1, <1>2, <1>3, OneOpcode, EmptySeq

LEMMA ChunkParts ==
  ASSUME NEW c \in Chunk
  PROVE  LET parts == [k \in 1 .. c.size |-> OpsAt(c, k - 1)] IN
         /\ parts \in Seq(Seq(STRING)) /\ Len(parts) = c.size
         /\ \A k \in 1 .. c.size : parts[k] = OpsAt(c, k - 1)
         /\ OpsOfChunk(c) = FlattenSeq(parts)
         /\ OpsOfChunk(c) \in Seq(STRING)
<1> DEFINE parts == [k \in 1 .. c.size |-> OpsAt(c, k - 1)]
           A == Seq(STRING)
<1>1. c.size \in Nat
  BY ChunkFacts
<1>2. \A k \in 1 .. c.size : OpsAt(c, k - 1) \in A
  BY OpsAtTyped
<1>3. parts \in Seq(A)
  <2> HIDE DEF A
  <2> QED
    BY <1>1, <1>2, IsASeq
<1>4. Len(parts) = c.size
  BY <1>1
<1>5. OpsOfChunk(c) = FlattenSeq(parts)
  BY DEF OpsOfChunk
<1> HIDE DEF parts
<1>6. FlattenSeq(parts) \in Seq(STRING)
  BY <1>3, FlattenTyped
<1> QED
  BY <1>3, <1>4, <1>5, <1>6 DEF parts

LEMMA EmptyChunkOps ==
  ASSUME NEW c \in Chunk, DOMAIN c.code = {}
  PROVE  OpsOfChunk(c) = <<>>
<1> DEFINE parts == [k \in 1 .. c.size |-> OpsAt(c, k - 1)]
<1>1. /\ parts \in Seq(Seq(STRING)) /\ Len(parts) = c.size
      /\ OpsOfChunk(c) = FlattenSeq(parts)
  BY ChunkParts
<1>2. \A k \in 1 .. Len(parts) : parts[k] = <<>>
  BY <1>1 DEF OpsAt
<1> HIDE DEF parts
<1> QED
  BY <1>1, <1>2, FlattenNothing

(* Two chunks with the same opcodes at the same offsets. *)
LEMMA SameOps ==
  ASSUME NEW c, NEW d, d.size = c.size, DOMAIN d.code = DOMAIN c.code,
         \A o \in DOMAIN c.code : d.code[o].op = c.code[o].op
  PROVE  OpsOfChunk(d) = OpsOfChunk(c)
<1>1. \A o : OpsAt(d, o) = OpsAt(c, o)
  BY DEF OpsAt
<1> QED
  BY <1>1 DEF OpsOfChunk

(* bc_write_to_chunk appends the opcode, if it is not a link's. *)
LEMMA WrittenAddsOp ==
  ASSUME NEW c \in Chunk, Tiled(c), NEW i \in Instruction
  PROVE  OpsOfChunk(Written(c, i)) = OpsOfChunk(c) \o Opcode(i)
<1> DEFINE w == Written(c, i)
           p == [k \in 1 .. c.size |-> OpsAt(c, k - 1)]
           q == [k \in 1 .. w.size |-> OpsAt(w, k - 1)]
           j == c.size + 1
<1>1. /\ w \in Chunk /\ w.size = c.size + i.len
      /\ DOMAIN w.code = DOMAIN c.code \union {c.size}
      /\ w.code[c.size] = i
      /\ \A o \in DOMAIN c.code : o # c.size => w.code[o] = c.code[o]
  BY WrittenFacts
<1> HIDE DEF w
<1>2. c.size \in Nat /\ i.len \in Nat /\ 1 <= i.len
  BY ChunkFacts, InstructionFacts
<1>3. \A o \in DOMAIN c.code : o \in Nat /\ o < c.size
  BY TiledOffsets
<1>4. /\ p \in Seq(Seq(STRING)) /\ Len(p) = c.size /\ OpsOfChunk(c) = FlattenSeq(p)
      /\ \A k \in 1 .. c.size : p[k] = OpsAt(c, k - 1)
  BY ChunkParts
<1>5. /\ q \in Seq(Seq(STRING)) /\ Len(q) = w.size /\ OpsOfChunk(w) = FlattenSeq(q)
      /\ \A k \in 1 .. w.size : q[k] = OpsAt(w, k - 1)
  BY <1>1, ChunkParts
<1> HIDE DEF p, q
<1>6. j \in 1 .. Len(q) /\ j <= Len(p) + 1 /\ ~(j <= Len(p)) /\ j - 1 = c.size
  BY <1>1, <1>2, <1>4, <1>5
<1>7. ASSUME NEW k \in 1 .. c.size PROVE q[k] = p[k]
  <2>1. k \in 1 .. w.size /\ k - 1 # c.size
    BY <1>1, <1>2
  <2>2. OpsAt(w, k - 1) = OpsAt(c, k - 1)
    BY <1>1, <2>1 DEF OpsAt
  <2> QED
    BY <1>4, <1>5, <2>1, <2>2
<1>8. q[j] = <<>> \o Opcode(i)
  <2>1. q[j] = Opcode(i)
    BY <1>1, <1>5, <1>6, OpsAtTyped
  <2> QED
    BY <2>1, OneOpcode, ConcatEmptySeq
<1>9. ASSUME NEW k \in j + 1 .. Len(q) PROVE q[k] = <<>>
  <2>1. k \in 1 .. w.size /\ k - 1 > c.size /\ k - 1 \in Nat
    BY <1>1, <1>2, <1>5
  <2>2. k - 1 \notin DOMAIN w.code
    BY <1>1, <1>2, <1>3, <2>1
  <2> QED
    BY <1>5, <2>1, <2>2 DEF OpsAt
<1>10. \A k \in j + 1 .. Len(p) : p[k] = <<>>
  BY <1>2, <1>4
<1>11. Opcode(i) \in Seq(STRING)
  BY OneOpcode
<1>12. /\ \A k \in 1 .. j - 1 : q[k] = p[k]
       /\ q[j] = (IF j <= Len(p) THEN p[j] ELSE <<>>) \o Opcode(i)
  BY <1>6, <1>7, <1>8
<1>13. AddedTo(p, q, j, Opcode(i))
  BY <1>6, <1>9, <1>10, <1>12 DEF AddedTo
<1> HIDE DEF j
<1>14. FlattenSeq(q) = FlattenSeq(p) \o Opcode(i)
  BY <1>4, <1>5, <1>11, <1>13, FlattenAdded
<1> QED
  BY <1>4, <1>5, <1>14 DEF w

-----------------------------------------------------------------------------
(* The opcodes of streams. *)
PartOf(b, s, k) == IF b.chunks[k].stream = s THEN OpsOfChunk(b.chunks[k]) ELSE <<>>

PartsOf(b, s) == [k \in 1 .. Len(b.chunks) |-> PartOf(b, s, k)]

LEMMA PartsFacts ==
  ASSUME NEW b, b \in Buffer, NEW s
  PROVE  /\ PartsOf(b, s) \in Seq(Seq(STRING))
         /\ Len(PartsOf(b, s)) = Len(b.chunks) /\ Len(b.chunks) \in Nat
         /\ DOMAIN b.chunks = 1 .. Len(b.chunks)
         /\ \A k \in 1 .. Len(b.chunks) : PartsOf(b, s)[k] = PartOf(b, s, k)
         /\ OpsOfStream(b, s) = FlattenSeq(PartsOf(b, s))
         /\ OpsOfStream(b, s) \in Seq(STRING)
<1> DEFINE parts == PartsOf(b, s)
           A == Seq(STRING)
<1>1. /\ Len(b.chunks) \in Nat /\ DOMAIN b.chunks = 1 .. Len(b.chunks)
      /\ \A k \in 1 .. Len(b.chunks) : b.chunks[k] \in Chunk
  <2>1. b.chunks \in Seq(Chunk)
    BY DEF Buffer
  <2> QED
    BY <2>1, LenProperties, ElementOfSeq
<1>2. \A k \in 1 .. Len(b.chunks) : PartOf(b, s, k) \in A
  BY <1>1, ChunkParts, EmptySeq DEF PartOf
<1>3. parts \in Seq(A)
  <2> HIDE DEF A
  <2> QED
    BY <1>1, <1>2, IsASeq DEF PartsOf
<1>4. /\ Len(parts) = Len(b.chunks)
      /\ \A k \in 1 .. Len(b.chunks) : parts[k] = PartOf(b, s, k)
  BY <1>1 DEF PartsOf
<1>5. OpsOfStream(b, s) = FlattenSeq(parts)
  BY DEF OpsOfStream, PartsOf, PartOf
<1> HIDE DEF parts
<1>6. FlattenSeq(parts) \in Seq(STRING)
  BY <1>3, FlattenTyped
<1> QED
  BY <1>1, <1>3, <1>4, <1>5, <1>6 DEF parts

(* Two buffers whose chunks hold the same opcodes. *)
LEMMA SameStreams ==
  ASSUME NEW b, b \in Buffer, NEW d, d \in Buffer, DOMAIN d.chunks = DOMAIN b.chunks,
         NEW s, \A k \in DOMAIN b.chunks : PartOf(d, s, k) = PartOf(b, s, k)
  PROVE  OpsOfStream(d, s) = OpsOfStream(b, s)
<1>1. /\ Len(b.chunks) \in Nat /\ DOMAIN b.chunks = 1 .. Len(b.chunks)
      /\ OpsOfStream(b, s) = FlattenSeq(PartsOf(b, s))
  BY PartsFacts
<1>2. /\ Len(d.chunks) \in Nat /\ DOMAIN d.chunks = 1 .. Len(d.chunks)
      /\ OpsOfStream(d, s) = FlattenSeq(PartsOf(d, s))
  BY PartsFacts
<1>3. Len(d.chunks) = Len(b.chunks)
  BY <1>1, <1>2
<1>4. PartsOf(d, s) = PartsOf(b, s)
  BY <1>1, <1>3 DEF PartsOf
<1> QED
  BY <1>1, <1>2, <1>4

(* An instruction is written at the end of its stream. *)
LEMMA AppendedStreams ==
  ASSUME NEW b, Typed(b), AllTiled(b), EndsStream(b, b.current_chunk), NEW i \in Instruction, NEW s
  PROVE  LET d == Appended(b, i) IN
         OpsOfStream(d, s) = IF s = Current(b).stream THEN OpsOfStream(b, s) \o Opcode(i)
                                                      ELSE OpsOfStream(b, s)
<1> DEFINE d == Appended(b, i)
           j == b.current_chunk
           p == PartsOf(b, s)
           q == PartsOf(d, s)
           e == Opcode(i)
<1>1. /\ d \in Buffer /\ DOMAIN d.chunks = DOMAIN b.chunks
      /\ d.chunks[j] = Written(Current(b), i)
      /\ \A k \in DOMAIN b.chunks : k # j => d.chunks[k] = b.chunks[k]
  BY AppendedFacts
<1>2. b \in Buffer /\ j \in DOMAIN b.chunks
  BY DEF Typed
<1> HIDE DEF d
<1>3. /\ Current(b) = b.chunks[j] /\ Current(b) \in Chunk /\ Tiled(Current(b))
      /\ d.chunks[j].stream = Current(b).stream
      /\ OpsOfChunk(d.chunks[j]) = OpsOfChunk(b.chunks[j]) \o e
  <2>1. Current(b) = b.chunks[j] /\ Current(b) \in Chunk
    BY BufferFacts
  <2>2. Tiled(Current(b))
    BY <1>2, <2>1 DEF AllTiled
  <2> QED
    BY <1>1, <2>1, <2>2, WrittenFacts, WrittenAddsOp
<1>4. \A k \in DOMAIN b.chunks : k # j => PartOf(d, s, k) = PartOf(b, s, k)
  BY <1>1 DEF PartOf
<1>5. CASE s # Current(b).stream
  <2>1. PartOf(d, s, j) = PartOf(b, s, j)
    BY <1>3, <1>5 DEF PartOf
  <2> QED
    BY <1>1, <1>2, <1>4, <1>5, <2>1, SameStreams DEF d
<1>6. CASE s = Current(b).stream
  <2>1. PartOf(d, s, j) = PartOf(b, s, j) \o e
    BY <1>3, <1>6 DEF PartOf
  <2>2. /\ p \in Seq(Seq(STRING)) /\ Len(p) = Len(b.chunks) /\ OpsOfStream(b, s) = FlattenSeq(p)
        /\ Len(b.chunks) \in Nat /\ DOMAIN b.chunks = 1 .. Len(b.chunks)
        /\ \A k \in 1 .. Len(b.chunks) : p[k] = PartOf(b, s, k)
    BY <1>2, PartsFacts
  <2>3. /\ q \in Seq(Seq(STRING)) /\ Len(q) = Len(d.chunks) /\ OpsOfStream(d, s) = FlattenSeq(q)
        /\ Len(d.chunks) \in Nat /\ DOMAIN d.chunks = 1 .. Len(d.chunks)
        /\ \A k \in 1 .. Len(d.chunks) : q[k] = PartOf(d, s, k)
    BY <1>1, PartsFacts
  <2> HIDE DEF p, q
  <2>4. Len(q) = Len(p) /\ Len(p) \in Nat /\ j \in 1 .. Len(p) /\ DOMAIN b.chunks = 1 .. Len(p)
    BY <1>1, <1>2, <2>2, <2>3
  <2>5. \A k \in 1 .. Len(p) : k # j => q[k] = p[k]
    BY <1>4, <2>2, <2>3, <2>4
  <2>6. q[j] = p[j] \o e
    BY <2>1, <2>2, <2>3, <2>4
  <2>7. \A k \in 1 .. Len(p) : k > j => p[k] = <<>>
    BY <1>3, <1>6, <2>2, <2>4 DEF EndsStream, PartOf
  <2> HIDE DEF j, e
  <2>8. AddedTo(p, q, j, e)
    BY ONLY <2>4, <2>5, <2>6, <2>7 DEF AddedTo
  <2>9. e \in Seq(STRING)
    BY OneOpcode DEF e
  <2>10. FlattenSeq(q) = FlattenSeq(p) \o e
    BY <2>2, <2>3, <2>8, <2>9, FlattenAdded
  <2> QED
    BY <1>6, <2>2, <2>3, <2>10 DEF d, e
<1> QED
  BY <1>5, <1>6

(* A new chunk holds nothing yet, and a link is not an opcode of the stream. *)
LEMMA AddedStreams ==
  ASSUME NEW b, Typed(b), AllTiled(b), NEW link, NEW d, Adds(b, link, d), NEW s
  PROVE  OpsOfStream(d, s) = OpsOfStream(b, s)
<1> DEFINE j == b.current_chunk
           n == Len(b.chunks) + 1
           p == PartsOf(b, s)
           q == PartsOf(d, s)
<1>1. /\ d \in Buffer /\ n \in Nat
      /\ DOMAIN d.chunks = DOMAIN b.chunks \union {n}
      /\ DOMAIN b.chunks = 1 .. n - 1 /\ j \in 1 .. n - 1
      /\ d.chunks[n] \in Chunk /\ DOMAIN d.chunks[n].code = {}
      /\ \A k \in DOMAIN b.chunks : k # j => d.chunks[k] = b.chunks[k]
      /\ \/ d.chunks[j] = b.chunks[j]
         \/ d.chunks[j] = Written(b.chunks[j], Link(n - 1))
  BY DEF Adds
<1>2. b \in Buffer /\ j \in DOMAIN b.chunks /\ b.chunks[j] \in Chunk /\ Tiled(b.chunks[j])
  BY BufferFacts DEF Typed, AllTiled
<1>3. PartOf(d, s, j) = PartOf(b, s, j)
  <2>1. CASE d.chunks[j] = b.chunks[j]
    BY <2>1 DEF PartOf
  <2>2. CASE d.chunks[j] = Written(b.chunks[j], Link(n - 1))
    <3>1. n - 1 \in Nat
      BY <1>1
    <3>2. Link(n - 1) \in Instruction /\ Opcode(Link(n - 1)) = <<>>
      BY <3>1, LinkIsInstruction DEF Opcode, Link
    <3>3. d.chunks[j].stream = b.chunks[j].stream
      BY <1>2, <2>2, <3>2, WrittenFacts
    <3>4. OpsOfChunk(d.chunks[j]) = OpsOfChunk(b.chunks[j]) \o <<>>
      BY <1>2, <2>2, <3>2, WrittenAddsOp
    <3>5. OpsOfChunk(d.chunks[j]) = OpsOfChunk(b.chunks[j])
      BY <1>2, <3>4, ChunkParts, ConcatEmptySeq
    <3> QED
      BY <3>3, <3>5 DEF PartOf
  <2> QED
    BY <1>1, <2>1, <2>2
<1>4. \A k \in DOMAIN b.chunks : PartOf(d, s, k) = PartOf(b, s, k)
  <2>1. \A k \in DOMAIN b.chunks : k # j => PartOf(d, s, k) = PartOf(b, s, k)
    BY <1>1 DEF PartOf
  <2> QED
    BY <1>3, <2>1
<1>5. PartOf(d, s, n) = <<>>
  BY <1>1, EmptyChunkOps DEF PartOf
<1>6. /\ p \in Seq(Seq(STRING)) /\ Len(p) = Len(b.chunks) /\ OpsOfStream(b, s) = FlattenSeq(p)
      /\ OpsOfStream(b, s) \in Seq(STRING) /\ Len(b.chunks) \in Nat
      /\ \A k \in 1 .. Len(b.chunks) : p[k] = PartOf(b, s, k)
  BY <1>2, PartsFacts
<1>7. /\ q \in Seq(Seq(STRING)) /\ Len(q) = Len(d.chunks) /\ OpsOfStream(d, s) = FlattenSeq(q)
      /\ Len(d.chunks) \in Nat /\ DOMAIN d.chunks = 1 .. Len(d.chunks)
      /\ \A k \in 1 .. Len(d.chunks) : q[k] = PartOf(d, s, k)
  BY <1>1, PartsFacts
<1> HIDE DEF p, q, j
<1>8. Len(q) = n /\ Len(p) = n - 1 /\ n \in 1 .. n
  <2>1. n >= 1 /\ n - 1 = Len(b.chunks)
    BY <1>6
  <2> HIDE DEF n
  <2>2. (1 .. n - 1) \union {n} = 1 .. n
    BY <1>1, <2>1
  <2>3. 1 .. Len(d.chunks) = 1 .. n
    BY <1>1, <1>7, <2>2
  <2>4. Len(d.chunks) = n
    BY <1>1, <1>7, <2>1, <2>3
  <2> QED
    BY <1>1, <1>6, <1>7, <2>1, <2>4
<1>9. \A k \in 1 .. n - 1 : q[k] = p[k]
  BY <1>1, <1>4, <1>6, <1>7, <1>8
<1>10. q[n] = <<>>
  BY <1>5, <1>7, <1>8
<1> HIDE DEF n
<1> DEFINE e == <<>>
<1>11. q[n] = <<>> \o e
  BY <1>10, EmptySeq, ConcatEmptySeq
<1>12. e \in Seq(STRING)
  BY EmptySeq
<1>13. OpsOfStream(b, s) \o e = OpsOfStream(b, s)
  BY <1>6, ConcatEmptySeq
<1> HIDE DEF e
<1>14. AddedTo(p, q, n, e)
  <2>1. /\ n \in 1 .. Len(q) /\ n <= Len(p) + 1 /\ ~(n <= Len(p)) /\ Len(p) = n - 1
        /\ \A k \in n + 1 .. Len(p) : FALSE
        /\ \A k \in n + 1 .. Len(q) : FALSE
    BY ONLY <1>1, <1>8
  <2> QED
    BY ONLY <1>9, <1>11, <2>1 DEF AddedTo
<1>15. FlattenSeq(q) = FlattenSeq(p) \o e
  BY <1>6, <1>7, <1>12, <1>14, FlattenAdded
<1> QED
  BY <1>6, <1>7, <1>13, <1>15

-----------------------------------------------------------------------------
(* What the operations do to the streams a buffer stands for. *)
LEMMA CreatedCode ==
  ASSUME NEW g \in Nat
  PROVE  LET b == bc_buffer_create(g) IN
         CodeOf(b) = [s \in {1} |-> <<>>] /\ Current(b).stream = 1
<1> DEFINE b == bc_buffer_create(g)
           c == bc_create_bytecode_chunk(TRUE, g, 1)
<1>1. c \in Chunk /\ c.stream = 1 /\ DOMAIN c.code = {}
  BY NewChunk, ZenonT(40)
<1>2. /\ DOMAIN b.chunks = {1} /\ b.chunks[1] = c /\ Len(b.chunks) = 1
      /\ Current(b) = c
  BY DEF bc_buffer_create, Current
<1>3. b \in Buffer
  BY CreatedSound DEF Sound, Typed
<1> HIDE DEF b, c
<1>4. StreamsOf(b) = {1}
  BY <1>1, <1>2 DEF StreamsOf
<1>5. OpsOfStream(b, 1) = <<>>
  <2>1. /\ PartsOf(b, 1) \in Seq(Seq(STRING)) /\ Len(PartsOf(b, 1)) = 1
        /\ PartsOf(b, 1)[1] = PartOf(b, 1, 1)
        /\ OpsOfStream(b, 1) = FlattenSeq(PartsOf(b, 1))
    BY <1>2, <1>3, PartsFacts
  <2>2. PartOf(b, 1, 1) = <<>>
    BY <1>1, <1>2, EmptyChunkOps DEF PartOf
  <2>3. \A k \in 1 .. Len(PartsOf(b, 1)) : PartsOf(b, 1)[k] = <<>>
    BY <2>1, <2>2
  <2> QED
    BY <2>1, <2>3, FlattenNothing
<1> QED
  BY <1>1, <1>2, <1>4, <1>5 DEF CodeOf, b

(* Making room changes no stream. *)
LEMMA EnsuredCode ==
  ASSUME NEW b, Typed(b), AllTiled(b), NEW i \in Instruction, NEW g \in Nat
  PROVE  LET e == bc_ensure_chunk_capacity(b, i.len, g) IN
         /\ StreamsOf(e) = StreamsOf(b)
         /\ \A s : OpsOfStream(e, s) = OpsOfStream(b, s)
<1> DEFINE e == bc_ensure_chunk_capacity(b, i.len, g)
<1>1. CASE e = b
  BY <1>1
<1>2. CASE e = bc_add_new_chunk(b, TRUE, g)
  <2>1. Adds(b, TRUE, e) /\ Extends(b, e)
    BY <1>2, AddedFacts, AddedChunks, ZenonT(40)
  <2> HIDE DEF e
  <2>2. \A s : OpsOfStream(e, s) = OpsOfStream(b, s)
    BY <2>1, AddedStreams
  <2> DEFINE n == Len(b.chunks) + 1
  <2>3. /\ DOMAIN e.chunks = DOMAIN b.chunks \union {n}
        /\ e.chunks[n].stream = Current(b).stream
        /\ b.current_chunk \in DOMAIN b.chunks /\ Current(b) = b.chunks[b.current_chunk]
        /\ \A k \in DOMAIN b.chunks : e.chunks[k].stream = b.chunks[k].stream
    BY <2>1 DEF Adds, Extends, Current
  <2> HIDE DEF n
  <2>4. StreamsOf(e) = StreamsOf(b)
    BY <2>3 DEF StreamsOf
  <2> QED
    BY <2>2, <2>4 DEF e
<1> QED
  BY <1>1, <1>2 DEF bc_ensure_chunk_capacity

(* Emitting an instruction appends its opcode to the open stream, whatever
   chunks and links that takes. *)
LEMMA EmittedCode ==
  ASSUME NEW b, NEW P, NEW L, Sound(b, P, L), NEW i \in Instruction, NEW g \in Nat,
         i.op # "OP_JMP_ADR"
  PROVE  CodeOf(Emitted(b, i, g)) = [CodeOf(b) EXCEPT ![Current(b).stream] = Append(@, i.op)]
<1> DEFINE e == bc_ensure_chunk_capacity(b, i.len, g)
           d == Appended(e, i)
           t == Current(b).stream
<1>1. /\ Sound(e, P, L) /\ Current(e).stream = t
  BY EnsuredSound, InstructionFacts
<1>2. StreamsOf(e) = StreamsOf(b) /\ \A s : OpsOfStream(e, s) = OpsOfStream(b, s)
  BY EnsuredCode DEF Sound
<1>3. Emitted(b, i, g) = d
  BY EmittedIsAppended
<1>4. t \in StreamsOf(b) /\ b \in Buffer
  BY DEF Sound, Typed, StreamsOf, Current
<1> HIDE DEF e
<1>5. Typed(e) /\ AllTiled(e) /\ EndsStream(e, e.current_chunk)
  BY <1>1 DEF Sound, OpenEnds
<1>6. StreamsOf(d) = StreamsOf(e)
  <2>1. Extends(e, d) /\ DOMAIN d.chunks = DOMAIN e.chunks
    BY <1>5, AppendedExtends, AppendedFacts
  <2> HIDE DEF d
  <2> QED
    BY <2>1 DEF Extends, StreamsOf
<1>7. \A s : OpsOfStream(d, s) = IF s = t THEN OpsOfStream(b, s) \o Opcode(i)
                                          ELSE OpsOfStream(b, s)
  <2>1. \A s : OpsOfStream(d, s) = IF s = Current(e).stream THEN OpsOfStream(e, s) \o Opcode(i)
                                                             ELSE OpsOfStream(e, s)
    BY <1>5, AppendedStreams
  <2> HIDE DEF d, t
  <2> QED
    BY <1>1, <1>2, <2>1
<1> HIDE DEF d, t
<1>8. OpsOfStream(b, t) \o Opcode(i) = Append(OpsOfStream(b, t), i.op)
  <2>1. OpsOfStream(b, t) \in Seq(STRING) /\ i.op \in STRING
    BY <1>4, PartsFacts, InstructionFacts
  <2>2. Opcode(i) = << i.op >>
    BY DEF Opcode
  <2> QED
    BY <2>1, <2>2, AppendIsConcat
<1>9. OpsOfStream(d, t) = Append(OpsOfStream(b, t), i.op)
  BY <1>7, <1>8
<1>10. CodeOf(d) = [CodeOf(b) EXCEPT ![t] = Append(@, i.op)]
  BY <1>2, <1>4, <1>6, <1>7, <1>9 DEF CodeOf
<1> QED
  BY <1>3, <1>10 DEF t

(* Patching changes no opcode. *)
LEMMA PatchedCode ==
  ASSUME NEW b, Typed(b), NEW p, NEW d, Patches(b, p, d)
  PROVE  CodeOf(d) = CodeOf(b) /\ (p.chunk \in DOMAIN b.chunks => Current(d).stream = Current(b).stream)
<1>1. /\ b \in Buffer /\ d \in Buffer /\ DOMAIN d.chunks = DOMAIN b.chunks
      /\ d.current_chunk = b.current_chunk /\ b.current_chunk \in DOMAIN b.chunks
      /\ \A k \in DOMAIN b.chunks : /\ d.chunks[k].stream = b.chunks[k].stream
                                    /\ d.chunks[k].size = b.chunks[k].size
                                    /\ DOMAIN d.chunks[k].code = DOMAIN b.chunks[k].code
  BY DEF Typed, Patches
<1>2. ASSUME NEW k \in DOMAIN b.chunks
      PROVE  \A o \in DOMAIN b.chunks[k].code :
               d.chunks[k].code[o].op = b.chunks[k].code[o].op
  BY DEF Patches
<1>3. ASSUME NEW s, NEW k \in DOMAIN b.chunks PROVE PartOf(d, s, k) = PartOf(b, s, k)
  <2>1. OpsOfChunk(d.chunks[k]) = OpsOfChunk(b.chunks[k])
    BY <1>1, <1>2, SameOps
  <2> QED
    BY <1>1, <2>1 DEF PartOf
<1>4. \A s : OpsOfStream(d, s) = OpsOfStream(b, s)
  BY <1>1, <1>3, SameStreams
<1>5. StreamsOf(d) = StreamsOf(b)
  BY <1>1 DEF StreamsOf
<1> QED
  BY <1>1, <1>4, <1>5 DEF CodeOf, Current

(* A function's first chunk opens a new, empty stream. *)
Opens(b, d, n) ==
  /\ Current(d).stream = n
  /\ n \notin StreamsOf(b)
  /\ CodeOf(d) = [s \in StreamsOf(b) \union {n} |-> IF s = n THEN <<>> ELSE CodeOf(b)[s]]

LEMMA StartedCode ==
  ASSUME NEW b, Sound(b, {}, {}), ~InFunction(b), NEW g \in Nat
  PROVE  Opens(b, bc_start_non_linked_chunk(b, g), Len(b.chunks) + 1)
<1> DEFINE e == Announced(b)
           n == Len(e.chunks) + 1
           d == bc_add_new_chunk(e, FALSE, g)
<1>1. d = bc_start_non_linked_chunk(b, g) /\ Len(e.chunks) = Len(b.chunks)
  <2>1. DOMAIN e.chunks = DOMAIN b.chunks /\ e \in Buffer /\ b \in Buffer
    BY AnnouncedFacts DEF Sound, Typed
  <2>2. e.chunks \in Seq(Chunk) /\ b.chunks \in Seq(Chunk)
    BY <2>1 DEF Buffer
  <2> HIDE DEF e
  <2>3. Len(e.chunks) = Len(b.chunks)
    BY <2>1, <2>2, LenProperties
  <2> QED
    BY <2>3 DEF bc_start_non_linked_chunk, Announced, e
<1>2. /\ Typed(b) /\ b \in Buffer /\ e \in Buffer /\ DOMAIN e.chunks = DOMAIN b.chunks
      /\ \A k \in DOMAIN b.chunks : /\ e.chunks[k].stream = b.chunks[k].stream
                                    /\ e.chunks[k].size = b.chunks[k].size
                                    /\ e.chunks[k].code = b.chunks[k].code
  BY AnnouncedFacts DEF Sound, Typed
<1>3. Typed(e) /\ AllTiled(e)
  BY AnnouncedSound DEF Sound
<1> HIDE DEF e
<1>4. \A s : OpsOfStream(e, s) = OpsOfStream(b, s)
  <2>1. ASSUME NEW s, NEW k \in DOMAIN b.chunks PROVE PartOf(e, s, k) = PartOf(b, s, k)
    <3>1. OpsOfChunk(e.chunks[k]) = OpsOfChunk(b.chunks[k])
      BY <1>2, SameOps
    <3> QED
      BY <1>2, <3>1 DEF PartOf
  <2> QED
    BY <1>2, <2>1, SameStreams
<1>5. Adds(e, FALSE, d) /\ Extends(e, d)
  BY <1>3, AddedFacts, AddedChunks
<1> HIDE DEF d
<1>6. \A s : OpsOfStream(d, s) = OpsOfStream(b, s)
  <2>1. \A s : OpsOfStream(d, s) = OpsOfStream(e, s)
    BY <1>3, <1>5, AddedStreams
  <2> QED
    BY <1>4, <2>1
<1>7. /\ n \in Nat /\ DOMAIN d.chunks = DOMAIN e.chunks \union {n}
      /\ DOMAIN e.chunks = 1 .. n - 1 /\ d.chunks[n].stream = n
      /\ Current(d) = d.chunks[n]
      /\ \A k \in DOMAIN e.chunks : d.chunks[k].stream = e.chunks[k].stream
  BY <1>5 DEF Adds, Extends, Current
<1> HIDE DEF n
<1>8. \A k \in DOMAIN b.chunks : b.chunks[k].stream # n
  <2>1. \A k \in DOMAIN b.chunks : b.chunks[k].stream \in 1 .. k
    BY <1>2, BufferFacts
  <2>2. DOMAIN b.chunks = 1 .. n - 1 /\ n \in Nat
    BY <1>2, <1>7
  <2> QED
    BY <2>1, <2>2
<1>9. StreamsOf(d) = StreamsOf(b) \union {n}
  BY <1>2, <1>7 DEF StreamsOf
<1>10. OpsOfStream(b, n) = <<>>
  <2>1. /\ PartsOf(b, n) \in Seq(Seq(STRING)) /\ Len(PartsOf(b, n)) = Len(b.chunks)
        /\ DOMAIN b.chunks = 1 .. Len(b.chunks)
        /\ OpsOfStream(b, n) = FlattenSeq(PartsOf(b, n))
        /\ \A k \in 1 .. Len(b.chunks) : PartsOf(b, n)[k] = PartOf(b, n, k)
    BY <1>2, PartsFacts
  <2>2. \A k \in 1 .. Len(PartsOf(b, n)) : PartsOf(b, n)[k] = <<>>
    BY <1>8, <2>1 DEF PartOf
  <2> QED
    BY <2>1, <2>2, FlattenNothing
<1>11. n \notin StreamsOf(b)
  BY <1>8 DEF StreamsOf
<1>12. CodeOf(d) = [s \in StreamsOf(b) \union {n} |-> IF s = n THEN <<>> ELSE CodeOf(b)[s]]
  BY <1>6, <1>9, <1>10, <1>11 DEF CodeOf
<1>13. Opens(b, d, n)
  BY <1>7, <1>11, <1>12 DEF Opens
<1> QED
  BY <1>1, <1>13 DEF n

-----------------------------------------------------------------------------
LEMMA MappedInit == Init => Streams!Init
<1> SUFFICES ASSUME Init PROVE Streams!Init
  OBVIOUS
<1>1. PICK g \in UninitLink : buffer = bc_buffer_create(g)
  BY DEF Init
<1>2. CodeOf(buffer) = [s \in {1} |-> <<>>] /\ Current(buffer).stream = 1
  BY <1>1, CreatedCode, SizesAssumption
<1> QED
  BY <1>2 DEF Streams!Init

(* Emitting is the abstract emission, starting and ending a function the
   abstract ones, and patching and recording a position are not seen. *)
LEMMA MappedStep ==
  BInv /\ [Next]_vars => [Streams!Next]_<<CodeOf(buffer), Current(buffer).stream>>
<1> SUFFICES ASSUME BInv, [Next]_vars
             PROVE  [Streams!Next]_<<CodeOf(buffer), Current(buffer).stream>>
  OBVIOUS
<1>0. /\ Sound(buffer, placeholders, label) /\ Typed(buffer)
      /\ inFunction <=> InFunction(buffer)
      /\ \A g \in UninitLink : g \in Nat
  BY SizesAssumption DEF BInv, Sound
<1> DEFINE open == Current(buffer).stream
<1>1. ASSUME NEW i \in Instruction, i.op \in JumpOps \union {j.op : j \in Plain},
             i.op # "OP_JMP_ADR", NEW g \in UninitLink, buffer' = Emitted(buffer, i, g),
             open' = open
      PROVE  Streams!Next
  <2>1. CodeOf(buffer') = [CodeOf(buffer) EXCEPT ![open] = Append(@, i.op)]
    BY <1>0, <1>1, EmittedCode
  <2>2. Streams!Emit
    BY <1>1, <2>1 DEF Streams!Emit
  <2> QED
    BY <2>2 DEF Streams!Next
<1>2. ASSUME NEW i \in Plain, EmitInstruction(i) PROVE Streams!Next
  <2>1. PICK g \in UninitLink : buffer' = Emitted(buffer, i, g)
    BY <1>2 DEF EmitInstruction
  <2>2. open' = open
    BY <1>0, <2>1, PlainFacts, EmittedSound
  <2> HIDE DEF open
  <2> QED
    BY <1>1, <2>1, <2>2, PlainFacts
<1>3. ASSUME NEW op \in ForwardJumps, bc_emit_jump_with_placeholder(op) PROVE Streams!Next
  <2>1. PICK g \in UninitLink : buffer' = Emitted(buffer, Jump(op, 0, 0), g)
    BY <1>3 DEF bc_emit_jump_with_placeholder
  <2>2. op \in JumpOps
    BY ForwardJumpsAssumption DEF JumpOps
  <2>3. /\ Jump(op, 0, 0) \in Instruction /\ Jump(op, 0, 0).op \in JumpOps
        /\ Jump(op, 0, 0).op # "OP_JMP_ADR"
    BY <2>2, JumpFacts
  <2>4. open' = open
    BY <1>0, <2>1, <2>2, PlaceholderSound
  <2> HIDE DEF open
  <2> QED
    BY <1>1, <2>1, <2>3, <2>4
<1>4. ASSUME NEW p \in placeholders, PatchPlaceholder(p)
      PROVE  UNCHANGED <<CodeOf(buffer), Current(buffer).stream>>
  <2>1. p.chunk \in DOMAIN buffer.chunks /\ p.offset \in DOMAIN buffer.chunks[p.chunk].code
    BY <1>0 DEF Sound, ArePlaceholders
  <2>2. Patches(buffer, p, buffer')
    BY <1>0, <1>4, <2>1, PatchedFacts DEF PatchPlaceholder
  <2>3. CodeOf(buffer') = CodeOf(buffer) /\ Current(buffer').stream = Current(buffer).stream
    BY <1>0, <2>1, <2>2, PatchedCode
  <2> QED
    BY <2>3
<1>5. ASSUME RecordLabel PROVE UNCHANGED <<CodeOf(buffer), Current(buffer).stream>>
  BY <1>5 DEF RecordLabel
<1>6. ASSUME bc_emit_opcode_with_jump("OP_JMP") PROVE Streams!Next
  <2>1. PICK l \in label, g \in UninitLink :
          buffer' = Emitted(buffer, Jump("OP_JMP", l.chunk - 1, l.offset), g)
    BY <1>6 DEF bc_emit_opcode_with_jump
  <2>2. "OP_JMP" \in JumpOps
    BY DEF JumpOps
  <2>3. LET i == Jump("OP_JMP", l.chunk - 1, l.offset) IN
        i \in Instruction /\ i.op \in JumpOps /\ i.op # "OP_JMP_ADR"
    BY <1>0, <2>1, <2>2, BackwardJumpLands
  <2>4. open' = open
    BY <1>0, <2>1, <2>2, BackwardJumpSound
  <2> HIDE DEF open
  <2> QED
    BY <1>1, <2>1, <2>3, <2>4
<1>7. ASSUME StartFunction PROVE Streams!Next
  <2>1. PICK g \in UninitLink : buffer' = bc_start_non_linked_chunk(buffer, g)
    BY <1>7 DEF StartFunction
  <2>2. Sound(buffer, {}, {}) /\ ~InFunction(buffer) /\ open = 1
    BY <1>0, <1>7 DEF StartFunction, InFunction
  <2>3. PICK n : Opens(buffer, buffer', n)
    BY <1>0, <2>1, <2>2, StartedCode
  <2>4. StreamsOf(buffer) = DOMAIN CodeOf(buffer)
    BY DEF CodeOf
  <2>5. Streams!Begin
    BY <2>2, <2>3, <2>4 DEF Streams!Begin, Opens
  <2> QED
    BY <2>5 DEF Streams!Next
<1>8. ASSUME EndFunction PROVE Streams!Next
  <2>1. Sound(buffer, {}, {}) /\ InFunction(buffer)
    BY <1>0, <1>8 DEF EndFunction
  <2>2. ~InFunction(buffer') /\ buffer'.chunks = buffer.chunks
    BY <1>8, <2>1, EndedSound DEF EndFunction
  <2>3. open # 1 /\ Current(buffer').stream = 1
    BY <2>1, <2>2 DEF InFunction
  <2>4. CodeOf(buffer') = CodeOf(buffer)
    BY <2>2 DEF CodeOf, StreamsOf, OpsOfStream
  <2>5. Streams!End
    BY <2>3, <2>4 DEF Streams!End
  <2> QED
    BY <2>5 DEF Streams!Next
<1>9. ASSUME UNCHANGED vars PROVE UNCHANGED <<CodeOf(buffer), Current(buffer).stream>>
  BY <1>9 DEF vars
<1> HIDE DEF open
<1> QED
  BY <1>2, <1>3, <1>4, <1>5, <1>6, <1>7, <1>8, <1>9 DEF Next

(* The buffer implements InstructionStreams: chunk overflows, links, patches and
   function chunks lose, duplicate and reorder nothing that is emitted. *)
THEOREM BufferImplementsStreams == Spec => ImplementsStreams
  BY BufferSound, MappedInit, MappedStep, PTL DEF Spec, ImplementsStreams, Streams!Spec
=============================================================================
