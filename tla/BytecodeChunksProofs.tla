-------------------------- MODULE BytecodeChunksProofs --------------------------
(***************************************************************************)
(* What the operations of BytecodeChunks preserve, for every capacity and  *)
(* every length of the instructions: lemmas for the proofs about the       *)
(* buffer (BytecodeBufferProofs) and the interpreter (TigeProofs).         *)
(***************************************************************************)
EXTENDS BytecodeChunks, SequenceTheorems, WellFoundedInduction, TLAPS

(* A chunk's code: instructions at some offsets. *)
Layout == UNION {[D -> Instruction] : D \in SUBSET Nat}

Chunk == [size : Nat, is_linked : BOOLEAN, linked_with : Nat, code : Layout, stream : Nat]

Buffer == [chunks : Seq(Chunk), current_chunk : Nat, next_chunk_id : Nat, return_to : Nat]

-----------------------------------------------------------------------------
\* The chunk with number i is the last of its stream.
EndsStream(b, i) ==
  \A j \in DOMAIN b.chunks : i < j => b.chunks[j].stream # b.chunks[i].stream

Typed(b) ==
  /\ b \in Buffer
  /\ b.current_chunk \in DOMAIN b.chunks
  /\ b.return_to \in DOMAIN b.chunks \union {0}
  /\ \A i \in DOMAIN b.chunks : b.chunks[i].stream \in 1 .. i

AllTiled(b) == \A i \in DOMAIN b.chunks : Tiled(b.chunks[i])

\* Room for the link is left as long as a link may have to be written.
RoomKept(b) ==
  \A i \in DOMAIN b.chunks : b.chunks[i].is_linked =>
    /\ b.chunks[i].size <= Capacity
    /\ EndsStream(b, i) => b.chunks[i].size + LinkReserve <= Capacity

\* A function's first chunk, which starts its stream, is not linked; the main
\* program's chunks, of stream 1, all are.
MainLinked(b) == \A i \in DOMAIN b.chunks : b.chunks[i].stream = 1 => b.chunks[i].is_linked

InFunction(b) == Current(b).stream # 1

\* Code is added at the end of a stream, and during a function the main
\* program waits at its own end.
OpenEnds(b) ==
  /\ EndsStream(b, b.current_chunk)
  /\ InFunction(b) => /\ b.return_to \in DOMAIN b.chunks
                      /\ b.chunks[b.return_to].stream = 1
                      /\ EndsStream(b, b.return_to)

\* What LinksContinueTheirStream says, of any buffer.
ContinuesIn(b, i, t) ==
  /\ i < t /\ b.chunks[t].stream = b.chunks[i].stream
  /\ \A j \in DOMAIN b.chunks : i < j /\ j < t => b.chunks[j].stream # b.chunks[i].stream

LinkedIn(b, i, t) ==
  \E o \in DOMAIN b.chunks[i].code :
    b.chunks[i].code[o] = Link(t - 1) /\ o + LinkLength = b.chunks[i].size

LinksLead(b) ==
  \A i \in DOMAIN b.chunks : \A o \in DOMAIN b.chunks[i].code :
    b.chunks[i].code[o].op = "OP_JMP_ADR" =>
      /\ b.chunks[i].code[o].x + 1 \in DOMAIN b.chunks
      /\ \E t \in DOMAIN b.chunks : ContinuesIn(b, i, t) /\ LinkedIn(b, i, t)

\* Offset y of chunk t is where an instruction of stream s begins or will begin.
Lands(b, s, t, y) ==
  /\ t \in DOMAIN b.chunks
  /\ b.chunks[t].stream = s
  /\ y \in DOMAIN b.chunks[t].code \union {b.chunks[t].size}

\* All jumps but the placeholders P lead to instructions.
JumpsLead(b, P) ==
  \A i \in DOMAIN b.chunks : \A o \in DOMAIN b.chunks[i].code :
    LET jump == b.chunks[i].code[o] IN
    jump.op \in JumpOps /\ [chunk |-> i, offset |-> o] \notin P =>
      Lands(b, b.chunks[i].stream, jump.x + 1, jump.y)

\* P are jumps that wait in the stream that is being emitted.
ArePlaceholders(b, P) ==
  \A p \in P :
    /\ p = [chunk |-> p.chunk, offset |-> p.offset]
    /\ p.chunk \in DOMAIN b.chunks
    /\ b.chunks[p.chunk].stream = Current(b).stream
    /\ p.offset \in DOMAIN b.chunks[p.chunk].code
    /\ b.chunks[p.chunk].code[p.offset].op \in JumpOps

AreLabels(b, L) == \A l \in L : Lands(b, Current(b).stream, l.chunk, l.offset)

\* The inductive invariant of the buffer, with the open jumps P and labels L.
Sound(b, P, L) ==
  /\ Typed(b) /\ AllTiled(b) /\ RoomKept(b) /\ MainLinked(b)
  /\ OpenEnds(b) /\ LinksLead(b)
  /\ JumpsLead(b, P) /\ ArePlaceholders(b, P) /\ AreLabels(b, L)

-----------------------------------------------------------------------------
(* Induction over the naturals, with the statement as a set. *)
LEMMA SetInduction ==
  ASSUME NEW S \in SUBSET Nat, 0 \in S, \A n \in S : n + 1 \in S
  PROVE  S = Nat
<1> DEFINE R == OpToRel(<, Nat)
<1>1. IsWellFoundedOn(R, Nat)
  BY NatLessThanWellFounded
<1>2. \A x, y \in Nat : x < y => <<x, y>> \in R
  BY DEF OpToRel
<1> HIDE DEF R
<1>3. SUFFICES ASSUME Nat \ S # {} PROVE FALSE
  OBVIOUS
<1>4. PICK n \in Nat \ S : \A m \in Nat \ S : ~(<<m, n>> \in R)
  BY <1>1, <1>3, WFMin
<1>5. n \in Nat /\ n # 0 /\ n \notin S
  BY <1>4
<1>6. n - 1 \in Nat /\ n - 1 < n /\ (n - 1) + 1 = n
  BY <1>5
<1>7. n - 1 \in S
  BY <1>2, <1>4, <1>6
<1> QED
  BY <1>5, <1>6, <1>7

LEMMA LayoutFacts ==
  ASSUME NEW f \in Layout
  PROVE  /\ DOMAIN f \subseteq Nat
         /\ f = [o \in DOMAIN f |-> f[o]]
         /\ \A o \in DOMAIN f : f[o] \in Instruction
<1>1. PICK D \in SUBSET Nat : f \in [D -> Instruction]
  BY DEF Layout
<1> QED
  BY <1>1

LEMMA InstructionFacts ==
  ASSUME NEW i \in Instruction
  PROVE  /\ i.len \in Nat /\ 1 <= i.len /\ i.len <= MaxLength
         /\ i.x \in Nat /\ i.y \in Nat /\ i.op \in STRING /\ i.fn \in STRING
  BY SizesAssumption DEF Instruction

LEMMA ChunkFacts ==
  ASSUME NEW c \in Chunk
  PROVE  /\ c.size \in Nat /\ c.is_linked \in BOOLEAN /\ c.linked_with \in Nat
         /\ c.stream \in Nat /\ c.code \in Layout
         /\ DOMAIN c.code \subseteq Nat
         /\ \A o \in DOMAIN c.code : c.code[o] \in Instruction
  BY LayoutFacts DEF Chunk

LEMMA WrittenFacts ==
  ASSUME NEW c \in Chunk, NEW i \in Instruction
  PROVE  LET w == Written(c, i) IN
         /\ w \in Chunk
         /\ w.size = c.size + i.len
         /\ w.is_linked = c.is_linked /\ w.linked_with = c.linked_with /\ w.stream = c.stream
         /\ DOMAIN w.code = DOMAIN c.code \union {c.size}
         /\ w.code[c.size] = i
         /\ \A o \in DOMAIN c.code : o # c.size => w.code[o] = c.code[o]
<1> DEFINE D == DOMAIN c.code \union {c.size}
           f == [o \in D |-> IF o = c.size THEN i ELSE c.code[o]]
<1>1. D \in SUBSET Nat
  BY ChunkFacts
<1>2. f \in [D -> Instruction]
  BY ChunkFacts
<1>3. f \in Layout
  BY <1>1, <1>2 DEF Layout
<1>4. Written(c, i) = [c EXCEPT !.code = f, !.size = c.size + i.len]
  BY DEF Written
<1>5. c.size + i.len \in Nat
  BY ChunkFacts, InstructionFacts
<1> HIDE DEF f
<1>6. LET w == Written(c, i) IN
         /\ w \in Chunk /\ w.size = c.size + i.len /\ w.code = f
         /\ w.is_linked = c.is_linked /\ w.linked_with = c.linked_with /\ w.stream = c.stream
  BY <1>3, <1>4, <1>5 DEF Chunk
<1> QED
  BY <1>6 DEF f

LEMMA TiledOffsets ==
  ASSUME NEW c \in Chunk, Tiled(c), NEW o \in DOMAIN c.code
  PROVE  /\ o \in Nat /\ o < c.size /\ o + c.code[o].len <= c.size
         /\ c.size \notin DOMAIN c.code
  BY ChunkFacts, InstructionFacts DEF Tiled

(* Writing an instruction at the end of a chunk leaves no gap. *)
LEMMA WrittenTiled ==
  ASSUME NEW c \in Chunk, NEW i \in Instruction, Tiled(c)
  PROVE  Tiled(Written(c, i))
<1> DEFINE w == Written(c, i)
<1> HIDE DEF w
<1>0. /\ w.size = c.size + i.len
      /\ DOMAIN w.code = DOMAIN c.code \union {c.size}
      /\ w.code[c.size] = i
      /\ \A o \in DOMAIN c.code : o # c.size => w.code[o] = c.code[o]
  BY WrittenFacts DEF w
<1>1. /\ w.size = c.size + i.len /\ w.size > c.size
      /\ DOMAIN w.code = DOMAIN c.code \union {c.size}
      /\ w.code[c.size] = i
      /\ \A o \in DOMAIN c.code : w.code[o] = c.code[o]
  BY <1>0, TiledOffsets, InstructionFacts, ChunkFacts
<1>2. 0 \in DOMAIN w.code
  BY <1>1, ChunkFacts DEF Tiled
<1>3. ASSUME NEW o \in DOMAIN w.code
      PROVE  LET end == o + w.code[o].len IN
               /\ end = w.size \/ end \in DOMAIN w.code
               /\ end <= w.size
               /\ \A q \in DOMAIN w.code : q <= o \/ end <= q
  <2>1. CASE o = c.size
    BY <1>1, <2>1, TiledOffsets, ChunkFacts, InstructionFacts
  <2>2. CASE o \in DOMAIN c.code
    <3>1. w.code[o] = c.code[o] /\ o \in Nat /\ c.code[o].len \in Nat /\ c.size \in Nat
      BY <1>1, <2>2, ChunkFacts, InstructionFacts
    <3> QED
      BY <1>1, <2>2, <3>1, InstructionFacts DEF Tiled
  <2> QED
    BY <1>1, <2>1, <2>2
<1> QED
  BY <1>2, <1>3 DEF Tiled, w

-----------------------------------------------------------------------------
LEMMA BufferFacts ==
  ASSUME NEW b, Typed(b)
  PROVE  /\ b.chunks \in Seq(Chunk) /\ Len(b.chunks) \in Nat
         /\ DOMAIN b.chunks = 1 .. Len(b.chunks)
         /\ b.current_chunk \in 1 .. Len(b.chunks) /\ b.next_chunk_id \in Nat
         /\ b.return_to \in Nat
         /\ \A i \in DOMAIN b.chunks : b.chunks[i] \in Chunk /\ b.chunks[i].stream \in 1 .. i
         /\ Current(b) = b.chunks[b.current_chunk] /\ Current(b) \in Chunk
<1>1. b.chunks \in Seq(Chunk) /\ b.next_chunk_id \in Nat /\ b.return_to \in Nat
  BY DEF Typed, Buffer
<1>2. DOMAIN b.chunks = 1 .. Len(b.chunks) /\ Len(b.chunks) \in Nat
  BY <1>1, LenProperties
<1>3. \A i \in DOMAIN b.chunks : b.chunks[i] \in Chunk
  BY <1>1, <1>2, ElementOfSeq
<1> QED
  BY <1>1, <1>2, <1>3 DEF Typed, Current

\* One chunk is replaced.
LEMMA ReplacedFacts ==
  ASSUME NEW b \in Buffer, NEW k \in DOMAIN b.chunks, NEW c \in Chunk
  PROVE  LET d == [b EXCEPT !.chunks = [b.chunks EXCEPT ![k] = c]] IN
         /\ d \in Buffer
         /\ DOMAIN d.chunks = DOMAIN b.chunks
         /\ d.current_chunk = b.current_chunk /\ d.return_to = b.return_to
         /\ d.next_chunk_id = b.next_chunk_id
         /\ d.chunks[k] = c
         /\ \A j \in DOMAIN b.chunks : j # k => d.chunks[j] = b.chunks[j]
<1> DEFINE s == [b.chunks EXCEPT ![k] = c]
<1>1. b.chunks \in Seq(Chunk)
  BY DEF Buffer
<1>2. k \in 1 .. Len(b.chunks)
  BY <1>1, LenProperties
<1>3. /\ s \in Seq(Chunk) /\ DOMAIN s = DOMAIN b.chunks
      /\ s[k] = c /\ \A j \in DOMAIN b.chunks : j # k => s[j] = b.chunks[j]
  BY <1>1, <1>2, ExceptSeq
<1> HIDE DEF s
<1> QED
  BY <1>3, SMTT(30) DEF Buffer

\* The instruction i is written to the current chunk, which has room for it.
Appended(b, i) == [b EXCEPT !.chunks[b.current_chunk] = Written(@, i)]

LEMMA AppendedFacts ==
  ASSUME NEW b, Typed(b), NEW i \in Instruction
  PROVE  LET d == Appended(b, i) IN
         /\ d \in Buffer
         /\ DOMAIN d.chunks = DOMAIN b.chunks
         /\ d.current_chunk = b.current_chunk /\ d.return_to = b.return_to
         /\ d.next_chunk_id = b.next_chunk_id
         /\ d.chunks[b.current_chunk] = Written(Current(b), i)
         /\ \A j \in DOMAIN b.chunks : j # b.current_chunk => d.chunks[j] = b.chunks[j]
<1>1. b \in Buffer /\ b.current_chunk \in DOMAIN b.chunks
  BY DEF Typed
<1>2. Written(Current(b), i) \in Chunk
  BY BufferFacts, WrittenFacts
<1>3. Appended(b, i) = [b EXCEPT !.chunks =
                          [b.chunks EXCEPT ![b.current_chunk] = Written(Current(b), i)]]
  BY <1>1 DEF Appended, Current, Buffer
<1> QED
  BY <1>1, <1>2, <1>3, ReplacedFacts

(* What emitting code keeps: the chunks there are keep their streams and their
   instructions, and the offset where a chunk ended is still where an
   instruction begins or will begin. *)
Extends(b, d) ==
  /\ DOMAIN b.chunks \subseteq DOMAIN d.chunks
  /\ \A k \in DOMAIN b.chunks :
       /\ d.chunks[k].stream = b.chunks[k].stream
       /\ d.chunks[k].is_linked = b.chunks[k].is_linked
       /\ DOMAIN b.chunks[k].code \subseteq DOMAIN d.chunks[k].code
       /\ \A o \in DOMAIN b.chunks[k].code : d.chunks[k].code[o] = b.chunks[k].code[o]
       /\ b.chunks[k].size \in DOMAIN d.chunks[k].code \union {d.chunks[k].size}

LEMMA ExtendsLands ==
  ASSUME NEW b, NEW d, Extends(b, d), NEW s, NEW t, NEW y, Lands(b, s, t, y)
  PROVE  Lands(d, s, t, y)
  BY DEF Extends, Lands

LEMMA AppendedExtends ==
  ASSUME NEW b, Typed(b), AllTiled(b), NEW i \in Instruction
  PROVE  Extends(b, Appended(b, i))
<1> DEFINE d == Appended(b, i)
           k == b.current_chunk
<1>1. /\ DOMAIN d.chunks = DOMAIN b.chunks /\ k \in DOMAIN b.chunks
      /\ d.chunks[k] = Written(b.chunks[k], i)
      /\ \A j \in DOMAIN b.chunks : j # k => d.chunks[j] = b.chunks[j]
  BY AppendedFacts, BufferFacts DEF Typed
<1>2. b.chunks[k] \in Chunk /\ Tiled(b.chunks[k])
  BY <1>1, BufferFacts DEF AllTiled
<1> HIDE DEF d, k
<1>3. /\ d.chunks[k].stream = b.chunks[k].stream
      /\ d.chunks[k].is_linked = b.chunks[k].is_linked
      /\ DOMAIN d.chunks[k].code = DOMAIN b.chunks[k].code \union {b.chunks[k].size}
      /\ \A o \in DOMAIN b.chunks[k].code : d.chunks[k].code[o] = b.chunks[k].code[o]
  BY <1>1, <1>2, WrittenFacts, TiledOffsets
<1>4. Extends(b, d)
  BY <1>1, <1>3 DEF Extends
<1> QED
  BY <1>4 DEF d

-----------------------------------------------------------------------------
\* All that AppendedSound needs to know about the chunks after the write.
LEMMA AppendedChunks ==
  ASSUME NEW b, Typed(b), AllTiled(b), NEW i \in Instruction
  PROVE  LET d    == Appended(b, i)
             k    == b.current_chunk
             size == Current(b).size
         IN
         /\ k \in DOMAIN b.chunks /\ DOMAIN d.chunks = DOMAIN b.chunks
         /\ d.current_chunk = k /\ d.return_to = b.return_to
         /\ Current(d).stream = Current(b).stream
         /\ \A j \in DOMAIN b.chunks : /\ d.chunks[j].stream = b.chunks[j].stream
                                       /\ d.chunks[j].is_linked = b.chunks[j].is_linked
         /\ \A j \in DOMAIN b.chunks : j # k => d.chunks[j] = b.chunks[j]
         /\ size = b.chunks[k].size /\ size \in Nat
         /\ d.chunks[k].size = size + i.len
         /\ DOMAIN d.chunks[k].code = DOMAIN b.chunks[k].code \union {size}
         /\ size \notin DOMAIN b.chunks[k].code
         /\ d.chunks[k].code[size] = i
         /\ \A o \in DOMAIN b.chunks[k].code : d.chunks[k].code[o] = b.chunks[k].code[o]
<1> DEFINE d == Appended(b, i)
           k == b.current_chunk
<1>1. /\ DOMAIN d.chunks = DOMAIN b.chunks /\ k \in DOMAIN b.chunks
      /\ d.current_chunk = k /\ d.return_to = b.return_to
      /\ d.chunks[k] = Written(b.chunks[k], i)
      /\ \A j \in DOMAIN b.chunks : j # k => d.chunks[j] = b.chunks[j]
  BY AppendedFacts, BufferFacts DEF Typed
<1>2. b.chunks[k] \in Chunk /\ Tiled(b.chunks[k]) /\ Current(b) = b.chunks[k]
      /\ b.chunks[k].size \in Nat
  BY <1>1, BufferFacts, ChunkFacts DEF AllTiled
<1>3. Current(d) = d.chunks[k]
  BY <1>1 DEF Current
<1> HIDE DEF d, k
<1>4. /\ d.chunks[k].stream = b.chunks[k].stream
      /\ d.chunks[k].is_linked = b.chunks[k].is_linked
      /\ DOMAIN d.chunks[k].code = DOMAIN b.chunks[k].code \union {b.chunks[k].size}
      /\ d.chunks[k].size = b.chunks[k].size + i.len
      /\ d.chunks[k].code[b.chunks[k].size] = i
      /\ b.chunks[k].size \notin DOMAIN b.chunks[k].code
      /\ \A o \in DOMAIN b.chunks[k].code : d.chunks[k].code[o] = b.chunks[k].code[o]
  BY <1>1, <1>2, WrittenFacts, TiledOffsets
<1> QED
  BY <1>1, <1>2, <1>3, <1>4 DEF d, k

(* Writing an instruction that is no link keeps the buffer sound, if there is
   room for it; a jump must lead somewhere or become a placeholder. *)
LEMMA AppendedSound ==
  ASSUME NEW b, NEW P, NEW L, Sound(b, P, L), NEW i \in Instruction,
         i.op # "OP_JMP_ADR",
         Current(b).is_linked => Current(b).size + i.len + LinkReserve <= Capacity,
         NEW Q, P \subseteq Q, Q \subseteq P \union {Position(b)},
         Position(b) \in Q => i.op \in JumpOps,
         i.op \in JumpOps => Position(b) \in Q \/ Lands(b, Current(b).stream, i.x + 1, i.y)
  PROVE  Sound(Appended(b, i), Q, L)
<1> DEFINE d == Appended(b, i)
           k == b.current_chunk
           size == Current(b).size
<1>0. Typed(b) /\ AllTiled(b)
  BY DEF Sound
<1>1. /\ k \in DOMAIN b.chunks /\ DOMAIN d.chunks = DOMAIN b.chunks
      /\ d.current_chunk = k /\ d.return_to = b.return_to
      /\ Current(d).stream = Current(b).stream
      /\ \A j \in DOMAIN b.chunks : /\ d.chunks[j].stream = b.chunks[j].stream
                                    /\ d.chunks[j].is_linked = b.chunks[j].is_linked
      /\ \A j \in DOMAIN b.chunks : j # k => d.chunks[j] = b.chunks[j]
      /\ size = b.chunks[k].size /\ size \in Nat
      /\ d.chunks[k].size = size + i.len
      /\ DOMAIN d.chunks[k].code = DOMAIN b.chunks[k].code \union {size}
      /\ size \notin DOMAIN b.chunks[k].code
      /\ d.chunks[k].code[size] = i
      /\ \A o \in DOMAIN b.chunks[k].code : d.chunks[k].code[o] = b.chunks[k].code[o]
  BY <1>0, AppendedChunks
<1>2. Extends(b, d)
  BY <1>0, AppendedExtends
<1>3. d \in Buffer /\ d.chunks[k] = Written(b.chunks[k], i) /\ b.chunks[k] = Current(b)
  BY <1>0, AppendedFacts, BufferFacts
<1>4. Position(b) = [chunk |-> k, offset |-> size]
  BY DEF Position
<1>5. DOMAIN b.chunks \subseteq Nat
  BY <1>0, BufferFacts
<1> HIDE DEF d, k, size
<1>6. \A j \in DOMAIN b.chunks : EndsStream(d, j) <=> EndsStream(b, j)
  BY <1>1 DEF EndsStream
<1>7. Typed(d)
  BY <1>0, <1>1, <1>3 DEF Typed
<1>8. AllTiled(d)
  <2>1. Tiled(d.chunks[k])
    BY <1>0, <1>1, <1>3, BufferFacts, WrittenTiled DEF AllTiled
  <2> QED
    BY <1>0, <1>1, <2>1 DEF AllTiled
<1>9. RoomKept(d)
  <2>1. b.chunks[k].is_linked => size + i.len + LinkReserve <= Capacity
    BY <1>3 DEF size
  <2>2. i.len \in Nat /\ LinkReserve \in Nat /\ Capacity \in Nat
    BY InstructionFacts, SizesAssumption
  <2> QED
    BY <1>1, <1>6, <2>1, <2>2 DEF RoomKept, Sound
<1>10. MainLinked(d)
  BY <1>1 DEF MainLinked, Sound
<1>11. OpenEnds(d)
  BY <1>1, <1>6 DEF OpenEnds, Sound, InFunction, k
<1>12. LinksLead(d)
  <2> SUFFICES ASSUME NEW j \in DOMAIN d.chunks, NEW o \in DOMAIN d.chunks[j].code,
                      d.chunks[j].code[o].op = "OP_JMP_ADR"
               PROVE  /\ d.chunks[j].code[o].x + 1 \in DOMAIN d.chunks
                      /\ \E t \in DOMAIN d.chunks : ContinuesIn(d, j, t) /\ LinkedIn(d, j, t)
    BY DEF LinksLead
  <2>1. o \in DOMAIN b.chunks[j].code /\ d.chunks[j].code[o] = b.chunks[j].code[o]
    BY <1>1
  <2>2. /\ b.chunks[j].code[o].x + 1 \in DOMAIN b.chunks
        /\ \E t \in DOMAIN b.chunks : ContinuesIn(b, j, t) /\ LinkedIn(b, j, t)
    BY <1>1, <2>1 DEF LinksLead, Sound
  <2>3. PICK t \in DOMAIN b.chunks : ContinuesIn(b, j, t) /\ LinkedIn(b, j, t)
    BY <2>2
  <2>4. j # k
    BY <2>3 DEF ContinuesIn, Sound, OpenEnds, EndsStream, k
  <2>5. ContinuesIn(d, j, t) /\ LinkedIn(d, j, t)
    BY <1>1, <2>3, <2>4 DEF ContinuesIn, LinkedIn
  <2> QED
    BY <1>1, <2>1, <2>2, <2>5
<1>13. JumpsLead(d, Q)
  <2> SUFFICES ASSUME NEW j \in DOMAIN d.chunks, NEW o \in DOMAIN d.chunks[j].code,
                      d.chunks[j].code[o].op \in JumpOps,
                      [chunk |-> j, offset |-> o] \notin Q
               PROVE  Lands(d, d.chunks[j].stream, d.chunks[j].code[o].x + 1,
                                                   d.chunks[j].code[o].y)
    BY DEF JumpsLead
  <2>1. CASE o \in DOMAIN b.chunks[j].code
    <3>1. d.chunks[j].code[o] = b.chunks[j].code[o] /\ j \in DOMAIN b.chunks
      BY <1>1, <2>1
    <3>2. Lands(b, b.chunks[j].stream, b.chunks[j].code[o].x + 1, b.chunks[j].code[o].y)
      BY <2>1, <3>1 DEF JumpsLead, Sound
    <3> QED
      BY <1>1, <1>2, <3>1, <3>2, ExtendsLands, SMTT(30)
  <2>2. CASE o \notin DOMAIN b.chunks[j].code
    <3>1. j = k /\ o = size /\ d.chunks[j].code[o] = i
      BY <1>1, <2>2
    <3>2. Lands(b, Current(b).stream, i.x + 1, i.y)
      BY <1>4, <3>1
    <3> QED
      BY <1>1, <1>2, <1>3, <3>1, <3>2, ExtendsLands, SMTT(30)
  <2> QED
    BY <2>1, <2>2
<1>14. ArePlaceholders(d, Q)
  <2> SUFFICES ASSUME NEW p \in Q
               PROVE  /\ p = [chunk |-> p.chunk, offset |-> p.offset]
                      /\ p.chunk \in DOMAIN d.chunks
                      /\ d.chunks[p.chunk].stream = Current(d).stream
                      /\ p.offset \in DOMAIN d.chunks[p.chunk].code
                      /\ d.chunks[p.chunk].code[p.offset].op \in JumpOps
    BY DEF ArePlaceholders
  <2>1. CASE p \in P
    BY <1>1, <2>1 DEF ArePlaceholders, Sound
  <2>2. CASE p = Position(b)
    <3>1. p = [chunk |-> k, offset |-> size] /\ p.chunk = k /\ p.offset = size
      BY <1>4, <2>2
    <3> QED
      BY <1>1, <1>3, <2>2, <3>1
  <2> QED
    BY <2>1, <2>2
<1>15. AreLabels(d, L)
  BY <1>1, <1>2, ExtendsLands DEF AreLabels, Sound
<1> QED
  BY <1>7, <1>8, <1>9, <1>10, <1>11, <1>12, <1>13, <1>14, <1>15 DEF Sound, d

-----------------------------------------------------------------------------
LEMMA LinkIsInstruction ==
  ASSUME NEW id \in Nat
  PROVE  /\ Link(id) \in Instruction
         /\ Link(id).op = "OP_JMP_ADR" /\ Link(id).op \notin JumpOps
         /\ Link(id).x = id /\ Link(id).len = LinkLength
<1>1. LinkLength \in 1 .. MaxLength
  BY SizesAssumption
<1>2. /\ Link(id).op = "OP_JMP_ADR" /\ Link(id).x = id /\ Link(id).len = LinkLength
  BY DEF Link
<1>3. "OP_JMP_ADR" \in STRING /\ "" \in STRING
  BY StringsAssumption
<1>4. Link(id) \in Instruction
  BY <1>1, <1>3 DEF Link, Instruction
<1> QED
  BY <1>2, <1>4 DEF JumpOps

LEMMA EmptyLayout ==
  << >> \in Layout /\ DOMAIN << >> = {}
<1>1. DOMAIN << >> = {} /\ << >> \in [{} -> Instruction]
  OBVIOUS
<1> QED
  BY <1>1 DEF Layout

LEMMA NewChunk ==
  ASSUME NEW link \in BOOLEAN, NEW g \in Nat, NEW s \in Nat
  PROVE  LET c == bc_create_bytecode_chunk(link, g, s) IN
         /\ c \in Chunk /\ c.size = 0 /\ (c.is_linked <=> link) /\ c.stream = s
         /\ DOMAIN c.code = {} /\ Tiled(c)
<1> DEFINE c == bc_create_bytecode_chunk(link, g, s)
<1>1. c \in Chunk /\ c.size = 0 /\ (c.is_linked <=> link) /\ c.stream = s /\ c.code = << >>
  BY EmptyLayout DEF bc_create_bytecode_chunk, Chunk
<1> HIDE DEF c
<1>2. DOMAIN c.code = {}
  BY <1>1, EmptyLayout
<1>3. Tiled(c)
  BY <1>1, <1>2 DEF Tiled
<1> QED
  BY <1>1, <1>2, <1>3 DEF c

(* d is b with a new chunk at its tail; the current chunk is at most given a
   link to it. *)
Adds(b, link, d) ==
  LET k == b.current_chunk
      n == Len(b.chunks) + 1
  IN
     /\ d \in Buffer /\ n \in Nat
     /\ DOMAIN d.chunks = DOMAIN b.chunks \union {n}
     /\ DOMAIN b.chunks = 1 .. n - 1 /\ k \in 1 .. n - 1
     /\ d.current_chunk = n /\ d.return_to = b.return_to
     /\ d.chunks[n] \in Chunk /\ d.chunks[n].size = 0
     /\ (d.chunks[n].is_linked <=> link) /\ DOMAIN d.chunks[n].code = {}
     /\ Tiled(d.chunks[n])
     /\ link => d.chunks[n].stream = Current(b).stream
     /\ ~link => d.chunks[n].stream = n
     /\ \A j \in DOMAIN b.chunks : j # k => d.chunks[j] = b.chunks[j]
     /\ \/ d.chunks[k] = b.chunks[k]
        \/ link /\ d.chunks[k] = Written(b.chunks[k], Link(n - 1))

LEMMA AddedFacts ==
  ASSUME NEW b, Typed(b), NEW link \in BOOLEAN, NEW g \in Nat
  PROVE  Adds(b, link, bc_add_new_chunk(b, link, g))
<1> DEFINE k     == b.current_chunk
           id    == Len(b.chunks)
           n     == id + 1
           joins == link /\ Current(b).linked_with = id
           s     == IF link THEN Current(b).stream ELSE n
           new   == bc_create_bytecode_chunk(link, IF joins THEN n ELSE g, s)
           old   == IF joins THEN [b.chunks EXCEPT ![k] = Written(@, Link(id))] ELSE b.chunks
           d     == bc_add_new_chunk(b, link, g)
<1>1. /\ b.chunks \in Seq(Chunk) /\ id \in Nat /\ n \in Nat /\ n # 0 /\ id = n - 1
      /\ DOMAIN b.chunks = 1 .. id /\ k \in 1 .. id /\ b.chunks[k] \in Chunk
      /\ Current(b).stream \in Nat
  BY BufferFacts, ChunkFacts
<1>2. d = [b EXCEPT !.chunks = Append(old, new), !.current_chunk = n, !.next_chunk_id = n]
  BY DEF bc_add_new_chunk
<1>3. /\ new \in Chunk /\ new.size = 0 /\ (new.is_linked <=> link) /\ new.stream = s
      /\ DOMAIN new.code = {} /\ Tiled(new)
  BY <1>1, NewChunk
<1>4. /\ old \in Seq(Chunk) /\ Len(old) = id
      /\ \A j \in 1 .. id : j # k => old[j] = b.chunks[j]
      /\ \/ old[k] = b.chunks[k]
         \/ link /\ old[k] = Written(b.chunks[k], Link(id))
  <2>1. CASE joins
    <3>1. Written(b.chunks[k], Link(id)) \in Chunk
      BY <1>1, LinkIsInstruction, WrittenFacts
    <3>2. old = [b.chunks EXCEPT ![k] = Written(b.chunks[k], Link(id))]
      BY <1>1, <2>1
    <3> HIDE DEF old
    <3> QED
      BY <1>1, <2>1, <3>1, <3>2, ExceptSeq
  <2>2. CASE ~joins
    BY <1>1, <2>2
  <2> QED
    BY <2>1, <2>2
<1> HIDE DEF new, old, s
<1>5. /\ Append(old, new) \in Seq(Chunk) /\ Len(Append(old, new)) = n
      /\ \A j \in 1 .. id : Append(old, new)[j] = old[j]
      /\ Append(old, new)[n] = new
  BY <1>3, <1>4, AppendProperties
<1>6. DOMAIN Append(old, new) = DOMAIN b.chunks \union {n}
  <2>1. DOMAIN Append(old, new) = 1 .. n
    BY <1>5, LenProperties
  <2> QED
    BY <1>1, <2>1
<1>7. b \in Buffer
  BY DEF Typed
<1>8. /\ d \in Buffer /\ d.chunks = Append(old, new)
      /\ d.current_chunk = n /\ d.return_to = b.return_to
  <2> HIDE DEF n, d
  <2> QED
    BY <1>1, <1>2, <1>5, <1>7 DEF Buffer
<1> HIDE DEF d
<1>9. /\ link => d.chunks[n].stream = Current(b).stream
      /\ ~link => d.chunks[n].stream = n
  BY <1>3, <1>5, <1>8 DEF s
<1> QED
  BY <1>1, <1>3, <1>4, <1>5, <1>6, <1>8, <1>9 DEF d, Adds

\* What the chunks there were hold after a chunk is added.
LEMMA AddedChunks ==
  ASSUME NEW b, Typed(b), AllTiled(b), NEW link \in BOOLEAN, NEW g \in Nat
  PROVE  LET d    == bc_add_new_chunk(b, link, g)
             k    == b.current_chunk
             n    == Len(b.chunks) + 1
             size == b.chunks[k].size
         IN
         /\ Extends(b, d) /\ Typed(d) /\ AllTiled(d)
         /\ \/ d.chunks[k] = b.chunks[k]
            \/ /\ link
               /\ size \notin DOMAIN b.chunks[k].code
               /\ DOMAIN d.chunks[k].code = DOMAIN b.chunks[k].code \union {size}
               /\ d.chunks[k].code[size] = Link(n - 1)
               /\ d.chunks[k].size = size + LinkLength
<1> DEFINE d    == bc_add_new_chunk(b, link, g)
           k    == b.current_chunk
           n    == Len(b.chunks) + 1
           size == b.chunks[k].size
<1>1. /\ d \in Buffer /\ n \in Nat
      /\ DOMAIN d.chunks = DOMAIN b.chunks \union {n}
      /\ DOMAIN b.chunks = 1 .. n - 1 /\ k \in 1 .. n - 1
      /\ d.current_chunk = n /\ d.return_to = b.return_to
      /\ d.chunks[n] \in Chunk
      /\ Tiled(d.chunks[n])
      /\ link => d.chunks[n].stream = Current(b).stream
      /\ ~link => d.chunks[n].stream = n
      /\ \A j \in DOMAIN b.chunks : j # k => d.chunks[j] = b.chunks[j]
      /\ \/ d.chunks[k] = b.chunks[k]
         \/ link /\ d.chunks[k] = Written(b.chunks[k], Link(n - 1))
  <2>1. Adds(b, link, d)
    BY AddedFacts
  <2> HIDE DEF d
  <2> QED
    BY <2>1 DEF Adds
<1>2. /\ b.chunks[k] \in Chunk /\ Tiled(b.chunks[k]) /\ k \in DOMAIN b.chunks
      /\ Current(b) = b.chunks[k]
      /\ \A j \in DOMAIN b.chunks : b.chunks[j].stream \in 1 .. j
      /\ b.return_to \in DOMAIN b.chunks \union {0}
  BY <1>1, BufferFacts DEF AllTiled, Typed
<1> HIDE DEF d, k, n
<1>3. /\ Link(n - 1) \in Instruction /\ Link(n - 1).len = LinkLength
  BY <1>1, <1>2, LinkIsInstruction
<1>4. \/ d.chunks[k] = b.chunks[k]
      \/ /\ link
         /\ d.chunks[k].stream = b.chunks[k].stream
         /\ d.chunks[k].is_linked = b.chunks[k].is_linked
         /\ Tiled(d.chunks[k])
         /\ size \notin DOMAIN b.chunks[k].code
         /\ DOMAIN d.chunks[k].code = DOMAIN b.chunks[k].code \union {size}
         /\ \A o \in DOMAIN b.chunks[k].code : d.chunks[k].code[o] = b.chunks[k].code[o]
         /\ d.chunks[k].code[size] = Link(n - 1)
         /\ d.chunks[k].size = size + LinkLength
  <2>1. CASE d.chunks[k] = b.chunks[k]
    BY <2>1
  <2>2. CASE link /\ d.chunks[k] = Written(b.chunks[k], Link(n - 1))
    <3> DEFINE i == Link(n - 1)
               c == b.chunks[k]
    <3>1. c \in Chunk /\ Tiled(c) /\ i \in Instruction /\ i.len = LinkLength
      BY <1>2, <1>3
    <3>2. d.chunks[k] = Written(c, i) /\ link
      BY <2>2
    <3> HIDE DEF i, c
    <3>3. /\ Tiled(Written(c, i)) /\ c.size \notin DOMAIN c.code
          /\ \A o \in DOMAIN c.code : o # c.size
      BY <3>1, WrittenTiled, TiledOffsets
    <3>4. /\ d.chunks[k].stream = c.stream
          /\ d.chunks[k].is_linked = c.is_linked
          /\ Tiled(d.chunks[k])
          /\ c.size \notin DOMAIN c.code
          /\ DOMAIN d.chunks[k].code = DOMAIN c.code \union {c.size}
          /\ \A o \in DOMAIN c.code : d.chunks[k].code[o] = c.code[o]
          /\ d.chunks[k].code[c.size] = i
          /\ d.chunks[k].size = c.size + LinkLength
      BY <3>1, <3>2, <3>3, WrittenFacts
    <3> QED
      BY <3>2, <3>4 DEF i, c
  <2> QED
    BY <1>1, <2>1, <2>2
<1>5. Extends(b, d)
  BY <1>1, <1>4 DEF Extends
<1>6. AllTiled(d)
  BY <1>1, <1>2, <1>4 DEF AllTiled
<1>7. Typed(d)
  <2>1. \A j \in DOMAIN b.chunks : d.chunks[j].stream \in 1 .. j
    BY <1>2, <1>5 DEF Extends
  <2>2. d.chunks[n].stream \in 1 .. n
    BY <1>1, <1>2
  <2>3. n \in DOMAIN d.chunks /\ \A j \in DOMAIN d.chunks : j = n \/ j \in DOMAIN b.chunks
    BY <1>1
  <2> QED
    BY <1>1, <1>2, <2>1, <2>2, <2>3 DEF Typed
<1> QED
  BY <1>4, <1>5, <1>6, <1>7 DEF d, k, n

\* Jumps, placeholders and labels are as good as before.
LEMMA AddedJumps ==
  ASSUME NEW b, NEW P, NEW L, Sound(b, P, L), NEW link \in BOOLEAN, NEW g \in Nat
  PROVE  JumpsLead(bc_add_new_chunk(b, link, g), P)
<1> DEFINE d    == bc_add_new_chunk(b, link, g)
           k    == b.current_chunk
           n    == Len(b.chunks) + 1
           size == b.chunks[k].size
<1>0. Typed(b) /\ AllTiled(b)
  BY DEF Sound
<1>1. /\ DOMAIN d.chunks = DOMAIN b.chunks \union {n} /\ n \in Nat
      /\ DOMAIN d.chunks[n].code = {}
      /\ \A j \in DOMAIN b.chunks : j # k => d.chunks[j] = b.chunks[j]
  <2>1. Adds(b, link, d)
    BY <1>0, AddedFacts
  <2> HIDE DEF d
  <2> QED
    BY <2>1 DEF Adds
<1>2. Extends(b, d)
  BY <1>0, AddedChunks
<1>3. \/ d.chunks[k] = b.chunks[k]
      \/ /\ DOMAIN d.chunks[k].code = DOMAIN b.chunks[k].code \union {size}
         /\ d.chunks[k].code[size] = Link(n - 1)
  BY <1>0, AddedChunks
<1>4. Link(n - 1).op \notin JumpOps
  BY <1>0, BufferFacts, LinkIsInstruction
<1> HIDE DEF d, k, n
<1>5. SUFFICES ASSUME NEW j \in DOMAIN d.chunks, NEW o \in DOMAIN d.chunks[j].code,
                      d.chunks[j].code[o].op \in JumpOps,
                      [chunk |-> j, offset |-> o] \notin P
               PROVE  Lands(d, d.chunks[j].stream, d.chunks[j].code[o].x + 1,
                                                   d.chunks[j].code[o].y)
  BY DEF JumpsLead, d
<1>6. j \in DOMAIN b.chunks
  BY <1>1
<1>7. o \in DOMAIN b.chunks[j].code
  BY <1>1, <1>3, <1>4, <1>5, <1>6
<1>8. d.chunks[j].code[o] = b.chunks[j].code[o] /\ d.chunks[j].stream = b.chunks[j].stream
  BY <1>2, <1>6, <1>7 DEF Extends
<1>9. Lands(b, b.chunks[j].stream, b.chunks[j].code[o].x + 1, b.chunks[j].code[o].y)
  BY <1>5, <1>6, <1>7, <1>8 DEF JumpsLead, Sound
<1> QED
  BY <1>2, <1>8, <1>9, ExtendsLands

LEMMA AddedLinkedSound ==
  ASSUME NEW b, NEW P, NEW L, Sound(b, P, L), NEW link \in BOOLEAN, link, NEW g \in Nat
  PROVE  LET d == bc_add_new_chunk(b, link, g) IN
         /\ Sound(d, P, L) /\ Extends(b, d)
         /\ Current(d).stream = Current(b).stream /\ Current(d).size = 0
<1> DEFINE d    == bc_add_new_chunk(b, link, g)
           k    == b.current_chunk
           n    == Len(b.chunks) + 1
           size == b.chunks[k].size
<1>0. Typed(b) /\ AllTiled(b)
  BY DEF Sound
<1>1. /\ n \in Nat
      /\ DOMAIN d.chunks = DOMAIN b.chunks \union {n}
      /\ DOMAIN b.chunks = 1 .. n - 1 /\ k \in 1 .. n - 1
      /\ d.current_chunk = n /\ d.return_to = b.return_to
      /\ d.chunks[n].size = 0
      /\ d.chunks[n].is_linked /\ DOMAIN d.chunks[n].code = {}
      /\ d.chunks[n].stream = Current(b).stream
      /\ \A j \in DOMAIN b.chunks : j # k => d.chunks[j] = b.chunks[j]
  <2>1. Adds(b, link, d)
    BY <1>0, AddedFacts
  <2> HIDE DEF d
  <2> QED
    BY <2>1 DEF Adds
<1>2. Extends(b, d) /\ Typed(d) /\ AllTiled(d)
  BY <1>0, AddedChunks
<1>3. \/ d.chunks[k] = b.chunks[k]
      \/ /\ size \notin DOMAIN b.chunks[k].code
         /\ DOMAIN d.chunks[k].code = DOMAIN b.chunks[k].code \union {size}
         /\ d.chunks[k].code[size] = Link(n - 1)
         /\ d.chunks[k].size = size + LinkLength
  BY <1>0, AddedChunks
<1>4. Current(b) = b.chunks[k] /\ Current(d) = d.chunks[n]
  BY <1>1 DEF Current
<1>5. /\ n - 1 \in Nat /\ Link(n - 1).x = n - 1 /\ size \in Nat /\ n \in DOMAIN d.chunks
      /\ k \in DOMAIN b.chunks /\ k < n /\ k \in Nat
  <2> HIDE DEF n, k, d
  <2>1. n - 1 \in Nat /\ k \in DOMAIN b.chunks /\ k < n /\ k \in Nat /\ n \in DOMAIN d.chunks
    BY <1>1
  <2>2. Link(n - 1).x = n - 1
    BY <2>1, LinkIsInstruction
  <2>3. size \in Nat
    BY <1>0, <2>1, BufferFacts, ChunkFacts
  <2> QED
    BY <2>1, <2>2, <2>3
<1>6. JumpsLead(d, P)
  BY AddedJumps
<1> HIDE DEF d, k, n, size
<1>7. \A j \in DOMAIN b.chunks : /\ d.chunks[j].stream = b.chunks[j].stream
                                 /\ d.chunks[j].is_linked = b.chunks[j].is_linked
  BY <1>2 DEF Extends
<1>8. \A j \in DOMAIN b.chunks : EndsStream(d, j) => EndsStream(b, j) /\ j # k
  BY <1>1, <1>4, <1>5, <1>7 DEF EndsStream
<1>9. RoomKept(d)
  <2>1. LinkReserve <= Capacity /\ LinkReserve \in Nat /\ Capacity \in Nat
        /\ LinkLength \in Nat /\ LinkLength <= LinkReserve
    BY SizesAssumption
  <2>2. EndsStream(b, k)
    BY DEF Sound, OpenEnds, k
  <2>3. d.chunks[k].is_linked => d.chunks[k].size <= Capacity
    BY <1>3, <1>5, <1>7, <2>1, <2>2 DEF RoomKept, Sound, size
  <2>4. \A j \in DOMAIN b.chunks : j # k => d.chunks[j] = b.chunks[j]
    BY <1>1
  <2>5. ASSUME NEW j \in DOMAIN b.chunks, d.chunks[j].is_linked
        PROVE  /\ d.chunks[j].size <= Capacity
               /\ EndsStream(d, j) => d.chunks[j].size + LinkReserve <= Capacity
    BY <1>8, <2>3, <2>4, <2>5 DEF RoomKept, Sound
  <2> QED
    BY <1>1, <2>1, <2>5 DEF RoomKept
<1>10. MainLinked(d)
  BY <1>1, <1>7 DEF MainLinked, Sound
<1>11. OpenEnds(d)
  <2>1. EndsStream(d, n)
    BY <1>1 DEF EndsStream
  <2>2. ASSUME InFunction(d)
        PROVE  /\ d.return_to \in DOMAIN d.chunks
               /\ d.chunks[d.return_to].stream = 1
               /\ EndsStream(d, d.return_to)
    <3>1. InFunction(b)
      BY <1>1, <1>4, <2>2 DEF InFunction
    <3>2. /\ b.return_to \in DOMAIN b.chunks
          /\ b.chunks[b.return_to].stream = 1
          /\ EndsStream(b, b.return_to)
      BY <3>1 DEF Sound, OpenEnds
    <3>3. d.chunks[n].stream # 1
      BY <1>1, <3>1 DEF InFunction
    <3> QED
      BY <1>1, <1>7, <3>2, <3>3 DEF EndsStream
  <2> QED
    BY <1>1, <2>1, <2>2 DEF OpenEnds
<1>12. LinksLead(d)
  <2> SUFFICES ASSUME NEW j \in DOMAIN d.chunks, NEW o \in DOMAIN d.chunks[j].code,
                      d.chunks[j].code[o].op = "OP_JMP_ADR"
               PROVE  /\ d.chunks[j].code[o].x + 1 \in DOMAIN d.chunks
                      /\ \E t \in DOMAIN d.chunks : ContinuesIn(d, j, t) /\ LinkedIn(d, j, t)
    BY DEF LinksLead
  <2>1. j \in DOMAIN b.chunks
    BY <1>1
  <2>2. CASE o \in DOMAIN b.chunks[j].code
    <3>1. d.chunks[j].code[o] = b.chunks[j].code[o]
      BY <1>2, <2>1, <2>2 DEF Extends
    <3>2. /\ b.chunks[j].code[o].x + 1 \in DOMAIN b.chunks
          /\ \E t \in DOMAIN b.chunks : ContinuesIn(b, j, t) /\ LinkedIn(b, j, t)
      BY <2>1, <2>2, <3>1 DEF LinksLead, Sound
    <3>3. PICK t \in DOMAIN b.chunks : ContinuesIn(b, j, t) /\ LinkedIn(b, j, t)
      BY <3>2
    <3>4. j # k
      BY <3>3 DEF ContinuesIn, Sound, OpenEnds, EndsStream, k
    <3>5. ContinuesIn(d, j, t)
      BY <1>1, <1>7, <2>1, <3>3 DEF ContinuesIn
    <3>6. LinkedIn(d, j, t)
      BY <1>1, <2>1, <3>3, <3>4 DEF LinkedIn
    <3> QED
      BY <1>1, <3>1, <3>2, <3>5, <3>6
  <2>3. CASE o \notin DOMAIN b.chunks[j].code
    <3>1. j = k /\ o = size /\ d.chunks[k].code[size] = Link(n - 1)
          /\ d.chunks[k].size = size + LinkLength
      BY <1>1, <1>3, <2>1, <2>3
    <3>2. ContinuesIn(d, k, n)
      BY <1>1, <1>4, <1>5, <1>7 DEF ContinuesIn, Sound, OpenEnds, EndsStream, k
    <3>3. LinkedIn(d, k, n)
      BY <3>1 DEF LinkedIn
    <3> QED
      BY <1>1, <1>5, <3>1, <3>2, <3>3
  <2> QED
    BY <2>2, <2>3
<1>13. ArePlaceholders(d, P)
  BY <1>1, <1>2, <1>4 DEF ArePlaceholders, Sound, Extends
<1>14. AreLabels(d, L)
  BY <1>1, <1>2, <1>4, ExtendsLands DEF AreLabels, Sound
<1> QED
  BY <1>1, <1>2, <1>4, <1>6, <1>9, <1>10, <1>11, <1>12, <1>13, <1>14 DEF Sound, d

-----------------------------------------------------------------------------
LEMMA ExtendsReflexive ==
  ASSUME NEW b
  PROVE  Extends(b, b)
  BY DEF Extends

LEMMA ExtendsTransitive ==
  ASSUME NEW b, NEW e, NEW d, Extends(b, e), Extends(e, d)
  PROVE  Extends(b, d)
<1>1. DOMAIN b.chunks \subseteq DOMAIN d.chunks
  BY DEF Extends
<1>2. ASSUME NEW k \in DOMAIN b.chunks
      PROVE  /\ d.chunks[k].stream = b.chunks[k].stream
             /\ d.chunks[k].is_linked = b.chunks[k].is_linked
             /\ DOMAIN b.chunks[k].code \subseteq DOMAIN d.chunks[k].code
             /\ \A o \in DOMAIN b.chunks[k].code : d.chunks[k].code[o] = b.chunks[k].code[o]
             /\ b.chunks[k].size \in DOMAIN d.chunks[k].code \union {d.chunks[k].size}
  <2>1. k \in DOMAIN e.chunks
    BY DEF Extends
  <2>2. /\ e.chunks[k].stream = b.chunks[k].stream
        /\ e.chunks[k].is_linked = b.chunks[k].is_linked
        /\ DOMAIN b.chunks[k].code \subseteq DOMAIN e.chunks[k].code
        /\ \A o \in DOMAIN b.chunks[k].code : e.chunks[k].code[o] = b.chunks[k].code[o]
        /\ b.chunks[k].size \in DOMAIN e.chunks[k].code \union {e.chunks[k].size}
    BY DEF Extends
  <2>3. /\ d.chunks[k].stream = e.chunks[k].stream
        /\ d.chunks[k].is_linked = e.chunks[k].is_linked
        /\ DOMAIN e.chunks[k].code \subseteq DOMAIN d.chunks[k].code
        /\ \A o \in DOMAIN e.chunks[k].code : d.chunks[k].code[o] = e.chunks[k].code[o]
        /\ e.chunks[k].size \in DOMAIN d.chunks[k].code \union {d.chunks[k].size}
    BY <2>1 DEF Extends
  <2> QED
    BY <2>2, <2>3
<1> QED
  BY <1>1, <1>2 DEF Extends

(* There is room for an instruction in a chunk without code. *)
LEMMA EnsuredSound ==
  ASSUME NEW b, NEW P, NEW L, Sound(b, P, L),
         NEW needed \in Nat, needed <= MaxLength, NEW g \in Nat
  PROVE  LET e == bc_ensure_chunk_capacity(b, needed, g) IN
         /\ Sound(e, P, L) /\ Extends(b, e)
         /\ Current(e).stream = Current(b).stream
         /\ Current(e).is_linked => Current(e).size + needed + LinkReserve <= Capacity
<1> DEFINE e == bc_ensure_chunk_capacity(b, needed, g)
           room == IF Current(b).is_linked THEN LinkReserve ELSE 0
<1>1. Typed(b) /\ Current(b).size \in Nat
  BY BufferFacts, ChunkFacts DEF Sound
<1>2. CASE Current(b).size + needed + room <= Capacity
  <2>1. e = b
    BY <1>2 DEF bc_ensure_chunk_capacity
  <2> QED
    BY <1>1, <1>2, <2>1, ExtendsReflexive
<1>3. CASE ~(Current(b).size + needed + room <= Capacity)
  <2>1. e = bc_add_new_chunk(b, TRUE, g)
    BY <1>3 DEF bc_ensure_chunk_capacity
  <2> HIDE DEF e
  <2>2. /\ Sound(e, P, L) /\ Extends(b, e)
        /\ Current(e).stream = Current(b).stream /\ Current(e).size = 0
    BY <2>1, AddedLinkedSound
  <2>3. 0 + needed + LinkReserve <= Capacity
    BY SizesAssumption
  <2> QED
    BY <2>2, <2>3 DEF e
<1> QED
  BY <1>2, <1>3

LEMMA EmittedIsAppended ==
  ASSUME NEW b, NEW i, NEW g
  PROVE  Emitted(b, i, g) = Appended(bc_ensure_chunk_capacity(b, i.len, g), i)
  BY DEF Emitted, Appended

(* Emitting an instruction: what was there stays and the buffer stays sound, if
   a jump leads somewhere in the stream that is being emitted. *)
LEMMA EmittedSound ==
  ASSUME NEW b, NEW P, NEW L, Sound(b, P, L), NEW i \in Instruction, NEW g \in Nat,
         i.op # "OP_JMP_ADR",
         i.op \in JumpOps => Lands(b, Current(b).stream, i.x + 1, i.y)
  PROVE  LET d == Emitted(b, i, g) IN
         Sound(d, P, L) /\ Extends(b, d) /\ Current(d).stream = Current(b).stream
<1> DEFINE e == bc_ensure_chunk_capacity(b, i.len, g)
           d == Appended(e, i)
<1>1. /\ Sound(e, P, L) /\ Extends(b, e)
      /\ Current(e).stream = Current(b).stream
      /\ Current(e).is_linked => Current(e).size + i.len + LinkReserve <= Capacity
  BY EnsuredSound, InstructionFacts
<1> HIDE DEF e
<1>2. Typed(e) /\ AllTiled(e)
  BY <1>1 DEF Sound
<1>3. Extends(e, d) /\ Current(d).stream = Current(e).stream
  BY <1>2, AppendedExtends, AppendedChunks
<1>4. i.op \in JumpOps => Lands(e, Current(e).stream, i.x + 1, i.y)
  BY <1>1, ExtendsLands
<1>5. CASE Position(e) \in P
  <2>1. Position(e).offset \in DOMAIN e.chunks[Position(e).chunk].code
    BY <1>1, <1>5 DEF Sound, ArePlaceholders
  <2>2. Current(e).size \in DOMAIN Current(e).code
    BY <2>1 DEF Position, Current
  <2> QED
    BY <1>2, <2>2, AppendedChunks DEF Current
<1>6. CASE Position(e) \notin P
  <2>1. Sound(d, P, L)
    BY <1>1, <1>4, <1>6, AppendedSound
  <2> QED
    BY <1>1, <1>3, <2>1, ExtendsTransitive, EmittedIsAppended DEF e
<1> QED
  BY <1>5, <1>6

LEMMA JumpFacts ==
  ASSUME NEW op \in JumpOps, NEW id \in Nat, NEW offset \in Nat
  PROVE  LET i == Jump(op, id, offset) IN
         /\ i \in Instruction /\ i.op = op /\ i.op # "OP_JMP_ADR"
         /\ i.x = id /\ i.y = offset /\ i.len = JumpLength
<1>1. JumpLength \in 1 .. MaxLength /\ op \in STRING /\ "" \in STRING
  BY SizesAssumption, StringsAssumption
<1>2. op # "OP_JMP_ADR"
  BY DEF JumpOps
<1> QED
  BY <1>1, <1>2 DEF Jump, Instruction

(* The jump emitted last waits for its target, at the place LastWritten tells. *)
LEMMA PlaceholderSound ==
  ASSUME NEW b, NEW P, NEW L, Sound(b, P, L), NEW op \in JumpOps, NEW opp, NEW g \in Nat
  PROVE  LET d == Emitted(b, Jump(op, 0, 0), g)
             p == LastWritten(d, Jump(opp, 0, 0))
         IN Sound(d, P \union {p}, L) /\ Extends(b, d) /\ Current(d).stream = Current(b).stream
<1> DEFINE i == Jump(op, 0, 0)
           e == bc_ensure_chunk_capacity(b, i.len, g)
           d == Appended(e, i)
<1>1. i \in Instruction /\ i.op \in JumpOps /\ i.op # "OP_JMP_ADR" /\ i.len = JumpLength
  BY JumpFacts
<1> HIDE DEF i
<1>2. /\ Sound(e, P, L) /\ Extends(b, e)
      /\ Current(e).stream = Current(b).stream
      /\ Current(e).is_linked => Current(e).size + i.len + LinkReserve <= Capacity
  BY <1>1, EnsuredSound, InstructionFacts
<1> HIDE DEF e
<1>3. Typed(e) /\ AllTiled(e)
  BY <1>2 DEF Sound
<1>4. Extends(e, d) /\ Current(d).stream = Current(e).stream
  BY <1>1, <1>3, AppendedExtends, AppendedChunks
<1>5. Sound(d, P \union {Position(e)}, L)
  BY <1>1, <1>2, AppendedSound
<1>6. LastWritten(d, Jump(opp, 0, 0)) = Position(e)
  <2>1. d.current_chunk = e.current_chunk /\ Current(d).size = Current(e).size + i.len
        /\ Current(e).size \in Nat /\ i.len \in Nat
    BY <1>1, <1>3, AppendedChunks, InstructionFacts DEF Current
  <2>2. Jump(opp, 0, 0).len = i.len
    BY <1>1 DEF Jump
  <2> HIDE DEF d
  <2>3. Current(d).size - i.len = Current(e).size
    BY <2>1
  <2> QED
    BY <2>1, <2>2, <2>3 DEF LastWritten, Position
<1>7. d = Emitted(b, i, g)
  BY EmittedIsAppended DEF e
<1> HIDE DEF d
<1> QED
  BY <1>2, <1>4, <1>5, <1>6, <1>7, ExtendsTransitive DEF i

-----------------------------------------------------------------------------
LEMMA PositionLands ==
  ASSUME NEW b, Typed(b)
  PROVE  /\ Lands(b, Current(b).stream, Position(b).chunk, Position(b).offset)
         /\ Position(b) = [chunk |-> b.current_chunk, offset |-> Current(b).size]
         /\ Position(b).chunk \in Nat /\ Position(b).chunk # 0 /\ Position(b).offset \in Nat
<1>1. /\ b.current_chunk \in DOMAIN b.chunks /\ Current(b) = b.chunks[b.current_chunk]
      /\ b.current_chunk \in Nat /\ b.current_chunk # 0 /\ Current(b).size \in Nat
  BY BufferFacts, ChunkFacts DEF Typed
<1>2. Position(b) = [chunk |-> b.current_chunk, offset |-> Current(b).size]
  BY DEF Position
<1> QED
  BY <1>1, <1>2 DEF Lands

\* The position reached may be remembered as a label.
LEMMA LabelSound ==
  ASSUME NEW b, NEW P, NEW L, Sound(b, P, L)
  PROVE  Sound(b, P, L \union {Position(b)})
<1>1. Lands(b, Current(b).stream, Position(b).chunk, Position(b).offset)
  BY PositionLands DEF Sound
<1>2. AreLabels(b, L \union {Position(b)})
  BY <1>1 DEF AreLabels, Sound
<1> QED
  BY <1>2 DEF Sound

\* Labels may be forgotten.
LEMMA FewerLabelsSound ==
  ASSUME NEW b, NEW P, NEW L, Sound(b, P, L), NEW M, M \subseteq L
  PROVE  Sound(b, P, M)
  BY DEF Sound, AreLabels

(* What a patch changes: the operands of one jump. *)
Patches(b, p, d) ==
  LET i == b.chunks[p.chunk].code[p.offset]
      j == d.chunks[p.chunk].code[p.offset]
  IN
  /\ d \in Buffer
  /\ DOMAIN d.chunks = DOMAIN b.chunks
  /\ d.current_chunk = b.current_chunk /\ d.return_to = b.return_to
  /\ \A k \in DOMAIN b.chunks : k # p.chunk => d.chunks[k] = b.chunks[k]
  /\ \A k \in DOMAIN b.chunks : /\ d.chunks[k].stream = b.chunks[k].stream
                                /\ d.chunks[k].is_linked = b.chunks[k].is_linked
                                /\ d.chunks[k].size = b.chunks[k].size
                                /\ DOMAIN d.chunks[k].code = DOMAIN b.chunks[k].code
  /\ \A o \in DOMAIN b.chunks[p.chunk].code :
       o # p.offset => d.chunks[p.chunk].code[o] = b.chunks[p.chunk].code[o]
  /\ j.op = i.op /\ j.len = i.len
  /\ j.x + 1 = b.current_chunk /\ j.y = Current(b).size

LEMMA PatchedFacts ==
  ASSUME NEW b, Typed(b), NEW p, p.chunk \in DOMAIN b.chunks,
         p.offset \in DOMAIN b.chunks[p.chunk].code
  PROVE  Patches(b, p, bc_backpatch_jump(b, p, Position(b)))
<1> DEFINE k  == p.chunk
           o  == p.offset
           c  == b.chunks[k]
           i  == c.code[o]
           x  == b.current_chunk - 1
           y  == Current(b).size
           i2 == [i EXCEPT !.x = x, !.y = y]
           f  == [c.code EXCEPT ![o] = i2]
           c2 == [c EXCEPT !.code = f]
           d  == bc_backpatch_jump(b, p, Position(b))
<1>1. /\ b \in Buffer /\ c \in Chunk /\ k \in DOMAIN b.chunks
      /\ x \in Nat /\ x + 1 = b.current_chunk /\ y \in Nat
  BY BufferFacts, ChunkFacts DEF Typed
<1>2. c.code \in Layout /\ i \in Instruction /\ o \in DOMAIN c.code
  BY <1>1, ChunkFacts
<1>3. Position(b).chunk - 1 = x /\ Position(b).offset = y
  BY DEF Position
<1> HIDE DEF x, y, k, o
<1>4. d = [b EXCEPT !.chunks = [b.chunks EXCEPT ![k] = c2]]
  BY <1>1, <1>2, <1>3 DEF bc_backpatch_jump, k, o, Buffer, Chunk, Instruction
<1> HIDE DEF c, i
<1>5. i2 \in Instruction /\ i2.op = i.op /\ i2.len = i.len /\ i2.x = x /\ i2.y = y
  BY <1>1, <1>2 DEF Instruction
<1> HIDE DEF i2
<1>6. /\ DOMAIN f = DOMAIN c.code /\ f[o] = i2
      /\ \A q \in DOMAIN c.code : q # o => f[q] = c.code[q]
      /\ f \in Layout
  <2>1. PICK D \in SUBSET Nat : c.code \in [D -> Instruction]
    BY <1>2 DEF Layout
  <2>2. f \in [D -> Instruction]
    BY <1>5, <2>1
  <2> QED
    BY <1>2, <2>1, <2>2 DEF Layout
<1> HIDE DEF f
<1>7. /\ c2 \in Chunk /\ c2.code = f /\ c2.size = c.size
      /\ c2.is_linked = c.is_linked /\ c2.stream = c.stream
  BY <1>1, <1>6 DEF Chunk
<1> HIDE DEF c2
<1>8. /\ d \in Buffer
      /\ DOMAIN d.chunks = DOMAIN b.chunks
      /\ d.current_chunk = b.current_chunk /\ d.return_to = b.return_to
      /\ d.chunks[k] = c2
      /\ \A j \in DOMAIN b.chunks : j # k => d.chunks[j] = b.chunks[j]
  BY <1>1, <1>4, <1>7, ReplacedFacts
<1> HIDE DEF d
<1>9. c = b.chunks[k] /\ i = c.code[o]
  BY DEF c, i
<1>10. Patches(b, p, d)
  BY <1>1, <1>5, <1>6, <1>7, <1>8, <1>9 DEF Patches, k, o, y
<1> QED
  BY <1>10 DEF d

(* A placeholder is patched to the position that is reached. *)
LEMMA PatchedSound ==
  ASSUME NEW b, NEW P, NEW L, Sound(b, P, L), NEW p \in P,
         NEW Q, P \ {p} \subseteq Q, Q \subseteq P
  PROVE  LET d == bc_backpatch_jump(b, p, Position(b)) IN
         /\ Sound(d, Q, L)
         /\ DOMAIN d.chunks = DOMAIN b.chunks
         /\ d.current_chunk = b.current_chunk
         /\ Current(d).stream = Current(b).stream
<1> DEFINE d == bc_backpatch_jump(b, p, Position(b))
           k == p.chunk
           o == p.offset
<1>1. /\ Typed(b) /\ AllTiled(b) /\ k \in DOMAIN b.chunks
      /\ o \in DOMAIN b.chunks[k].code /\ b.chunks[k].code[o].op \in JumpOps
      /\ b.chunks[k].stream = Current(b).stream /\ p = [chunk |-> k, offset |-> o]
  BY DEF Sound, ArePlaceholders
<1>2. Patches(b, p, d)
  BY <1>1, PatchedFacts
<1> HIDE DEF d
<1>3. /\ d \in Buffer
      /\ DOMAIN d.chunks = DOMAIN b.chunks
      /\ d.current_chunk = b.current_chunk /\ d.return_to = b.return_to
      /\ \A j \in DOMAIN b.chunks : j # k => d.chunks[j] = b.chunks[j]
      /\ \A j \in DOMAIN b.chunks : /\ d.chunks[j].stream = b.chunks[j].stream
                                    /\ d.chunks[j].is_linked = b.chunks[j].is_linked
                                    /\ d.chunks[j].size = b.chunks[j].size
                                    /\ DOMAIN d.chunks[j].code = DOMAIN b.chunks[j].code
      /\ \A q \in DOMAIN b.chunks[k].code :
           q # o => d.chunks[k].code[q] = b.chunks[k].code[q]
      /\ d.chunks[k].code[o].op = b.chunks[k].code[o].op
      /\ d.chunks[k].code[o].len = b.chunks[k].code[o].len
      /\ d.chunks[k].code[o].x + 1 = b.current_chunk
      /\ d.chunks[k].code[o].y = Current(b).size
  BY <1>2 DEF Patches
<1> HIDE DEF k, o
<1>4. \A j \in DOMAIN b.chunks : \A q \in DOMAIN b.chunks[j].code :
        /\ d.chunks[j].code[q].op = b.chunks[j].code[q].op
        /\ d.chunks[j].code[q].len = b.chunks[j].code[q].len
        /\ [chunk |-> j, offset |-> q] # p => d.chunks[j].code[q] = b.chunks[j].code[q]
  BY <1>1, <1>3
<1>5. b.current_chunk \in DOMAIN b.chunks /\ Current(d).stream = Current(b).stream
      /\ Current(b) = b.chunks[b.current_chunk]
  BY <1>1, <1>3 DEF Current, Typed
<1>6. \A s, t, y : Lands(b, s, t, y) => Lands(d, s, t, y)
  BY <1>3 DEF Lands
<1>7. Typed(d)
  BY <1>1, <1>3 DEF Typed
<1>8. AllTiled(d)
  <2> SUFFICES ASSUME NEW j \in DOMAIN b.chunks
               PROVE  Tiled(d.chunks[j])
    BY <1>3 DEF AllTiled
  <2>1. Tiled(b.chunks[j])
    BY <1>1 DEF AllTiled
  <2>2. /\ d.chunks[j].size = b.chunks[j].size
        /\ DOMAIN d.chunks[j].code = DOMAIN b.chunks[j].code
        /\ \A q \in DOMAIN b.chunks[j].code : d.chunks[j].code[q].len = b.chunks[j].code[q].len
    BY <1>3, <1>4
  <2> QED
    BY <2>1, <2>2 DEF Tiled
<1>9. \A j \in DOMAIN b.chunks : EndsStream(d, j) <=> EndsStream(b, j)
  BY <1>3 DEF EndsStream
<1>10. RoomKept(d) /\ MainLinked(d)
  BY <1>3, <1>9 DEF RoomKept, MainLinked, Sound
<1>11. OpenEnds(d)
  BY <1>3, <1>5, <1>9 DEF OpenEnds, InFunction, Sound
<1>12. LinksLead(d)
  <2> SUFFICES ASSUME NEW j \in DOMAIN d.chunks, NEW q \in DOMAIN d.chunks[j].code,
                      d.chunks[j].code[q].op = "OP_JMP_ADR"
               PROVE  /\ d.chunks[j].code[q].x + 1 \in DOMAIN d.chunks
                      /\ \E t \in DOMAIN d.chunks : ContinuesIn(d, j, t) /\ LinkedIn(d, j, t)
    BY DEF LinksLead
  <2>1. j \in DOMAIN b.chunks /\ q \in DOMAIN b.chunks[j].code
    BY <1>3
  <2>2. "OP_JMP_ADR" \notin JumpOps
    BY DEF JumpOps
  <2>3. d.chunks[j].code[q] = b.chunks[j].code[q]
    BY <1>1, <1>4, <2>1, <2>2, ZenonT(40)
  <2>4. b.chunks[j].code[q].x + 1 \in DOMAIN b.chunks
    BY <2>1, <2>3 DEF LinksLead, Sound
  <2>5. PICK t \in DOMAIN b.chunks : ContinuesIn(b, j, t) /\ LinkedIn(b, j, t)
    BY <2>1, <2>3 DEF LinksLead, Sound
  <2>6. ContinuesIn(d, j, t)
    BY <1>3, <2>1, <2>5 DEF ContinuesIn
  <2>7. LinkedIn(d, j, t)
    <3>1. PICK r \in DOMAIN b.chunks[j].code :
            b.chunks[j].code[r] = Link(t - 1) /\ r + LinkLength = b.chunks[j].size
      BY <2>5 DEF LinkedIn
    <3>2. Link(t - 1).op = "OP_JMP_ADR"
      BY DEF Link
    <3>3. b.chunks[j].code[r].op \notin JumpOps
      BY <2>2, <3>1, <3>2
    <3>4. [chunk |-> j, offset |-> r] # p
      BY <1>1, <3>3
    <3>5. d.chunks[j].code[r] = b.chunks[j].code[r]
      BY <1>4, <2>1, <3>4
    <3> QED
      BY <1>3, <2>1, <3>1, <3>5 DEF LinkedIn
  <2> QED
    BY <1>3, <2>3, <2>4, <2>5, <2>6, <2>7
<1>13. JumpsLead(d, Q)
  <2> SUFFICES ASSUME NEW j \in DOMAIN d.chunks, NEW q \in DOMAIN d.chunks[j].code,
                      d.chunks[j].code[q].op \in JumpOps,
                      [chunk |-> j, offset |-> q] \notin Q
               PROVE  Lands(d, d.chunks[j].stream, d.chunks[j].code[q].x + 1,
                                                   d.chunks[j].code[q].y)
    BY DEF JumpsLead
  <2>1. j \in DOMAIN b.chunks /\ q \in DOMAIN b.chunks[j].code
    BY <1>3
  <2>2. CASE [chunk |-> j, offset |-> q] = p
    <3>1. j = k /\ q = o
      BY <1>1, <2>2
    <3>2. Lands(b, Current(b).stream, b.current_chunk, Current(b).size)
      BY <1>1, PositionLands
    <3> QED
      BY <1>1, <1>3, <1>6, <3>1, <3>2
  <2>3. CASE [chunk |-> j, offset |-> q] # p
    <3>1. [chunk |-> j, offset |-> q] \notin P
      BY <2>3
    <3>2. d.chunks[j].code[q] = b.chunks[j].code[q]
      BY <1>4, <2>1, <2>3
    <3>3. Lands(b, b.chunks[j].stream, b.chunks[j].code[q].x + 1, b.chunks[j].code[q].y)
      BY <2>1, <3>1, <3>2 DEF JumpsLead, Sound
    <3> QED
      BY <1>3, <1>6, <2>1, <3>2, <3>3
  <2> QED
    BY <2>2, <2>3
<1>14. ArePlaceholders(d, Q)
  <2> SUFFICES ASSUME NEW q \in Q
               PROVE  /\ q = [chunk |-> q.chunk, offset |-> q.offset]
                      /\ q.chunk \in DOMAIN d.chunks
                      /\ d.chunks[q.chunk].stream = Current(d).stream
                      /\ q.offset \in DOMAIN d.chunks[q.chunk].code
                      /\ d.chunks[q.chunk].code[q.offset].op \in JumpOps
    BY DEF ArePlaceholders
  <2>1. /\ q = [chunk |-> q.chunk, offset |-> q.offset]
        /\ q.chunk \in DOMAIN b.chunks
        /\ b.chunks[q.chunk].stream = Current(b).stream
        /\ q.offset \in DOMAIN b.chunks[q.chunk].code
        /\ b.chunks[q.chunk].code[q.offset].op \in JumpOps
    BY DEF ArePlaceholders, Sound
  <2> QED
    BY <1>3, <1>4, <1>5, <2>1
<1>15. AreLabels(d, L)
  BY <1>5, <1>6 DEF AreLabels, Sound
<1> QED
  BY <1>3, <1>5, <1>7, <1>8, <1>10, <1>11, <1>12, <1>13, <1>14, <1>15 DEF Sound, d

-----------------------------------------------------------------------------
LEMMA CreatedSound ==
  ASSUME NEW g \in Nat
  PROVE  LET b == bc_buffer_create(g) IN Sound(b, {}, {}) /\ ~InFunction(b)
<1> DEFINE c == bc_create_bytecode_chunk(TRUE, g, 1)
           b == bc_buffer_create(g)
<1>1. /\ c \in Chunk /\ c.size = 0 /\ c.is_linked /\ c.stream = 1
      /\ DOMAIN c.code = {} /\ Tiled(c)
  <2>1. c.is_linked /\ c.size = 0 /\ c.stream = 1
    BY DEF bc_create_bytecode_chunk
  <2>2. c \in Chunk /\ DOMAIN c.code = {} /\ Tiled(c)
    BY NewChunk
  <2> QED
    BY <2>1, <2>2
<1> HIDE DEF c
<1>2. << c >> \in Seq(Chunk) /\ Len(<< c >>) = 1 /\ << c >>[1] = c /\ DOMAIN << c >> = {1}
  BY <1>1
<1>3. b = [chunks |-> << c >>, current_chunk |-> 1, next_chunk_id |-> 0, return_to |-> 0]
  BY DEF bc_buffer_create, c
<1> HIDE DEF b
<1>4. b \in Buffer /\ b.chunks = << c >> /\ b.current_chunk = 1 /\ b.return_to = 0
  BY <1>2, <1>3 DEF Buffer
<1>5. DOMAIN b.chunks = {1} /\ b.chunks[1] = c /\ Current(b) = c
  BY <1>2, <1>4 DEF Current
<1>6. Typed(b)
  BY <1>1, <1>4, <1>5 DEF Typed
<1>7. AllTiled(b) /\ MainLinked(b)
  BY <1>1, <1>5 DEF AllTiled, MainLinked
<1>8. RoomKept(b)
  BY <1>1, <1>5, SizesAssumption DEF RoomKept
<1>9. OpenEnds(b) /\ ~InFunction(b)
  BY <1>1, <1>4, <1>5 DEF OpenEnds, InFunction, EndsStream
<1>10. LinksLead(b) /\ JumpsLead(b, {}) /\ ArePlaceholders(b, {}) /\ AreLabels(b, {})
  BY <1>1, <1>5 DEF LinksLead, JumpsLead, ArePlaceholders, AreLabels
<1> QED
  BY <1>6, <1>7, <1>8, <1>9, <1>10 DEF Sound, b

\* The main program's chunk is announced a successor and remembered.
Announced(b) == [b EXCEPT !.return_to = b.current_chunk,
                          !.chunks[b.current_chunk].linked_with = b.next_chunk_id + 1]

LEMMA AnnouncedFacts ==
  ASSUME NEW b, Typed(b)
  PROVE  LET e == Announced(b) IN
         /\ e \in Buffer /\ DOMAIN e.chunks = DOMAIN b.chunks
         /\ e.current_chunk = b.current_chunk /\ e.return_to = b.current_chunk
         /\ \A j \in DOMAIN b.chunks : /\ e.chunks[j].size = b.chunks[j].size
                                       /\ e.chunks[j].is_linked = b.chunks[j].is_linked
                                       /\ e.chunks[j].stream = b.chunks[j].stream
                                       /\ e.chunks[j].code = b.chunks[j].code
         /\ \A j \in DOMAIN b.chunks : j # b.current_chunk => e.chunks[j] = b.chunks[j]
<1> DEFINE k == b.current_chunk
           c == [b.chunks[k] EXCEPT !.linked_with = b.next_chunk_id + 1]
           e == Announced(b)
           h == [b EXCEPT !.return_to = k]
<1>1. k \in DOMAIN b.chunks /\ b.chunks[k] \in Chunk /\ b.next_chunk_id + 1 \in Nat
      /\ b \in Buffer /\ k \in Nat
  BY BufferFacts DEF Typed
<1>2. /\ c \in Chunk /\ c.size = b.chunks[k].size /\ c.is_linked = b.chunks[k].is_linked
      /\ c.stream = b.chunks[k].stream /\ c.code = b.chunks[k].code
  BY <1>1 DEF Chunk
<1>3. h \in Buffer /\ h.chunks = b.chunks /\ h.return_to = k /\ h.current_chunk = k
  BY <1>1 DEF Buffer
<1>4. e = [h EXCEPT !.chunks[k].linked_with = b.next_chunk_id + 1]
  BY <1>1 DEF Announced, Buffer
<1> HIDE DEF h, e, k
<1>5. e = [h EXCEPT !.chunks = [h.chunks EXCEPT ![k] = c]]
  BY <1>1, <1>3, <1>4 DEF Buffer, Chunk
<1> HIDE DEF c
<1>6. /\ e \in Buffer /\ DOMAIN e.chunks = DOMAIN b.chunks
      /\ e.current_chunk = k /\ e.return_to = k
      /\ e.chunks[k] = c
      /\ \A j \in DOMAIN b.chunks : j # k => e.chunks[j] = b.chunks[j]
  BY <1>1, <1>2, <1>3, <1>5, ReplacedFacts
<1> QED
  BY <1>1, <1>2, <1>6 DEF e, k

LEMMA AnnouncedSound ==
  ASSUME NEW b, Sound(b, {}, {}), ~InFunction(b)
  PROVE  LET e == Announced(b) IN Sound(e, {}, {}) /\ ~InFunction(e)
<1> DEFINE e == Announced(b)
           k == b.current_chunk
<1>0. Typed(b) /\ k \in DOMAIN b.chunks
  BY DEF Sound, Typed
<1>1. /\ e \in Buffer /\ DOMAIN e.chunks = DOMAIN b.chunks
      /\ e.current_chunk = k /\ e.return_to = k
      /\ \A j \in DOMAIN b.chunks : /\ e.chunks[j].size = b.chunks[j].size
                                    /\ e.chunks[j].is_linked = b.chunks[j].is_linked
                                    /\ e.chunks[j].stream = b.chunks[j].stream
                                    /\ e.chunks[j].code = b.chunks[j].code
  BY <1>0, AnnouncedFacts
<1> HIDE DEF e
<1>2. Current(e).stream = Current(b).stream
  BY <1>0, <1>1 DEF Current
<1>3. \A j \in DOMAIN b.chunks : EndsStream(e, j) <=> EndsStream(b, j)
  BY <1>1 DEF EndsStream
<1>4. Typed(e)
  BY <1>0, <1>1 DEF Typed
<1>5. AllTiled(e) /\ MainLinked(e) /\ RoomKept(e)
  <2>1. AllTiled(e)
    BY <1>1 DEF AllTiled, Sound, Tiled
  <2>2. MainLinked(e)
    BY <1>1 DEF MainLinked, Sound
  <2>3. RoomKept(e)
    BY <1>1, <1>3 DEF RoomKept, Sound
  <2> QED
    BY <2>1, <2>2, <2>3
<1>6. OpenEnds(e) /\ ~InFunction(e)
  BY <1>0, <1>1, <1>2, <1>3 DEF OpenEnds, InFunction, Sound
<1>7. LinksLead(e)
  <2> SUFFICES ASSUME NEW j \in DOMAIN e.chunks, NEW o \in DOMAIN e.chunks[j].code,
                      e.chunks[j].code[o].op = "OP_JMP_ADR"
               PROVE  /\ e.chunks[j].code[o].x + 1 \in DOMAIN e.chunks
                      /\ \E t \in DOMAIN e.chunks : ContinuesIn(e, j, t) /\ LinkedIn(e, j, t)
    BY DEF LinksLead
  <2>1. j \in DOMAIN b.chunks /\ e.chunks[j].code = b.chunks[j].code
    BY <1>1
  <2>2. b.chunks[j].code[o].x + 1 \in DOMAIN b.chunks
    BY <2>1 DEF LinksLead, Sound
  <2>3. PICK t \in DOMAIN b.chunks : ContinuesIn(b, j, t) /\ LinkedIn(b, j, t)
    BY <2>1 DEF LinksLead, Sound
  <2>4. ContinuesIn(e, j, t) /\ LinkedIn(e, j, t)
    BY <1>1, <2>1, <2>3 DEF ContinuesIn, LinkedIn
  <2> QED
    BY <1>1, <2>1, <2>2, <2>4
<1>8. JumpsLead(e, {}) /\ ArePlaceholders(e, {}) /\ AreLabels(e, {})
  <2>1. \A s, t, y : Lands(b, s, t, y) => Lands(e, s, t, y)
    BY <1>1 DEF Lands
  <2>2. JumpsLead(e, {})
    BY <1>1, <2>1 DEF JumpsLead, Sound
  <2> QED
    BY <2>2 DEF ArePlaceholders, AreLabels
<1> QED
  BY <1>4, <1>5, <1>6, <1>7, <1>8 DEF Sound, e

(* A function gets a chunk and a stream of its own, and the main program waits. *)
LEMMA StartedSound ==
  ASSUME NEW b, Sound(b, {}, {}), ~InFunction(b), NEW g \in Nat
  PROVE  LET d == bc_start_non_linked_chunk(b, g) IN
         /\ Sound(d, {}, {}) /\ InFunction(d)
         /\ \A j \in DOMAIN b.chunks : j # b.current_chunk => d.chunks[j] = b.chunks[j]
<1> DEFINE e == Announced(b)
           k == e.current_chunk
           n == Len(e.chunks) + 1
           d == bc_add_new_chunk(e, FALSE, g)
<1>1. d = bc_start_non_linked_chunk(b, g)
  BY DEF bc_start_non_linked_chunk, Announced
<1>2. Sound(e, {}, {}) /\ ~InFunction(e) /\ e.return_to = k /\ k = b.current_chunk
  BY AnnouncedSound, AnnouncedFacts DEF Sound
<1>3. \A j \in DOMAIN b.chunks : j # k => e.chunks[j] = b.chunks[j] /\ j \in DOMAIN e.chunks
  BY AnnouncedFacts DEF Sound
<1> HIDE DEF e
<1>4. Typed(e) /\ AllTiled(e)
  BY <1>2 DEF Sound
<1>5. Adds(e, FALSE, d)
  BY <1>4, AddedFacts
<1>6. Extends(e, d) /\ Typed(d) /\ AllTiled(d) /\ d.chunks[k] = e.chunks[k]
  BY <1>4, AddedChunks
<1>7. JumpsLead(d, {})
  BY <1>2, AddedJumps
<1> HIDE DEF d
<1>8. /\ n \in Nat
      /\ DOMAIN d.chunks = DOMAIN e.chunks \union {n}
      /\ DOMAIN e.chunks = 1 .. n - 1 /\ k \in 1 .. n - 1
      /\ d.current_chunk = n /\ d.return_to = e.return_to
      /\ ~d.chunks[n].is_linked /\ DOMAIN d.chunks[n].code = {}
      /\ d.chunks[n].stream = n
      /\ \A j \in DOMAIN e.chunks : j # k => d.chunks[j] = e.chunks[j]
  BY <1>5 DEF Adds
<1> HIDE DEF n, k
<1>9. /\ k \in DOMAIN e.chunks /\ n \in DOMAIN d.chunks /\ n # 1 /\ k # n /\ n \notin DOMAIN e.chunks
      /\ \A j \in DOMAIN e.chunks : d.chunks[j] = e.chunks[j]
      /\ e.chunks[k].stream = 1 /\ Current(d).stream = n
      /\ \A j \in DOMAIN e.chunks : j < n
  BY <1>2, <1>6, <1>8 DEF Current, InFunction, k
<1>10. InFunction(d)
  BY <1>9 DEF InFunction
<1>11. \A j \in DOMAIN e.chunks : e.chunks[j].stream # n
  BY <1>4, <1>8, BufferFacts
<1>12. EndsStream(e, k)
  BY <1>2 DEF Sound, OpenEnds, k
<1>13. \A j \in DOMAIN e.chunks : EndsStream(d, j) <=> EndsStream(e, j)
  BY <1>8, <1>9, <1>11 DEF EndsStream
<1>14. OpenEnds(d)
  <2>1. EndsStream(d, n)
    BY <1>8, <1>9 DEF EndsStream
  <2> QED
    BY <1>2, <1>8, <1>9, <1>12, <1>13, <2>1 DEF OpenEnds
<1>15. RoomKept(d)
  BY <1>2, <1>8, <1>9, <1>13 DEF RoomKept, Sound
<1>16. MainLinked(d)
  BY <1>2, <1>8, <1>9 DEF MainLinked, Sound
<1>17. LinksLead(d)
  <2> SUFFICES ASSUME NEW j \in DOMAIN d.chunks, NEW o \in DOMAIN d.chunks[j].code,
                      d.chunks[j].code[o].op = "OP_JMP_ADR"
               PROVE  /\ d.chunks[j].code[o].x + 1 \in DOMAIN d.chunks
                      /\ \E t \in DOMAIN d.chunks : ContinuesIn(d, j, t) /\ LinkedIn(d, j, t)
    BY DEF LinksLead
  <2>1. j \in DOMAIN e.chunks /\ d.chunks[j] = e.chunks[j]
    BY <1>8, <1>9
  <2>2. e.chunks[j].code[o].x + 1 \in DOMAIN e.chunks
    BY <1>2, <2>1 DEF LinksLead, Sound
  <2>3. PICK t \in DOMAIN e.chunks : ContinuesIn(e, j, t) /\ LinkedIn(e, j, t)
    BY <1>2, <2>1 DEF LinksLead, Sound
  <2>4. ContinuesIn(d, j, t)
    BY <1>8, <1>9, <2>1, <2>3 DEF ContinuesIn
  <2>5. LinkedIn(d, j, t)
    BY <2>1, <2>3 DEF LinkedIn
  <2> QED
    BY <1>8, <2>1, <2>2, <2>4, <2>5
<1>18. ArePlaceholders(d, {}) /\ AreLabels(d, {})
  BY DEF ArePlaceholders, AreLabels
<1>19. Sound(d, {}, {})
  BY <1>6, <1>7, <1>14, <1>15, <1>16, <1>17, <1>18 DEF Sound
<1> QED
  BY <1>1, <1>2, <1>3, <1>9, <1>10, <1>19

(* The function ends and the main program goes on where it was left. *)
LEMMA EndedSound ==
  ASSUME NEW b, Sound(b, {}, {}), InFunction(b)
  PROVE  LET d == bc_end_non_linked_chunk(bc_end_non_linked_chunk(b)) IN
         /\ Sound(d, {}, {}) /\ ~InFunction(d) /\ d.chunks = b.chunks
<1> DEFINE d == bc_end_non_linked_chunk(bc_end_non_linked_chunk(b))
           e == bc_end_non_linked_chunk(b)
<1>1. b \in Buffer /\ Typed(b) /\ b.return_to \in Nat
  BY BufferFacts DEF Sound, Typed
<1>2. /\ b.return_to \in DOMAIN b.chunks
      /\ b.chunks[b.return_to].stream = 1
      /\ EndsStream(b, b.return_to)
  BY DEF Sound, OpenEnds
<1>3. /\ e \in Buffer /\ e.chunks = b.chunks /\ e.current_chunk = b.return_to
      /\ e.return_to = b.return_to
  BY <1>1 DEF bc_end_non_linked_chunk, Buffer
<1> HIDE DEF e
<1>4. /\ d \in Buffer /\ d.chunks = b.chunks /\ d.current_chunk = b.return_to
      /\ d.return_to = b.return_to
  <2>1. d = [e EXCEPT !.current_chunk = e.return_to]
    BY DEF bc_end_non_linked_chunk, e
  <2> QED
    BY <1>1, <1>3, <2>1 DEF Buffer
<1> HIDE DEF d
<1>5. Current(d).stream = 1
  BY <1>2, <1>4 DEF Current
<1>6. \A j : EndsStream(d, j) <=> EndsStream(b, j)
  BY <1>4 DEF EndsStream
<1>7. Typed(d)
  BY <1>1, <1>2, <1>4 DEF Typed
<1>8. AllTiled(d) /\ MainLinked(d) /\ RoomKept(d)
  BY <1>4, <1>6 DEF AllTiled, MainLinked, RoomKept, Sound
<1>9. OpenEnds(d) /\ ~InFunction(d)
  BY <1>2, <1>4, <1>5, <1>6 DEF OpenEnds, InFunction
<1>10. LinksLead(d)
  BY <1>4 DEF LinksLead, ContinuesIn, LinkedIn, Sound
<1>11. JumpsLead(d, {})
  BY <1>4, ZenonT(40) DEF JumpsLead, Lands, Sound
<1>12. ArePlaceholders(d, {}) /\ AreLabels(d, {})
  BY DEF ArePlaceholders, AreLabels
<1> QED
  BY <1>4, <1>7, <1>8, <1>9, <1>10, <1>11, <1>12 DEF Sound, d

-----------------------------------------------------------------------------
(* Emitting changes no chunk of the buffer but the current one. *)
LEMMA EmittedOnlyHere ==
  ASSUME NEW b, Typed(b), AllTiled(b), NEW i \in Instruction, NEW g \in Nat
  PROVE  \A j \in DOMAIN b.chunks :
           j # b.current_chunk => Emitted(b, i, g).chunks[j] = b.chunks[j]
<1> DEFINE e == bc_ensure_chunk_capacity(b, i.len, g)
           d == Appended(e, i)
<1>1. /\ Typed(e)
      /\ \A j \in DOMAIN b.chunks : j # b.current_chunk =>
           j \in DOMAIN e.chunks /\ j # e.current_chunk /\ e.chunks[j] = b.chunks[j]
  <2>1. CASE e = b
    BY <2>1
  <2>2. CASE e = bc_add_new_chunk(b, TRUE, g)
    <3>1. Adds(b, TRUE, e) /\ Typed(e)
      BY <2>2, AddedFacts, AddedChunks, ZenonT(40)
    <3> HIDE DEF e
    <3> QED
      BY <3>1 DEF Adds
  <2> QED
    BY <2>1, <2>2 DEF bc_ensure_chunk_capacity
<1> HIDE DEF e
<1>2. \A j \in DOMAIN e.chunks : j # e.current_chunk => d.chunks[j] = e.chunks[j]
  BY <1>1, AppendedFacts
<1>3. Emitted(b, i, g) = d
  BY EmittedIsAppended DEF e
<1> HIDE DEF d
<1> QED
  BY <1>1, <1>2, <1>3

\* A buffer whose open stream goes on stays inside or outside a function.
LEMMA SameStream ==
  ASSUME NEW b, NEW d, Current(d).stream = Current(b).stream
  PROVE  InFunction(d) <=> InFunction(b)
  BY DEF InFunction

(* A jump back to a recorded label leads there. *)
LEMMA BackwardJumpLands ==
  ASSUME NEW b, NEW P, NEW L, Sound(b, P, L), NEW op \in JumpOps, NEW l \in L
  PROVE  LET i == Jump(op, l.chunk - 1, l.offset) IN
         /\ i \in Instruction /\ i.op = op /\ i.op # "OP_JMP_ADR"
         /\ Lands(b, Current(b).stream, i.x + 1, i.y)
<1> DEFINE i == Jump(op, l.chunk - 1, l.offset)
<1>1. /\ l.chunk \in DOMAIN b.chunks
      /\ l.offset \in DOMAIN b.chunks[l.chunk].code \union {b.chunks[l.chunk].size}
      /\ Lands(b, Current(b).stream, l.chunk, l.offset)
  BY DEF Sound, AreLabels, Lands
<1>2. l.chunk - 1 \in Nat /\ (l.chunk - 1) + 1 = l.chunk /\ l.offset \in Nat
  BY <1>1, BufferFacts, ChunkFacts DEF Sound
<1>3. /\ i \in Instruction /\ i.op = op /\ i.op # "OP_JMP_ADR"
      /\ i.x + 1 = l.chunk /\ i.y = l.offset
  BY <1>2, JumpFacts
<1> HIDE DEF i
<1> QED
  BY <1>1, <1>3 DEF i

-----------------------------------------------------------------------------
\* Every instruction of the buffer has its opcode in S.
OpsIn(b, S) ==
  \A j \in DOMAIN b.chunks : \A o \in DOMAIN b.chunks[j].code : b.chunks[j].code[o].op \in S

LEMMA CreatedOps ==
  ASSUME NEW g \in Nat, NEW S
  PROVE  OpsIn(bc_buffer_create(g), S)
<1> DEFINE c == bc_create_bytecode_chunk(TRUE, g, 1)
           b == bc_buffer_create(g)
<1>1. DOMAIN c.code = {}
  BY NewChunk
<1>2. b.chunks = << c >>
  BY DEF bc_buffer_create
<1> HIDE DEF c, b
<1>3. DOMAIN b.chunks = {1} /\ b.chunks[1] = c
  BY <1>2
<1>4. OpsIn(b, S)
  BY <1>1, <1>3 DEF OpsIn
<1> QED
  BY <1>4 DEF b

LEMMA WrittenOps ==
  ASSUME NEW c \in Chunk, NEW i \in Instruction, NEW S, i.op \in S,
         \A o \in DOMAIN c.code : c.code[o].op \in S
  PROVE  \A o \in DOMAIN Written(c, i).code : Written(c, i).code[o].op \in S
<1> DEFINE w == Written(c, i)
<1>1. /\ DOMAIN w.code = DOMAIN c.code \union {c.size}
      /\ w.code[c.size] = i
      /\ \A o \in DOMAIN c.code : o # c.size => w.code[o] = c.code[o]
  BY WrittenFacts
<1> HIDE DEF w
<1>2. \A o \in DOMAIN w.code : w.code[o].op \in S
  BY <1>1
<1> QED
  BY <1>2 DEF w

LEMMA AddedOps ==
  ASSUME NEW b, Typed(b), NEW link \in BOOLEAN, NEW d, Adds(b, link, d),
         NEW S, "OP_JMP_ADR" \in S, OpsIn(b, S)
  PROVE  OpsIn(d, S)
<1> DEFINE k == b.current_chunk
           n == Len(b.chunks) + 1
<1>1. /\ n \in Nat /\ DOMAIN d.chunks = DOMAIN b.chunks \union {n}
      /\ DOMAIN b.chunks = 1 .. n - 1 /\ k \in 1 .. n - 1
      /\ DOMAIN d.chunks[n].code = {}
      /\ \A j \in DOMAIN b.chunks : j # k => d.chunks[j] = b.chunks[j]
      /\ \/ d.chunks[k] = b.chunks[k]
         \/ d.chunks[k] = Written(b.chunks[k], Link(n - 1))
  BY DEF Adds
<1> HIDE DEF k, n
<1>2. k \in DOMAIN b.chunks /\ b.chunks[k] \in Chunk /\ n - 1 \in Nat
  BY <1>1, BufferFacts
<1>3. \A o \in DOMAIN b.chunks[k].code : b.chunks[k].code[o].op \in S
  BY <1>2 DEF OpsIn
<1>4. \A o \in DOMAIN d.chunks[k].code : d.chunks[k].code[o].op \in S
  <2>1. CASE d.chunks[k] = b.chunks[k]
    BY <1>3, <2>1
  <2>2. CASE d.chunks[k] = Written(b.chunks[k], Link(n - 1))
    <3>1. Link(n - 1) \in Instruction /\ Link(n - 1).op \in S
      BY <1>2, LinkIsInstruction
    <3> QED
      BY <1>2, <1>3, <2>2, <3>1, WrittenOps
  <2> QED
    BY <1>1, <2>1, <2>2
<1> QED
  BY <1>1, <1>4 DEF OpsIn

LEMMA EmittedOps ==
  ASSUME NEW b, Typed(b), AllTiled(b), NEW i \in Instruction, NEW g \in Nat,
         NEW S, "OP_JMP_ADR" \in S, i.op \in S, OpsIn(b, S)
  PROVE  OpsIn(Emitted(b, i, g), S)
<1> DEFINE e == bc_ensure_chunk_capacity(b, i.len, g)
           d == Appended(e, i)
           k == e.current_chunk
<1>1. Typed(e) /\ OpsIn(e, S)
  <2>1. CASE e = b
    BY <2>1
  <2>2. CASE e = bc_add_new_chunk(b, TRUE, g)
    <3>1. Adds(b, TRUE, e) /\ Typed(e)
      BY <2>2, AddedFacts, AddedChunks, ZenonT(40)
    <3> HIDE DEF e
    <3> QED
      BY <3>1, AddedOps
  <2> QED
    BY <2>1, <2>2 DEF bc_ensure_chunk_capacity
<1> HIDE DEF e
<1>2. /\ DOMAIN d.chunks = DOMAIN e.chunks /\ k \in DOMAIN e.chunks
      /\ d.chunks[k] = Written(e.chunks[k], i) /\ e.chunks[k] \in Chunk
      /\ \A j \in DOMAIN e.chunks : j # k => d.chunks[j] = e.chunks[j]
  BY <1>1, AppendedFacts, BufferFacts DEF Typed
<1>3. Emitted(b, i, g) = d
  BY EmittedIsAppended DEF e
<1> HIDE DEF d, k
<1>4. \A o \in DOMAIN d.chunks[k].code : d.chunks[k].code[o].op \in S
  BY <1>1, <1>2, WrittenOps DEF OpsIn
<1>5. OpsIn(d, S)
  BY <1>1, <1>2, <1>4 DEF OpsIn
<1> QED
  BY <1>3, <1>5

LEMMA PatchedOps ==
  ASSUME NEW b, NEW P, NEW L, Sound(b, P, L), NEW p \in P, NEW S, OpsIn(b, S)
  PROVE  OpsIn(bc_backpatch_jump(b, p, Position(b)), S)
<1> DEFINE d == bc_backpatch_jump(b, p, Position(b))
<1>1. /\ Typed(b) /\ p.chunk \in DOMAIN b.chunks
      /\ p.offset \in DOMAIN b.chunks[p.chunk].code
  BY DEF Sound, ArePlaceholders
<1>2. Patches(b, p, d)
  BY <1>1, PatchedFacts
<1> HIDE DEF d
<1>3. OpsIn(d, S)
  BY <1>1, <1>2, SMTT(30) DEF OpsIn, Patches
<1> QED
  BY <1>3 DEF d

(* Starting a function keeps the chunks there are and what they hold. *)
LEMMA StartedKeeps ==
  ASSUME NEW b, Typed(b), NEW g \in Nat, NEW S, "OP_JMP_ADR" \in S, OpsIn(b, S)
  PROVE  LET d == bc_start_non_linked_chunk(b, g) IN
         DOMAIN b.chunks \subseteq DOMAIN d.chunks /\ OpsIn(d, S)
<1> DEFINE e == Announced(b)
           d == bc_add_new_chunk(e, FALSE, g)
<1>1. d = bc_start_non_linked_chunk(b, g)
  BY DEF bc_start_non_linked_chunk, Announced
<1>2. /\ e \in Buffer /\ DOMAIN e.chunks = DOMAIN b.chunks
      /\ e.current_chunk = b.current_chunk /\ e.return_to = b.current_chunk
      /\ \A j \in DOMAIN b.chunks : /\ e.chunks[j].stream = b.chunks[j].stream
                                    /\ e.chunks[j].code = b.chunks[j].code
  BY AnnouncedFacts
<1> HIDE DEF e
<1>3. Typed(e)
  BY <1>2 DEF Typed
<1>4. OpsIn(e, S)
  BY <1>2 DEF OpsIn
<1>5. Adds(e, FALSE, d)
  BY <1>3, AddedFacts
<1> HIDE DEF d
<1>6. OpsIn(d, S)
  BY <1>3, <1>4, <1>5, AddedOps
<1>7. DOMAIN b.chunks \subseteq DOMAIN d.chunks
  BY <1>2, <1>5 DEF Adds
<1> QED
  BY <1>1, <1>6, <1>7
=============================================================================
