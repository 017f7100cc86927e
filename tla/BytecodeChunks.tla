----------------------------- MODULE BytecodeChunks -----------------------------
(***************************************************************************)
(* The data of bytecode_buffer.c: chunks, the buffer that lists them, and  *)
(* what the emitting operations do to it.  A chunk's bytes are abstracted  *)
(* to the instructions they encode, at their byte offsets and with their   *)
(* byte lengths.                                                           *)
(***************************************************************************)
EXTENDS Naturals, Sequences

CONSTANTS Capacity,     \* INITIAL_CHUNK_CAPACITY, the capacity of every chunk
          LinkReserve,  \* sizeof(OP_JMP_ADR) + sizeof(uintptr_t): 4 + 8
          LinkLength,   \* bytes of a link instruction: opcode and pointer, 1 + 8
          JumpLength,   \* bytes of a jump: opcode, chunk id and offset, 1 + 8 + 8
          MaxLength,    \* longest instruction (a call carries its function's name)
          UninitLink    \* what malloc leaves in a new chunk's linked_with

ASSUME SizesAssumption ==
  /\ Capacity \in Nat /\ LinkReserve \in Nat /\ MaxLength \in Nat
  /\ LinkLength \in 1 .. LinkReserve /\ LinkLength <= MaxLength
  /\ JumpLength \in 1 .. MaxLength
  /\ MaxLength + LinkReserve <= Capacity
  /\ UninitLink \subseteq Nat

JumpOps == {"OP_JMP", "OP_JMP_IF_TRUE", "OP_JMP_IF_FALSE"}

\* x and y: the operands (register or constant; target chunk id and offset).
Instruction == [op : STRING, len : 1 .. MaxLength, x : Nat, y : Nat, fn : STRING]

\* True of every string; the provers have no rule for STRING.
ASSUME StringsAssumption == JumpOps \union {"OP_JMP_ADR", ""} \subseteq STRING

Jump(op, id, offset) ==
  [op |-> op, len |-> JumpLength, x |-> id, y |-> offset, fn |-> ""]

\* The pointer of OP_JMP_ADR is represented by the id of the chunk it points to.
Link(id) ==
  [op |-> "OP_JMP_ADR", len |-> LinkLength, x |-> id, y |-> 0, fn |-> ""]

-----------------------------------------------------------------------------
(* chunk_id comes from a static counter starting at 0, the process creates one
   buffer and chunks are added at the tail: chunks[i] has chunk_id i - 1.
   stream is history: the first chunk of the code this chunk is a part of. *)
bc_create_bytecode_chunk(isLinked, garbage, stream) ==
  [size |-> 0, is_linked |-> isLinked, linked_with |-> garbage,
   code |-> <<>>, stream |-> stream]

\* next_chunk_id stays 0 although id 0 is taken; return_to is not set (0 here).
bc_buffer_create(garbage) ==
  [chunks        |-> << bc_create_bytecode_chunk(TRUE, garbage, 1) >>,
   current_chunk |-> 1,
   next_chunk_id |-> 0,
   return_to     |-> 0]

\* Mutant: the write does not advance the size by the whole instruction.
WriteShort(c, i) ==
  [c EXCEPT !.code = [o \in DOMAIN c.code \union {c.size} |->
                        IF o = c.size THEN i ELSE c.code[o]],
            !.size = @ + 1]

\* bc_write_to_chunk, bc_write_byte, bc_write_ptr: append one instruction.
Written(c, i) ==
  [c EXCEPT !.code = [o \in DOMAIN c.code \union {c.size} |->
                        IF o = c.size THEN i ELSE c.code[o]],
            !.size = @ + i.len]

Current(b) == b.chunks[b.current_chunk]

\* Mutant: the link is written into the chunk at the tail of the list.
LinkFromTail(b, link, garbage) ==
  LET id    == Len(b.chunks)
      joins == link /\ Current(b).linked_with = id
      new   == bc_create_bytecode_chunk(link, IF joins THEN id + 1 ELSE garbage,
                                        IF link THEN Current(b).stream ELSE id + 1)
      old   == IF joins THEN [b.chunks EXCEPT ![id] = Written(@, Link(id))]
                        ELSE b.chunks
  IN [b EXCEPT !.chunks = Append(old, new),
               !.current_chunk = id + 1,
               !.next_chunk_id = id + 1]

(* The current chunk gets a jump to the new one only if the id it was told to
   expect (linked_with) is the new chunk's id. *)
bc_add_new_chunk(b, link, garbage) ==
  LET id    == Len(b.chunks)
      joins == link /\ Current(b).linked_with = id
      new   == bc_create_bytecode_chunk(link, IF joins THEN id + 1 ELSE garbage,
                                        IF link THEN Current(b).stream ELSE id + 1)
      old   == IF joins
               THEN [b.chunks EXCEPT ![b.current_chunk] = Written(@, Link(id))]
               ELSE b.chunks
  IN [b EXCEPT !.chunks = Append(old, new),
               !.current_chunk = id + 1,
               !.next_chunk_id = id + 1]

\* Mutant: no room is kept for the link.
EnsureWithoutReserve(b, needed, garbage) ==
  IF Current(b).size + needed <= Capacity THEN b ELSE bc_add_new_chunk(b, TRUE, garbage)

bc_ensure_chunk_capacity(b, needed, garbage) ==
  LET linkSize == IF Current(b).is_linked THEN LinkReserve ELSE 0
  IN IF Current(b).size + needed + linkSize <= Capacity
     THEN b
     ELSE bc_add_new_chunk(b, TRUE, garbage)

\* Every bc_emit_*: make room for the whole instruction, then write it.
Emitted(b, i, garbage) ==
  LET e == bc_ensure_chunk_capacity(b, i.len, garbage)
  IN [e EXCEPT !.chunks[e.current_chunk] = Written(@, i)]

\* Where the instruction written last by Emitted begins.
LastWritten(b, i) == [chunk |-> b.current_chunk, offset |-> Current(b).size - i.len]

\* The id and offset the compiler records as "the current position".
Position(b) == [chunk |-> b.current_chunk, offset |-> Current(b).size]

\* Mutant: chunk numbers are used where chunk ids are meant.
PatchedOffByOne(b, p, target) ==
  [b EXCEPT !.chunks[p.chunk].code[p.offset] =
     [@ EXCEPT !.x = target.chunk, !.y = target.offset]]

\* Mutant: the patch goes to the first chunk of the buffer.
PatchedInHead(b, p, target) ==
  [b EXCEPT !.chunks[1].code[p.offset] =
     [@ EXCEPT !.x = target.chunk - 1, !.y = target.offset]]

bc_backpatch_jump(b, p, target) ==
  [b EXCEPT !.chunks[p.chunk].code[p.offset] =
     [@ EXCEPT !.x = target.chunk - 1, !.y = target.offset]]

\* The search for a linked chunk never advances: it ends at once or never.
SearchEnds(b) == b.current_chunk = 1 \/ Current(b).is_linked

\* Mutant: the chunk to come back to is the new one.
StartedForgettingReturn(b, garbage) ==
  LET announced == [b EXCEPT !.chunks[b.current_chunk].linked_with = b.next_chunk_id + 1]
      started   == bc_add_new_chunk(announced, FALSE, garbage)
  IN [started EXCEPT !.return_to = started.current_chunk]

\* Mutant: return_to is never set.
StartedWithoutReturn(b, garbage) ==
  bc_add_new_chunk([b EXCEPT !.chunks[b.current_chunk].linked_with = b.next_chunk_id + 1],
                   FALSE, garbage)

bc_start_non_linked_chunk(b, garbage) ==
  bc_add_new_chunk([b EXCEPT !.return_to = b.current_chunk,
                             !.chunks[b.current_chunk].linked_with = b.next_chunk_id + 1],
                   FALSE, garbage)

\* Mutant: code goes on in the first chunk instead of the remembered one.
EndedAtHead(b) == [b EXCEPT !.current_chunk = 1]

bc_end_non_linked_chunk(b) == [b EXCEPT !.current_chunk = b.return_to]

-----------------------------------------------------------------------------
(* The instructions of a chunk follow each other without a gap from offset 0 to
   the end of what is written. *)
Tiled(c) ==
  /\ c.size > 0 => 0 \in DOMAIN c.code
  /\ \A o \in DOMAIN c.code :
       LET end == o + c.code[o].len IN
         /\ end = c.size \/ end \in DOMAIN c.code
         /\ end <= c.size
         /\ \A q \in DOMAIN c.code : q <= o \/ end <= q
=================================================================================
