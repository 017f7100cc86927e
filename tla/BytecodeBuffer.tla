----------------------------- MODULE BytecodeBuffer -----------------------------
(***************************************************************************)
(* The chunked bytecode buffer of bytecode_buffer.c, driven the way the    *)
(* compiler drives it: plain instructions, forward jumps patched later,    *)
(* backward jumps, and function bodies emitted in chunks of their own.     *)
(***************************************************************************)
EXTENDS BytecodeChunks, FiniteSets

CONSTANTS Plain,        \* the instructions that are not jumps
          ForwardJumps, \* the jumps emitted with a placeholder
          MaxChunks,    \* bound on the number of chunks explored
          MaxPending    \* bound on the number of open forward jumps

ASSUME ForwardJumpsAssumption == ForwardJumps \subseteq {"OP_JMP", "OP_JMP_IF_FALSE"}

ASSUME PlainAssumption ==
  \A i \in Plain : i \in Instruction /\ i.op \notin JumpOps /\ i.op # "OP_JMP_ADR"

VARIABLES buffer,       \* the BytecodeBuffer
          placeholders, \* JumpPlaceholders still to be backpatched
          label,        \* set of at most one recorded position to jump back to
          inFunction    \* between start and end of a non-linked chunk

vars == <<buffer, placeholders, label, inFunction>>

-----------------------------------------------------------------------------
Init == /\ \E g \in UninitLink : buffer = bc_buffer_create(g)
        /\ placeholders = {}
        /\ label = {}
        /\ inFunction = FALSE

EmitInstruction(i) ==
  /\ \E g \in UninitLink : buffer' = Emitted(buffer, i, g)
  /\ UNCHANGED <<placeholders, label, inFunction>>

bc_emit_jump_with_placeholder(op) ==
  /\ \E g \in UninitLink : buffer' = Emitted(buffer, Jump(op, 0, 0), g)
  /\ placeholders' = placeholders \union {LastWritten(buffer', Jump(op, 0, 0))}
  /\ UNCHANGED <<label, inFunction>>

\* A forward jump is patched to the position the compiler has reached.
PatchPlaceholder(p) ==
  /\ buffer' = bc_backpatch_jump(buffer, p, Position(buffer))
  /\ placeholders' = placeholders \ {p}
  /\ UNCHANGED <<label, inFunction>>

RecordLabel == /\ label = {}
               /\ label' = {Position(buffer)}
               /\ UNCHANGED <<buffer, placeholders, inFunction>>

bc_emit_opcode_with_jump(op) ==
  /\ \E l \in label, g \in UninitLink :
       buffer' = Emitted(buffer, Jump(op, l.chunk - 1, l.offset), g)
  /\ label' = {}
  /\ UNCHANGED <<placeholders, inFunction>>

\* Functions are declared at the top level only, outside any jump.
StartFunction ==
  /\ ~inFunction /\ placeholders = {} /\ label = {}
  /\ SearchEnds(buffer)
  /\ \E g \in UninitLink : buffer' = bc_start_non_linked_chunk(buffer, g)
  /\ inFunction' = TRUE
  /\ UNCHANGED <<placeholders, label>>

\* compile_fn_decl ends the chunk twice.
EndFunction ==
  /\ inFunction /\ placeholders = {} /\ label = {}
  /\ buffer' = bc_end_non_linked_chunk(bc_end_non_linked_chunk(buffer))
  /\ inFunction' = FALSE
  /\ UNCHANGED <<placeholders, label>>

Next == /\ \/ \E i \in Plain : EmitInstruction(i)
           \/ \E op \in ForwardJumps : bc_emit_jump_with_placeholder(op)
           \/ \E p \in placeholders : PatchPlaceholder(p)
           \/ RecordLabel
           \/ bc_emit_opcode_with_jump("OP_JMP")
           \/ StartFunction
           \/ EndFunction
        /\ Len(buffer'.chunks) <= MaxChunks
        /\ Cardinality(placeholders') <= MaxPending

Spec == Init /\ [][Next]_vars

-----------------------------------------------------------------------------
Chunks == buffer.chunks

TypeOK ==
  /\ \A c \in {Chunks[i] : i \in DOMAIN Chunks} :
       /\ c.size \in Nat /\ c.is_linked \in BOOLEAN /\ c.linked_with \in Nat
       /\ c.stream \in DOMAIN Chunks
       /\ \A o \in DOMAIN c.code : o \in Nat /\ c.code[o] \in Instruction
  /\ buffer.current_chunk \in DOMAIN Chunks
  /\ buffer.return_to \in DOMAIN Chunks \union {0}
  /\ buffer.next_chunk_id \in Nat
  /\ \A p \in placeholders \union label : p.chunk \in DOMAIN Chunks /\ p.offset \in Nat
  /\ inFunction \in BOOLEAN

(* bc_ensure_chunk_capacity keeps room for the link that closes a linked chunk:
   no emission, and no link written later, ever runs past such a chunk. *)
LinkedChunksFit ==
  \A i \in DOMAIN Chunks : Chunks[i].is_linked => Chunks[i].size <= Capacity

(* "Begin atomic emission": no instruction straddles two chunks, overlaps
   another or leaves a gap, whatever overflows and patches happened, so a VM
   that starts at offset 0 always decodes what was emitted. *)
InstructionsTileChunks == \A i \in DOMAIN Chunks : Tiled(Chunks[i])

IsResolvedJump(i, o) ==
  /\ Chunks[i].code[o].op \in JumpOps
  /\ [chunk |-> i, offset |-> o] \notin placeholders

(* A patched jump leads to an existing chunk of the same stream of code, to the
   start of an instruction there or to the end of what is emitted so far. *)
JumpsLandOnInstructions ==
  \A i \in DOMAIN Chunks : \A o \in DOMAIN Chunks[i].code :
    IsResolvedJump(i, o) =>
      LET jump == Chunks[i].code[o]
          t    == jump.x + 1
      IN /\ t \in DOMAIN Chunks
         /\ Chunks[t].stream = Chunks[i].stream
         /\ jump.y \in DOMAIN Chunks[t].code \union {Chunks[t].size}

\* The chunk that received what no longer fitted into chunk i.
Continues(i, t) ==
  /\ i < t /\ Chunks[t].stream = Chunks[i].stream
  /\ \A j \in DOMAIN Chunks : i < j /\ j < t => Chunks[j].stream # Chunks[i].stream

LinkedTo(i, t) ==
  \E o \in DOMAIN Chunks[i].code :
    Chunks[i].code[o] = Link(t - 1) /\ o + LinkLength = Chunks[i].size

(* Where a link is written it is the last instruction of its chunk and leads
   to the chunk in which that chunk's code goes on. *)
LinksContinueTheirStream ==
  \A i \in DOMAIN Chunks : \A o \in DOMAIN Chunks[i].code :
    Chunks[i].code[o].op = "OP_JMP_ADR" =>
      \E t \in DOMAIN Chunks : Continues(i, t) /\ LinkedTo(i, t)

(* "Add a new chunk to the buffer (automatically linked)": a linked chunk that
   overflows ends with a jump to the chunk that continues it. *)
AutomaticallyLinked ==
  \A i, t \in DOMAIN Chunks :
    Continues(i, t) /\ Chunks[i].is_linked /\ Chunks[t].is_linked => LinkedTo(i, t)

(* bc_start_non_linked_chunk looks for a linked chunk in a loop that does not
   advance; wherever a function may be declared, it stops at once. *)
FunctionStartTerminates == ~inFunction => SearchEnds(buffer)

(* Code is only added to and patched in the stream that is being emitted: the
   code around a function, and the functions before it, stay as they are. *)
OtherStreamsFrozen ==
  [][\A i \in DOMAIN Chunks :
       Chunks[i].stream # Current(buffer).stream => Chunks'[i] = Chunks[i]]_vars
=============================================================================
