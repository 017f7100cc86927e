---------------------------- MODULE BytecodeStreams ----------------------------
(***************************************************************************)
(* BytecodeBuffer implements InstructionStreams: reading the chunks of a   *)
(* stream in the order of the list, and the instructions of a chunk in the *)
(* order of their offsets, gives back the instructions in the order they   *)
(* were emitted, the links between chunks left out.                        *)
(***************************************************************************)
EXTENDS BytecodeBuffer, SequencesExt

\* What is read at offset o: an opcode, or nothing.
OpsAt(c, o) ==
  IF o \in DOMAIN c.code /\ c.code[o].op # "OP_JMP_ADR" THEN << c.code[o].op >> ELSE <<>>

OpsOfChunk(c) == FlattenSeq([k \in 1 .. c.size |-> OpsAt(c, k - 1)])

OpsOfStream(b, s) ==
  FlattenSeq([i \in 1 .. Len(b.chunks) |->
                IF b.chunks[i].stream = s THEN OpsOfChunk(b.chunks[i]) ELSE <<>>])

\* A stream goes by the number of its first chunk.
StreamsOf(b) == {b.chunks[i].stream : i \in DOMAIN b.chunks}

CodeOf(b) == [s \in StreamsOf(b) |-> OpsOfStream(b, s)]

Streams == INSTANCE InstructionStreams WITH
  Main <- 1,
  Ops  <- JumpOps \union {i.op : i \in Plain},
  code <- CodeOf(buffer),
  open <- Current(buffer).stream

(* Chunk overflows, links and function chunks lose, duplicate and reorder
   nothing: each stream of code is what was emitted into it, in that order. *)
ImplementsStreams == Streams!Spec
=============================================================================
