---------------------------- MODULE MCBytecodeBuffer ----------------------------
(* Instance of BytecodeBuffer for TLC: two or three instructions fill a chunk.
   The lengths stand to each other as the real ones do: a link takes as much as
   a plain instruction (9 bytes) and less than what is kept for it (12), and a
   jump (17) takes the room of two. *)
EXTENDS BytecodeStreams

MCPlain == {[op |-> "OP_LOAD_CONST_INT", len |-> 2, x |-> 7, y |-> 0, fn |-> ""]}
MCForwardJumps == {"OP_JMP_IF_FALSE"}

\* An unset linked_with that is no chunk's id.
MCNoId == {99}

\* An unset linked_with that looks like the id of the third chunk, and of no other:
\* main code or a function that overflows into the third chunk is linked to it by
\* luck, one that overflows into another chunk is not.
MCLuckyId == {2}
=============================================================================
