--------------------------------- MODULE Context ---------------------------------
(***************************************************************************)
(* struct Context of context.h: what the compiler leaves for the virtual   *)
(* machine, and the encodings both agree on.                               *)
(***************************************************************************)
EXTENDS BytecodeChunks, Scopes

CONSTANTS UserNames   \* the identifiers that occur in programs

ASSUME NamesAssumption == UserNames \union {"print", "__end"} \subseteq Names

VARIABLES symbols,    \* ctx->symbols: the chain of scopes, the global one first
          buffer,     \* ctx->code
          functions   \* ctx->functions: what get_function finds under each name

(* Instructions other than jumps.  var is history: the name of the variable
   whose register an instruction uses. *)
Encoded(op, len, x, name) == [op |-> op, len |-> len, x |-> x, y |-> 0, fn |-> name]
Opcode(op)                == Encoded(op, 1, 0, "")
WithByte(op, b)           == Encoded(op, 2, b, "")
WithRegister(op, r, var)  == Encoded(op, 3, r, var)
WithWord(op, w)           == Encoded(op, 9, w, "")

\* OP_CALL carries the name of the function and its terminator.
Call(name) == Encoded("OP_CALL", 1 + Len(name) + 1, 0, name)

(* HASH_ADD_KEYPTR puts the new entry in front of an older one of that name.
   The function symbol register_function adds lives in the innermost scope: the
   global one for print, the function's own, left at once, for the others. *)
register_function(name, fn) ==
  [n \in DOMAIN functions \union {name} |-> IF n = name THEN fn ELSE functions[n]]

(* ctx_init and main: an empty symbol table, print, and the compiler's buffer.
   print has no code (chunk 0).  params is history.  main leaves the head of
   ctx->functions unset; it is taken to be null, as the program needs it. *)
ctx_init ==
  /\ \E e \in UninitIndex :
       symbols = WithFunction(<< [symbols |-> {}, counter |-> 0] >>, "print", e, 1)
  /\ functions = [n \in {"print"} |-> [chunk |-> 0, params |-> <<>>]]
  /\ \E g \in UninitLink : buffer = bc_buffer_create(g)
=============================================================================
