---------------------------------- MODULE Tige ----------------------------------
(***************************************************************************)
(* A run of the interpreter, as in main.c: a program is compiled, and if   *)
(* the compiler did not give up, the code is executed.                     *)
(***************************************************************************)
EXTENDS Compiler, VM

vars == <<symbols, buffer, functions, todo, nodes, outcome, reported, written, vm, status>>

Init == CompilerInit /\ VMInit

Compile == compile_node /\ UNCHANGED machineVars

Load == outcome = "compiled" /\ vm_swap_code_buffer /\ UNCHANGED compilerVars

Execute == vm_execute /\ UNCHANGED compilerVars

Next == Compile \/ Load \/ Execute

Spec == Init /\ [][Next]_vars

(* The process is one thread: once the code is loaded, vm_execute goes round
   its loop for as long as it can. *)
FairSpec == Spec /\ WF_vars(Load) /\ WF_vars(Execute)

-----------------------------------------------------------------------------
Running == status = "running"
Statuses == {"off", "running", "halted", "failed", "exited", "crashed", "derailed"}

\* The stacks are within what they hold and the machine is in an existing chunk.
TypeOK ==
  /\ outcome \in {"compiling", "compiled", "rejected"}
  /\ status \in Statuses
  /\ buffer.current_chunk \in DOMAIN buffer.chunks
  /\ status # "off" =>
       /\ vm.chunk \in DOMAIN buffer.chunks /\ vm.ip \in Nat
       /\ vm.sp \in 0 .. Len(vm.values)
       /\ vm.sp_reset \in {Unset} \union 0 .. Len(vm.values)
       /\ \A i \in DOMAIN vm.frames : vm.frames[i].chunk \in DOMAIN buffer.chunks

(* "each handler increments the ip with the required size": wherever jumps,
   calls, returns and the ends of chunks take it, the machine decodes what was
   emitted as an instruction, unless it was given a chunk without any. *)
StaysOnInstructions == Running /\ buffer.chunks[vm.chunk].size > 0 => Decodable

\* No function was longer than a chunk, and main's full chunks are linked.
Joined ==
  \A i, j \in DOMAIN buffer.chunks :
    i < j /\ buffer.chunks[i].stream = buffer.chunks[j].stream =>
      /\ buffer.chunks[i].stream = 1
      /\ \E o \in DOMAIN buffer.chunks[i].code : buffer.chunks[i].code[o].op = "OP_JMP_ADR"

(* A program leaves the stack as it found it: whatever branches, loops and calls
   were taken, each statement removes exactly the values it computed.  About
   programs the compiler had nothing to say about and whose chunks are joined:
   where a chunk is full and leads nowhere, the machine goes round in it, or starts
   in the middle of the program, and halts with values that nothing removes. *)
StatementsLeaveNoValues ==
  [][Running /\ ~reported /\ Joined /\ status' = "halted" => vm.sp = 0]_vars

\* Every call that is being executed returns to the instruction after an OP_CALL.
FramesReturnAfterCalls ==
  status # "off" =>
    \A i \in DOMAIN vm.frames :
      LET code == buffer.chunks[vm.frames[i].chunk].code IN
      \E o \in DOMAIN code :
        code[o].op = "OP_CALL" /\ o + code[o].len = vm.frames[i].ip

(* Programs without functions and without assignments terminate: every loop
   counts up to an end that was computed once. *)
Terminates == Running ~> ~Running

Returning == Running /\ Decodable /\ Fetched.op = "OP_RETURN" /\ Len(vm'.frames) < Len(vm.frames)

(* "Restore the previous execution context": after a return the caller's
   registers hold what they held at the call. *)
ContextRestored == [][Returning => vm'.registers = Head(vm.frames).registers]_vars

(* "load the arguments": a function that reads a parameter reads the argument
   it was called with. *)
ParametersHoldArguments ==
  Running /\ Decodable /\ vm.frames # <<>> /\ Fetched.op = "OP_LOAD_VAR" =>
    LET frame  == Head(vm.frames)
        params == functions[frame.fn].params
    IN \A k \in DOMAIN params :
         params[k] = Fetched.fn =>
           vm.registers[Fetched.x] = vm.values[frame.sp - Len(params) + k]
=============================================================================
