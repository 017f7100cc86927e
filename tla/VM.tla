----------------------------------- MODULE VM -----------------------------------
(***************************************************************************)
(* The virtual machine of vm.c and op_handlers.c, with its value stack and *)
(* call stack (memory.c, functions.c): one action per handler of an opcode *)
(* the compiler emits.  An action is one turn of the loop in vm_execute:   *)
(* fetch, handler, and what the loop does with the handler's answer.       *)
(***************************************************************************)
EXTENDS Context, Integers

CONSTANTS IntHalf,    \* 2^63: integers are int64_t
          Garbage,    \* what an uninitialised Value may hold
          MaxStack,   \* bound on the values on the stack
          MaxFrames   \* bound on the depth of calls

ASSUME IntHalfAssumption == IntHalf \in Nat \ {0}

VARIABLES vm,         \* the machine's registers, stacks and instruction pointer
          status      \* "off", "running", or why it stopped

machineVars == <<vm, status>>

-----------------------------------------------------------------------------
Value(type, v) == [type |-> type, v |-> v]
make_int(n)    == Value("VAL_INT", ((n + IntHalf) % (2 * IntHalf)) - IntHalf)
make_bool(b)   == Value("VAL_BOOL", IF b THEN 1 ELSE 0)
make_null      == Value("VAL_NULL", 0)
make_string(x) == Value("VAL_STRING", x)
make_float     == Value("VAL_FLOAT", 0)    \* the digits are left out

BothOf(a, b, types) == a.type = b.type /\ a.type \in types

\* C's division truncates towards zero.  -2^63 / -1, which traps in C, wraps here; no
\* run reaches it.
Quotient(a, b) ==
  LET abs(n) == IF n < 0 THEN -n ELSE n
      q == abs(a) \div abs(b)
  IN IF (a < 0) = (b < 0) THEN q ELSE -q

Same(a, b) ==
  BothOf(a, b, {"VAL_INT", "VAL_FLOAT", "VAL_BOOL", "VAL_STRING"}) /\ a.v = b.v

(* The results a binary handler may push, none if it gives up.  SUB and MUL
   accept anything beside a float, the others do not. *)
BinaryResults(op, a, b) ==
  LET ints      == BothOf(a, b, {"VAL_INT"})
      floats    == BothOf(a, b, {"VAL_FLOAT"})
      someFloat == "VAL_FLOAT" \in {a.type, b.type}
      Compared(r) == IF floats THEN {make_bool(TRUE), make_bool(FALSE)} ELSE IF ints THEN {make_bool(r)} ELSE {}
  IN CASE op = "OP_ADD" -> IF ints THEN {make_int(a.v + b.v)} ELSE IF floats THEN {make_float} ELSE {}
       [] op = "OP_SUB" -> IF someFloat THEN {make_float} ELSE IF ints THEN {make_int(a.v - b.v)} ELSE {}
       [] op = "OP_MUL" -> IF someFloat THEN {make_float} ELSE IF ints THEN {make_int(a.v * b.v)} ELSE {}
       [] op = "OP_DIV" -> IF ints /\ b.v # 0 THEN {make_int(Quotient(a.v, b.v))}
                           ELSE IF floats THEN {make_float} ELSE {}
       [] op = "OP_EQUAL"         -> IF floats THEN {make_bool(TRUE), make_bool(FALSE)} ELSE {make_bool(Same(a, b))}
       [] op = "OP_NOT_EQUAL"     -> IF floats THEN {make_bool(TRUE), make_bool(FALSE)} ELSE {make_bool(~Same(a, b))}
       [] op = "OP_LESS_THAN"     -> Compared(a.v < b.v)
       [] op = "OP_GREATER_THAN"  -> Compared(a.v > b.v)
       [] op = "OP_LESS_EQUAL"    -> Compared(a.v <= b.v)
       [] op = "OP_GREATER_EQUAL" -> Compared(a.v >= b.v)

BinaryOpcodes == {"OP_ADD", "OP_SUB", "OP_MUL", "OP_DIV", "OP_EQUAL", "OP_NOT_EQUAL",
                  "OP_LESS_THAN", "OP_GREATER_THAN", "OP_LESS_EQUAL", "OP_GREATER_EQUAL"}

-----------------------------------------------------------------------------
(* sp counts the values on the stack (stack->sp + 1).  values keeps what was
   popped: moving sp up again brings it back. *)
vm_push(m, v) ==
  [m EXCEPT !.sp = @ + 1,
            !.values = IF m.sp < Len(@) THEN [@ EXCEPT ![m.sp + 1] = v] ELSE Append(@, v)]

\* Mutant: the check for an empty stack is missing.
PopUnchecked(m) == [m EXCEPT !.sp = @ - 1]

\* Popping an empty stack leaves it alone; the caller gets an unset Value.
vm_pop(m) == [m EXCEPT !.sp = IF @ = 0 THEN 0 ELSE @ - 1]
Popped(m) == IF m.sp = 0 THEN Garbage ELSE {m.values[m.sp]}

Operand(k) == vm.values[vm.sp - k]

Code == buffer.chunks[vm.chunk].code

\* The bytes at the instruction pointer were emitted as an instruction.
Decodable == vm.ip \in DOMAIN Code /\ Code[vm.ip].op # "int64"
Fetched == Code[vm.ip]

Fetching(ops) == status = "running" /\ Decodable /\ Fetched.op \in ops

\* The machine after the handler has read its operands.
Advanced == [vm EXCEPT !.ip = @ + Fetched.len]

\* The handler answers true: at the end of the chunk the loop starts it again.
Go(m) == /\ vm' = IF m.ip >= buffer.chunks[m.chunk].size THEN [m EXCEPT !.ip = 0] ELSE m
         /\ UNCHANGED status

\* The handler answers false, or the process ends.
Stop(m, why) == vm' = m /\ status' = why

\* vm_execute returns the value on top of the stack.
Break(m, why) == Stop(vm_pop(m), why)

GoOrFail(m, ok) == IF ok THEN Go(m) ELSE Break(m, "failed")

\* vm_jump_to_chunk and the offset; false if there is no such chunk.
JumpTo(m, id, offset) ==
  IF id + 1 \in DOMAIN buffer.chunks
  THEN Go([m EXCEPT !.chunk = id + 1, !.ip = offset])
  ELSE Break(m, "failed")

-----------------------------------------------------------------------------
\* handle_load_const_int, handle_load_bool, handle_load_string
handle_load_const ==
  \/ Fetching({"OP_LOAD_CONST_INT"}) /\ Go(vm_push(Advanced, make_int(Fetched.x)))
  \/ Fetching({"OP_LOAD_BOOL"}) /\ Go(vm_push(Advanced, make_bool(Fetched.x # 0)))
  \/ Fetching({"OP_LOAD_STRING"}) /\ Go(vm_push(Advanced, make_string(Fetched.x)))

\* The bytes are taken from the chunk execution started in, not this one.
handle_load_const_float ==
  Fetching({"OP_LOAD_CONST_FLOAT"}) /\ Go(vm_push(Advanced, make_float))

handle_binary ==
  /\ Fetching(BinaryOpcodes)
  /\ IF vm.sp < 2 THEN Break(Advanced, "failed")
     ELSE LET results == BinaryResults(Fetched.op, Operand(1), Operand(0)) IN
          \/ \E r \in results : Go(vm_push(vm_pop(vm_pop(Advanced)), r))
          \/ /\ results = {} \/ (Fetched.op = "OP_DIV" /\ Operand(0).type = "VAL_FLOAT")
             /\ Break(vm_pop(vm_pop(Advanced)), "failed")

handle_not ==
  /\ Fetching({"OP_NOT"})
  /\ IF vm.sp = 0 THEN Break(Advanced, "failed")
     ELSE GoOrFail(IF Operand(0).type = "VAL_BOOL"
                   THEN vm_push(vm_pop(Advanced), make_bool(Operand(0).v = 0))
                   ELSE vm_pop(Advanced), Operand(0).type = "VAL_BOOL")

handle_jmp == Fetching({"OP_JMP"}) /\ JumpTo(Advanced, Fetched.x, Fetched.y)

handle_jmp_adr ==
  Fetching({"OP_JMP_ADR"}) /\ Go([Advanced EXCEPT !.chunk = Fetched.x + 1, !.ip = 0])

\* handle_jmp_if_true is the same with the condition turned round.
handle_jmp_if_false ==
  /\ Fetching({"OP_JMP_IF_FALSE"})
  /\ IF vm.sp = 0 THEN Break(Advanced, "failed")
     ELSE IF Operand(0) = make_bool(FALSE) THEN JumpTo(vm_pop(Advanced), Fetched.x, Fetched.y)
     ELSE GoOrFail(vm_pop(Advanced), Operand(0).type = "VAL_BOOL")

\* Mutant: print leaves no value for the statement to pop.
StdOutWithoutValue(m) ==
  \E v \in Popped(m) : IF v.type = "VAL_STRING" THEN Go(vm_pop(m)) ELSE Stop(vm_pop(m), "exited")

\* print pops its format string and pushes null; any other value ends the process.
std_out(m) ==
  \E v \in Popped(m) : IF v.type = "VAL_STRING" THEN Go(vm_push(vm_pop(m), make_null))
                        ELSE Stop(vm_pop(m), "exited")

\* Mutant: the caller would go on with the call itself.
FrameAtCall(m) ==
  [chunk |-> m.chunk, ip |-> vm.ip, registers |-> m.registers, fn |-> Fetched.fn, sp |-> vm.sp]

(* The frame keeps a pointer to the machine's registers, not a copy of them.
   registers, fn and sp are history: the registers and the height of the stack
   at the time of the call, and the function called. *)
push_call_frame(m) ==
  [chunk |-> m.chunk, ip |-> m.ip, registers |-> m.registers, fn |-> Fetched.fn, sp |-> vm.sp]

\* A name that is not registered is dereferenced as a null function.
handle_call ==
  /\ Fetching({"OP_CALL"})
  /\ IF Fetched.fn \notin DOMAIN functions THEN Stop(Advanced, "crashed")
     ELSE IF Fetched.fn = "print" THEN std_out(Advanced)
     ELSE Go([Advanced EXCEPT !.frames = << push_call_frame(Advanced) >> \o @,
                              !.chunk  = functions[Fetched.fn].chunk, !.ip = 0])

(* The returned value stays on the stack, and copying the registers to
   themselves restores nothing. *)
handle_return ==
  /\ Fetching({"OP_RETURN"})
  /\ IF vm.sp = 0 \/ vm.frames = <<>> THEN Break(Advanced, "failed")
     ELSE Go([Advanced EXCEPT !.frames = Tail(@),
                              !.chunk  = Head(vm.frames).chunk,
                              !.ip     = Head(vm.frames).ip])

handle_halt == Fetching({"OP_HALT"}) /\ Break(Advanced, "halted")

\* The index is not checked against the machine's 512 registers (vm.h:19): here there
\* is a register for every number the compiler gives out.
handle_store_var ==
  /\ Fetching({"OP_STORE_VAR"})
  /\ \E v \in Popped(vm) :
       Go([vm_pop(Advanced) EXCEPT !.registers[Fetched.x] = v])

handle_load_var ==
  Fetching({"OP_LOAD_VAR"}) /\ Go(vm_push(Advanced, vm.registers[Fetched.x]))

handle_inc_reg ==
  /\ Fetching({"OP_INC_REG"})
  /\ LET v == vm.registers[Fetched.x] IN
       Go(IF v.type = "VAL_INT" THEN [Advanced EXCEPT !.registers[Fetched.x] = make_int(v.v + 1)]
          ELSE Advanced)

handle_pop == Fetching({"OP_POP"}) /\ Go(vm_pop(Advanced))

\* create_vm does not set sp_reset; what follows from its use is not followed.
Unset == -1

\* One register for all the if statements that are being executed.
handle_save_sp  == Fetching({"OP_SAVE_SP"}) /\ Go([Advanced EXCEPT !.sp_reset = vm.sp])
handle_reset_sp ==
  /\ Fetching({"OP_RESET_SP"})
  /\ IF vm.sp_reset = Unset THEN Stop(Advanced, "derailed")
     ELSE Go([Advanced EXCEPT !.sp = vm.sp_reset])

(* Bytes that no emission laid out as an instruction.  The code goes on with them, with
   the 0 of a negation as eight times OP_NOPE (vm.c:139); the model stops. *)
Derail == status = "running" /\ ~Decodable /\ Stop(vm, "derailed")

(* create_vm and vm_swap_code_buffer: execution begins in the chunk the
   compiler was writing to last. *)
vm_swap_code_buffer ==
  /\ status = "off"
  /\ vm' = [chunk     |-> buffer.current_chunk,  ip |-> 0,
            sp        |-> 0,  values |-> <<>>,   sp_reset |-> Unset,
            registers |-> [r \in RegisterIndex |-> make_null],
            frames    |-> <<>>]
  /\ status' = "running"

vm_execute ==
  /\ \/ handle_load_const \/ handle_load_const_float \/ handle_binary \/ handle_not
     \/ handle_jmp \/ handle_jmp_adr \/ handle_jmp_if_false
     \/ handle_call \/ handle_return \/ handle_halt
     \/ handle_store_var \/ handle_load_var \/ handle_inc_reg
     \/ handle_pop \/ handle_save_sp \/ handle_reset_sp \/ Derail
  /\ vm'.sp <= MaxStack /\ Len(vm'.frames) <= MaxFrames

VMInit == status = "off" /\ vm = <<>>
=================================================================================
