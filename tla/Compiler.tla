-------------------------------- MODULE Compiler --------------------------------
(***************************************************************************)
(* The code generator of compiler.c.  Its handlers call each other along   *)
(* the syntax tree; here the tree is chosen while it is compiled.  todo is *)
(* the stack of what the pending calls of compile_node still have to do:   *)
(* a construct of the tree that is about to be compiled, or the rest of a  *)
(* handler, with its local variables, after one of its subtrees.           *)
(* A program whose tree has a missing node where the compiler expects one   *)
(* crashes it and is left out.                                             *)
(***************************************************************************)
EXTENDS Context

CONSTANTS Constructs,    \* the kinds of AST node that programs contain
          Ints,          \* integer literals
          BinaryOps,     \* opcodes of binary and comparison operators
          Variables,     \* names declared by let, for and as parameters
          Functions,     \* names of declared functions
          Parameters,    \* the parameter lists functions are declared with
          MaxNodes,      \* bound on the size of a program
          Recording      \* whether the tree is kept as history

ASSUME GrammarAssumption == /\ Variables \union Functions \subseteq UserNames
                            /\ Parameters \subseteq Seq(Variables)
                            /\ Ints \subseteq Nat /\ MaxNodes \in Nat
                            /\ Recording \in BOOLEAN

\* What the compiler emits besides jumps.
Opcodes == BinaryOps \union
  {"OP_LOAD_CONST_INT", "OP_LOAD_CONST_FLOAT", "OP_LOAD_BOOL", "OP_LOAD_STRING",
   "OP_LOAD_VAR", "OP_STORE_VAR", "OP_INC_REG", "OP_LESS_THAN", "OP_SUB", "OP_NOT",
   "OP_CALL", "OP_RETURN", "OP_POP", "OP_SAVE_SP", "OP_RESET_SP", "OP_HALT"}

ASSUME OpcodesAssumption ==
  /\ BinaryOps \intersect (JumpOps \union {"OP_JMP_ADR", "int64"}) = {}
  /\ Opcodes \union {"int64"} \union Names \subseteq STRING
  /\ 9 <= MaxLength
  /\ \A f \in Functions \union {"print"} : Call(f).len \in 1 .. MaxLength

VARIABLES todo,     \* pending work, the innermost call of compile_node first
          nodes,    \* how many more nodes the program may have
          outcome,  \* "compiling", "compiled" or "rejected"
          reported, \* history: an error was printed and compilation went on
          written   \* history: the nodes of the tree so far, parents first

compilerVars == <<symbols, buffer, functions, todo, nodes, outcome, reported, written>>

-----------------------------------------------------------------------------
Doing(k) == outcome = "compiling" /\ todo # <<>> /\ Head(todo).do = k

May(construct) == construct \in Constructs

\* root: the expression is an expression statement.
Expr == [do |-> "expression", root |-> FALSE]
Stmt == [do |-> "statement"]
Body == [do |-> "statements"]
Emit(i) == [do |-> "emit", instruction |-> i]

\* The subtrees of a node count against the size of the program.
Do(items) ==
  LET cost == Len(SelectSeq(items, LAMBDA t : t.do \in {"expression", "statement"}))
  IN /\ cost <= nodes
     /\ nodes' = nodes - cost
     /\ todo' = items \o Tail(todo)

Then(items) == Do(items) /\ UNCHANGED written

\* A node: its kind, the name, operator or number it has, and how many children.
Node(kind, name, arity) == [kind |-> kind, name |-> name, n |-> 0, arity |-> arity]
Leaf(kind, n) == [kind |-> kind, name |-> "", n |-> n, arity |-> 0]

Wrote(node) == written' = IF Recording THEN Append(written, node) ELSE written

\* The handler of a node that is only now chosen.
Chosen(node, items) == Do(items) /\ Wrote(node)

\* Mutant: the value of an expression statement stays on the stack.
ChosenKeep(node, items) == Chosen(node, items)

(* compile_expression_statement pops the value of every expression but an
   assignment. *)
ChosenPop(node, items) ==
  Chosen(node, items \o IF Head(todo).root THEN << Emit(Opcode("OP_POP")) >> ELSE <<>>)

EmittedAll(b, instructions, g) ==
  LET after[k \in 0 .. Len(instructions)] ==
        IF k = 0 THEN b ELSE Emitted(after[k - 1], instructions[k], g)
  IN after[Len(instructions)]

\* The chunks that one step creates have one garbage; in the runs it creates one at most.
Produce(instructions) ==
  \E g \in UninitLink : buffer' = EmittedAll(buffer, instructions, g)

\* The buffer after a jump with a placeholder, and the placeholder.
WithPlaceholder(b, op, g) == Emitted(b, Jump(op, 0, 0), g)
Placeholder(b) == LastWritten(b, Jump("OP_JMP", 0, 0))

Patched(b, p) == bc_backpatch_jump(b, p, Position(b))

-----------------------------------------------------------------------------
Literal(kind, n, instruction) ==
  May(kind) /\ Produce(<< instruction >>) /\ ChosenPop(Leaf(kind, n), <<>>)

compile_literal ==
  /\ Doing("expression")
  /\ \/ \E n \in Ints : Literal("integer", n, WithWord("OP_LOAD_CONST_INT", n))
     \/ \E b \in {0, 1} : Literal("bool", b, WithByte("OP_LOAD_BOOL", b))
     \/ Literal("float", 0, WithWord("OP_LOAD_CONST_FLOAT", 0))
     \/ Literal("string", 0, WithWord("OP_LOAD_STRING", 0))
  /\ UNCHANGED <<symbols, functions, outcome, reported>>

IsVariable(n) == Visible(symbols, n) /\ lookup_symbol(symbols, n).type = "variable"

compile_symbol(n) ==
  /\ Doing("expression") /\ May("symbol") /\ IsVariable(n)
  /\ Produce(<< WithRegister("OP_LOAD_VAR", lookup_symbol(symbols, n).index, n) >>)
  /\ ChosenPop(Node("symbol", n, 0), <<>>)
  /\ UNCHANGED <<symbols, functions, outcome, reported>>

\* compile_binary_op and compile_compare
compile_binary_op(op) ==
  /\ Doing("expression") /\ May("binary")
  /\ ChosenPop(Node("binary", op, 2), << Expr, Expr, Emit(Opcode(op)) >>)
  /\ UNCHANGED <<symbols, buffer, functions, outcome, reported>>

(* Negation writes its 0 before the opcode that loads it: eight bytes that are
   no instruction. *)
compile_unary_op ==
  /\ Doing("expression")
  /\ \/ May("not") /\ ChosenPop(Node("not", "", 1), << Expr, Emit(Opcode("OP_NOT")) >>)
     \/ May("minus") /\ ChosenPop(Node("minus", "", 1),
          << Expr, Emit(Encoded("int64", 8, 0, "")),
             Emit(Opcode("OP_LOAD_CONST_INT")), Emit(Opcode("OP_SUB")) >>)
  /\ UNCHANGED <<symbols, buffer, functions, outcome, reported>>

compile_ternary_op ==
  /\ Doing("expression") /\ May("ternary")
  /\ ChosenPop(Node("ternary", "", 3), << Expr, [do |-> "true_expr"] >>)
  /\ UNCHANGED <<symbols, buffer, functions, outcome, reported>>

compile_true_expr ==
  /\ Doing("true_expr")
  /\ \E g \in UninitLink : buffer' = WithPlaceholder(buffer, "OP_JMP_IF_FALSE", g)
  /\ Then(<< Expr, [do |-> "false_expr", jump_to_false |-> Placeholder(buffer')] >>)
  /\ UNCHANGED <<symbols, functions, outcome, reported>>

compile_false_expr ==
  /\ Doing("false_expr")
  /\ \E g \in UninitLink :
       LET b == WithPlaceholder(buffer, "OP_JMP", g) IN
         /\ buffer' = Patched(b, Head(todo).jump_to_false)
         /\ Then(<< Expr, [do |-> "end_ternary", jump_to_end |-> Placeholder(b)] >>)
  /\ UNCHANGED <<symbols, functions, outcome, reported>>

compile_end_ternary ==
  /\ Doing("end_ternary")
  /\ buffer' = Patched(buffer, Head(todo).jump_to_end)
  /\ Then(<<>>)
  /\ UNCHANGED <<symbols, functions, outcome, reported>>

(* The arguments are compiled, but nothing moves them to the parameters.  A variable
   with the name of a function is called too, with the arity its unset bytes say.
   Calls of other variables are taken to be rejected (compile_error): bytes that agree
   with the call would let through a call of a name that is not registered. *)
compile_call(f) ==
  /\ Doing("expression") /\ May("call") /\ Visible(symbols, f)
  /\ LET fn == lookup_symbol(symbols, f) IN
       ChosenPop(Node("call", f, fn.arity), [i \in 1 .. fn.arity |-> Expr] \o << Emit(Call(f)) >>)
  /\ UNCHANGED <<symbols, buffer, functions, outcome, reported>>

compile_assign(n) ==
  /\ Doing("expression") /\ May(IF Head(todo).root THEN "assign" ELSE "nested_assign")
  /\ Chosen(Node("assign", n, 1), << Expr, [do |-> "assign", name |-> n] >>)
  /\ UNCHANGED <<symbols, buffer, functions, outcome, reported>>

\* To anything but a name: the value is computed and stays on the stack.
compile_assign_other ==
  /\ Doing("expression") /\ May("assign_other")
  /\ Chosen(Node("assign_other", "", 1), << Expr >>)
  /\ UNCHANGED <<symbols, buffer, functions, outcome, reported>>

\* The kind of symbol is not looked at; an undeclared name is only reported.
compile_assign_store ==
  /\ Doing("assign")
  /\ LET n == Head(todo).name IN
       IF Visible(symbols, n)
       THEN Produce(<< WithRegister("OP_STORE_VAR", lookup_symbol(symbols, n).index, n) >>)
       ELSE UNCHANGED buffer
  /\ reported' = (reported \/ ~Visible(symbols, Head(todo).name))
  /\ Then(<<>>)
  /\ UNCHANGED <<symbols, functions, outcome>>

\* The last step of a handler that emits its opcode after its operands.
emit ==
  /\ Doing("emit")
  /\ Produce(<< Head(todo).instruction >>)
  /\ Then(<<>>)
  /\ UNCHANGED <<symbols, functions, outcome, reported>>

-----------------------------------------------------------------------------
compile_expression_statement ==
  /\ Doing("statement") /\ May("expression")
  /\ Chosen(Node("expression", "", 1), << [Expr EXCEPT !.root = TRUE] >>)
  /\ UNCHANGED <<symbols, buffer, functions, outcome, reported>>

\* A block opens no scope of its own.
compile_block ==
  /\ Doing("statement") /\ May("block")
  /\ Chosen(Node("block", "", 1), << Body >>)
  /\ UNCHANGED <<symbols, buffer, functions, outcome, reported>>

compile_next_statement ==
  /\ \/ Doing("statements") /\ (Chosen(Node("more", "", 2), << Stmt, Body >>) \/ Chosen(Node("end", "", 0), <<>>))
     \/ Doing("program") /\ Chosen(Node("more", "", 2), << Stmt, [do |-> "program"] >>)
  /\ UNCHANGED <<symbols, buffer, functions, outcome, reported>>

\* A duplicate is reported, and its value not compiled.  "let a = ;" parses, and
\* stores what happens to be on the stack.
compile_var_decl(n) ==
  /\ Doing("statement") /\ May("let")
  /\ IF DeclaredIn(Innermost(symbols), n)
     THEN Chosen(Node("duplicate", n, 0), <<>>) /\ reported' = TRUE /\ UNCHANGED symbols
     ELSE /\ symbols' = WithVariable(symbols, n) /\ UNCHANGED reported
          /\ LET store == << Emit(WithRegister("OP_STORE_VAR",
                                     lookup_symbol(symbols', n).index, n)) >>
             IN \/ Chosen(Node("let", n, 1), << Expr >> \o store)
                \/ May("no_value") /\ Chosen(Node("no_value", n, 0), store)
  /\ UNCHANGED <<buffer, functions, outcome>>

compile_return ==
  /\ Doing("statement") /\ May("return")
  /\ \/ Chosen(Node("return", "", 1), << Expr, Emit(Opcode("OP_RETURN")) >>) /\ UNCHANGED buffer
     \/ /\ Produce(<< WithWord("OP_LOAD_CONST_INT", 0), Opcode("OP_RETURN") >>)
        /\ Chosen(Node("return", "", 0), <<>>)
  /\ UNCHANGED <<symbols, functions, outcome, reported>>

compile_if ==
  /\ Doing("statement") /\ May("if")
  /\ symbols' = WithNewScope(symbols)
  /\ Produce(<< Opcode("OP_SAVE_SP") >>)
  /\ Chosen(Node("if", "", 3), << Expr, [do |-> "then_branch"] >>)
  /\ UNCHANGED <<functions, outcome, reported>>

compile_then_branch ==
  /\ Doing("then_branch")
  /\ \E g \in UninitLink : buffer' = WithPlaceholder(buffer, "OP_JMP_IF_FALSE", g)
  /\ Then(<< Stmt, [do |-> "else_branch", jump_to_else |-> Placeholder(buffer')] >>)
  /\ UNCHANGED <<symbols, functions, outcome, reported>>

compile_else_branch ==
  /\ Doing("else_branch")
  /\ \E g \in UninitLink :
       LET b   == WithPlaceholder(buffer, "OP_JMP", g)
           end == [do |-> "end_if", jump_to_end |-> Placeholder(b)]
       IN /\ buffer' = Patched(b, Head(todo).jump_to_else)
          /\ Then(<< Stmt, end >>) \/ Chosen(Node("no_else", "", 0), << end >>)
  /\ UNCHANGED <<symbols, functions, outcome, reported>>

compile_end_if ==
  /\ Doing("end_if")
  /\ \E g \in UninitLink :
       buffer' = Emitted(Patched(buffer, Head(todo).jump_to_end), Opcode("OP_RESET_SP"), g)
  /\ symbols' = WithoutInnermost(symbols)
  /\ Then(<<>>)
  /\ UNCHANGED <<functions, outcome, reported>>

Declared(s, n) == IF DeclaredIn(Innermost(s), n) THEN s ELSE WithVariable(s, n)

DeclaredAll(s, names) ==
  LET after[k \in 0 .. Len(names)] ==
        IF k = 0 THEN s ELSE Declared(after[k - 1], names[k])
  IN after[Len(names)]

compile_for(n) ==
  /\ Doing("statement") /\ May("for")
  /\ symbols' = Declared(Declared(WithNewScope(symbols), n), "__end")
  /\ Chosen(Node("for", n, 3),
       << Expr, Emit(WithRegister("OP_STORE_VAR", lookup_symbol(symbols', n).index, n)),
          Expr, [do |-> "for_body", name |-> n] >>)
  /\ UNCHANGED <<buffer, functions, outcome, reported>>

compile_for_body ==
  /\ Doing("for_body")
  /\ LET n   == Head(todo).name
         i   == lookup_symbol(symbols, n).index
         end == lookup_symbol(symbols, "__end").index
     IN \E g \in UninitLink :
          LET b == Emitted(buffer, WithRegister("OP_STORE_VAR", end, "__end"), g)
              c == EmittedAll(b, << WithRegister("OP_LOAD_VAR", i, n),
                                    WithRegister("OP_LOAD_VAR", end, "__end"),
                                    Opcode("OP_LESS_THAN") >>, g)
          IN /\ buffer' = WithPlaceholder(c, "OP_JMP_IF_FALSE", g)
             /\ Then(<< Stmt, [do |-> "end_for", name |-> n, loop_start |-> Position(b),
                                   exit_jump |-> Placeholder(buffer')] >>)
  /\ UNCHANGED <<symbols, functions, outcome, reported>>

\* Mutant: the loop variable is not incremented.
LoopAgain(n, start) == << Jump("OP_JMP", start.chunk - 1, start.offset) >>

\* The end of the loop's body.
LoopEnd(n, start) ==
  << WithRegister("OP_INC_REG", lookup_symbol(symbols, n).index, n),
     Jump("OP_JMP", start.chunk - 1, start.offset) >>

compile_end_for ==
  /\ Doing("end_for")
  /\ LET t == Head(todo) IN
       \E g \in UninitLink :
         buffer' = Patched(EmittedAll(buffer, LoopEnd(t.name, t.loop_start), g), t.exit_jump)
  /\ symbols' = WithoutInnermost(symbols)
  /\ Then(<<>>)
  /\ UNCHANGED <<functions, outcome, reported>>

-----------------------------------------------------------------------------
\* The symbol found under the function's name gets the end of the parameters.
WithArgEnd(s, f, end) ==
  [s EXCEPT ![Len(s) - 1].symbols =
     {IF y.name = f THEN [y EXCEPT !.index = end] ELSE y : y \in @}]

(* The parameters are loaded by the code around the function, where it is
   declared, and the body goes to a chunk of its own. *)
compile_fn_decl(f, params) ==
  /\ Doing("program") /\ May("fn") /\ nodes > 0 /\ SearchEnds(buffer)
  /\ LET s0 == IF DeclaredIn(Innermost(symbols), f) THEN symbols
               ELSE WithFunction(symbols, f, 0, Len(params))
         s1 == WithNewScope(s0)
         s2 == DeclaredAll(s1, params)
         b  == Innermost(s1).counter
         e  == Innermost(s2).counter
     IN /\ symbols' = WithArgEnd(s2, f, e)
        /\ \E g \in UninitLink :
             buffer' = bc_start_non_linked_chunk(
                         EmittedAll(buffer, [k \in 1 .. e - b |->
                           WithRegister("OP_LOAD_VAR", b + k - 1, "")], g), g)
  /\ todo' = << Body, [do |-> "end_fn", name |-> f, params |-> params] >> \o todo
  /\ nodes' = nodes - 1
  /\ Wrote(Node("fn", f, 2))
  /\ UNCHANGED <<functions, outcome, reported>>

\* The entry of the function is the chunk its code ends in.
compile_end_fn ==
  /\ Doing("end_fn")
  /\ buffer' = bc_end_non_linked_chunk(bc_end_non_linked_chunk(buffer))
  /\ functions' = register_function(Head(todo).name,
                     [chunk |-> buffer.current_chunk, params |-> Head(todo).params])
  /\ symbols' = WithoutInnermost(symbols)
  /\ Then(<<>>)
  /\ UNCHANGED <<outcome, reported>>

\* compile_ast ends the program with a halt.
compile_ast_end ==
  /\ Doing("program")
  /\ Produce(<< Opcode("OP_HALT") >>)
  /\ Chosen(Node("end", "", 0), <<>>) /\ outcome' = "compiled"
  /\ UNCHANGED <<symbols, functions, reported>>

(* The process exits: an undefined name or a function used as a variable; a call
   of an undefined function, of a variable, or with other arguments; an operator
   or a statement the compiler does not support. *)
compile_error ==
  /\ \/ Doing("expression") /\ May("symbol") /\ \E n \in UserNames : ~IsVariable(n)
     \/ Doing("expression") /\ (May("call") \/ May("logical"))
     \/ Doing("statement") /\ May("break")
  /\ todo' = <<>> /\ outcome' = "rejected"
  /\ UNCHANGED <<symbols, buffer, functions, nodes, reported, written>>

compile_expression ==
  \/ compile_literal \/ compile_unary_op \/ compile_ternary_op
  \/ compile_true_expr \/ compile_false_expr \/ compile_end_ternary
  \/ compile_assign_other \/ compile_assign_store \/ emit \/ compile_error
  \/ \E op \in BinaryOps : compile_binary_op(op)
  \/ \E n \in Variables : compile_symbol(n)
  \/ \E n \in UserNames : compile_assign(n)
  \/ \E f \in Functions \union {"print"} : compile_call(f)

compile_statement ==
  \/ compile_expression_statement \/ compile_block \/ compile_next_statement
  \/ compile_return \/ compile_if \/ compile_then_branch \/ compile_else_branch
  \/ compile_end_if \/ compile_for_body \/ compile_end_for
  \/ \E n \in Variables : compile_var_decl(n) \/ compile_for(n)
  \/ compile_ast_end \/ compile_end_fn
  \/ \E f \in Functions, ps \in Parameters : compile_fn_decl(f, ps)

compile_node == compile_expression \/ compile_statement

CompilerInit == /\ ctx_init
                /\ todo = << [do |-> "program"] >>
                /\ nodes = MaxNodes
                /\ outcome = "compiling" /\ reported = FALSE /\ written = <<>>
=================================================================================
