# A formal model of the Tige interpreter

Tige compiles a small scripting language to bytecode and executes it on a stack
machine. This directory holds TLA+ modules that model the lexer, the parser, the
compiler, the data structures it works on and the virtual machine, the TLC
configurations that check them on small instances, and TLAPS proofs about the
symbol table, the lexer, the bytecode buffer, and compiler and machine together.

## The system

| Part | State | Operations | Who uses it |
|---|---|---|---|
| Lexer (`lexer.c`) | cursor, token list | `lex`, `token_list_*` | parser |
| Parser (`parser.c`, `grammar.ebnf`) | token cursor | recursive descent | `ctx_start_parsing` |
| Syntax tree (`ast.c`) | nodes | constructors, destructors | parser, compiler |
| Symbol table (`symbol_table.c`) | chain of scopes with symbols and a register counter each, nesting level | enter, exit, add, lookup, destroy | compiler, `register_function` |
| Bytecode buffer (`bytecode_buffer.c`) | list of chunks, current chunk, chunk to return to | emit, placeholder, backpatch, new chunk, function chunk | compiler; the machine looks chunks up by id |
| Compiler (`compiler.c`) | the recursion of `compile_node` | one handler per kind of node | `ctx_start_parsing` |
| Context (`context.c`) | function registry; symbols, code and machine | `ctx_init`, `register_function`, `get_function`, `vm_swap_code_buffer` | everybody |
| Machine (`vm.c`, `op_handlers.c`) | chunk, ip, registers, `sp_reset` | one handler per opcode | `main` |
| Stacks (`memory.c`, `functions.c`) | values and sp; frames | push, pop | machine |
| Driver (`main.c`) | – | read, compile, execute, clean up | – |

The process is one thread. Its parts interact by calls and by data left for
later: the compiler writes offsets, register numbers and function names that the
machine uses long after the scopes and chunks they came from were left. The hard
behaviour is there: a chunk that fills up between an emission and the jump
patched into it; a function compiled in the middle of the main program;
registers shared by caller and callee; stack heights that must balance along
every path; fields that are read before they are set. There is no concurrency,
no persistence and no time-out in the program.

What makes each part correct:

* lexer – the source is cut into its longest tokens, nothing but blanks and
  comments is skipped, tokens are reported where they begin, and every source
  has an end;
* parser – a program of the grammar gets the tree of its productions, anything
  else is not accepted with a part missing or a bracket open, and the parser
  comes to an end;
* symbol table – variables in scope together never share a register; a nested
  scope leaves its surroundings as they were;
* bytecode buffer – instructions stay whole and in order, jumps and links lead
  where the code they belong to goes on;
* compiler and machine together – every path decodes whole instructions, pops
  only what was pushed, and leaves the stack as it found it; loops end; calls
  come back to where they were made, with the arguments passed and the caller's
  registers intact (the last two do not hold, see below); and the program does
  what its text says.

## The modules

`Scopes` holds the data of `symbol_table.c` and `BytecodeChunks` that of
`bytecode_buffer.c`: records and the operators that compute what each C function
does to them. They have no variables, so that the modules that use them in
isolation and the composition share every definition.

| Module | Models |
|---|---|
| `Scopes` | symbols, scopes, lookup; register counters modulo `IndexRange` (2^16) |
| `SymbolTable` | the symbol table as a state machine: its API called in any order |
| `RegisterAllocation` | abstract: a declaration gets a register that nobody in scope holds, until the numbers run out |
| `ScopesProofs` | lemmas about the operators of `Scopes` |
| `SymbolTableProofs` | theorems about `SymbolTable` |
| `BytecodeChunks` | chunks, links, emissions, backpatching, function chunks |
| `BytecodeBuffer` | the buffer as a state machine, driven the way the compiler drives it |
| `InstructionStreams` | abstract: main program and functions are sequences of opcodes |
| `BytecodeStreams` | the mapping under which the buffer implements `InstructionStreams`: a stream's chunks in the order of the list, a chunk's opcodes in the order of their offsets, links left out |
| `BytecodeChunksProofs` | lemmas about the operators of `BytecodeChunks` |
| `BytecodeBufferProofs` | theorems about `BytecodeBuffer` and the refinement |
| `Lexer` | `lex` and its scanning functions, one action per function, one step per turn of a loop; the token list of `parser_init` |
| `Lexing` | the tokens of the language and what the lexer promises about them |
| `LexerProofs` | theorems about `Lexer` |
| `Syntax` | nodes and trees of `ast.c` |
| `Parser` | the recursive descent of `parser.c`, one action per function or part of it |
| `Grammar` | reference: the sentences of `grammar.ebnf` with their trees |
| `Parsing` | what the parser promises, in terms of `Grammar` |
| `ParserProofs` | theorems about `Parser` |
| `Context` | what compiler and machine share: symbols, buffer, functions, encodings |
| `Compiler` | `compiler.c`, one action per handler or part of a handler |
| `CompilerProofs` | what every step of the compiler preserves |
| `VM` | `vm_execute` and the opcode handlers, one action per turn of the loop |
| `Tige` | compile, load, execute: `Compiler` and `VM` composed |
| `TigeProofs` | theorems about `Tige` |
| `Meaning` | reference: what a program without functions means, read off its tree |
| `MC*` | instances for TLC |

How the state corresponds to the code:

* `scopes`/`symbols` is the chain of `Scope`s, the global one first. The union in
  `struct Symbol` is kept: a function's `arg_e` is in the bytes of a variable's
  `index`. Hash buckets are sets: a search compares whole names.
* `buffer.chunks[i]` is the chunk with `chunk_id` i − 1, since ids come from one
  counter and chunks are added at the tail. `code` maps byte offsets to
  instructions with their byte lengths; bytes are not modelled one by one.
  `linked_with` starts with any value of `UninitLink`, as `malloc` leaves it.
* `lexer` is the position, line and column; `scan` the scanning function that is
  at work with its local variables. A token is its type, its position and, as a
  history, the characters it was made from; `capacity` is how many the list has
  memory for. Keywords are a constant from words to types, since only whether a
  word is one matters.
* `cursor` is the parser's `current_index` and the place `current_token` was taken
  from; `tokens` leaves out the `TOKEN_EOF` at the end. `calls` is the C stack of
  the `parse_*` functions with their local variables, and `value` what the last
  one returned. The pure chain of calls from `parse_expression` down to
  `parse_unary_expression` is one step, since none of them looks at a token on the
  way; so are the binary levels that return without finding their operator.
* A tree is the sequence of its nodes, parents first, with the number of children
  in each node and the position of the token it was made from.
* `todo` is the C stack of the recursive `compile_node`: a construct still to be
  compiled, or the rest of a handler with its local variables (placeholders, loop
  start, names). The tree is not built first. Each `compile_*` action
  chooses what its children are when it reaches them, so that a run
  explores every program of at most `MaxNodes` nodes built from `Constructs`.
  With `Recording`, `written` keeps the tree that was chosen, parents first; the
  other runs do without, to let equal code be one state.
* `vm` is the machine. `sp` counts values (`stack->sp` + 1); `values` keeps what
  was popped, because `OP_RESET_SP` can bring it back. `status` is `running`,
  or says how the process ended: `halted` (OP_HALT), `failed` (a handler
  answered false), `exited` (`exit` in `print`), `crashed` (a function that is
  not registered), `derailed` (bytes that were not emitted as an instruction,
  or an unset `sp_reset`: what follows is not explored).

History variables and fields, which influence no step: `wrapped`, `stream`, the
variable's name in register instructions, `written`, `params`, `registers`/`fn`/`sp` of a
frame, `reported`.

Operators whose comment begins with "Mutant:" are not part of the model. Each is
a plausible mistake in the definition after it, kept to show that a property
notices it.

### What the parser lets through

`Compiler` explores the trees that `Parser` can return: functions are declared at
the top level only; `let a = ;` and assignments to something that is not a name
parse; `loop` does not. `false` is the token of `true` with another value.
`c ? 1 : 2` loses its branches, because a token is dropped after `?` and after `:`;
ternaries with branches come from texts with a token to lose. A missing child
where the compiler dereferences it crashes the process (a lone `;`, or `a + ;`,
which loses its operand, are expression statements without an expression), and
such trees are left out of `Compiler`. The two halves meet at this list: they are
not run one after the other, because the instances that make each interesting
have no overlap that TLC could enumerate.

## Runs

| Run | Shows | Bounds |
|---|---|---|
| `symbol_table` | type invariant, distinct registers, one symbol per name, enclosing scopes frozen; implements `RegisterAllocation` | 3 names, 3 scopes, 6 register numbers, 2 levels: both counters overflow |
| `bytecode_buffer` | type invariant; instructions tile chunks; linked chunks fit; jumps and links lead to their stream; other streams are frozen; function start ends its search; implements `InstructionStreams` | 4 chunks of two or three instructions, two open placeholders (as in an `if` with `else`), one label; unset `linked_with` holds the third chunk's id, so that overflowing into it is linked by luck and into the others not |
| `operators` | programs do what is written; up to the first negation, pops that do not look at the height of the stack find a value | 5 nodes, all operators and types, integers −4..3, `print`, ternaries, `if`, `for`, blocks, assignments; 4 with a `let a = ;` or an assignment as an operand; and up to 10 nodes for a declaration followed by assignments of sums, branches and loops (`SmallOrSimple`); 2 variables |
| `loops` | type invariant, balanced stack, termination | 7 nodes, nested `for` between 0 and 2, nested `if`, blocks, `break`; 1 variable, shadowed by loops |
| `functions` | whole instructions wherever control goes; frames return after calls; balanced stack | 6 nodes, one function without parameters, recursion to 3 frames, `if`, `for`, assignments, a variable of the function's name; chunks of 50 bytes, unset `linked_with` lucky or not |
| `parser` | type invariant (every call returns one whole tree); programs get the tree of the grammar; nothing lost and no bracket open in silence; the parser stops | all sentences with up to 3 operators, one per level and both signs, statements nested twice, branches of an `if` with up to one operator; all lists of up to 2 tokens of 25 kinds; every sentence with one operator with a token removed or replaced; all lists of up to 5 names, minus signs, parentheses and semicolons |
| `lexer` | type invariant; longest tokens; nothing skipped but blanks and comments as the lexer counts them; positions; the lexer stops | all sources of 3 characters of 16 classes, 6 for numbers and comments, 5 for strings, 11 for comments in comments |

Constants take the values of the code where they matter (in the runs of `MCTige`
the instruction lengths, and the 12 bytes reserved for a 9-byte link: `sizeof` of
an enum is 4); capacities and register ranges are made small so that they are
exhausted within the bounds. The buffer on its own is run with lengths of 2 for
plain instructions and links, 3 for the reserve, 4 for jumps and 7 for a chunk,
which stand to each other as 9, 12, 17 and 30 do: the same sequences of
instructions fill a chunk. Its proofs are for all lengths. Four
chunks are enough for a function between two chunks of main code, each of which
may overflow. Seven nodes are enough for an `if` or `for` inside another, six
for a function with a body that is called, and for code after a function whose
chunk has overflowed. Ten are enough for a loop or a branch
with `else` that assigns to an outer variable what it computes from it. The operands that fill 64-bit
integers are four values wide on each side, so that sums and products overflow.
Three operators are enough for every pair of levels with a parenthesis or a sign
between them; one removed or wrong token reaches every `expect`. In the parser's
model a list of statements is cut at `MaxStatements`, which a parse that consumes
tokens never exceeds, so that a loop that consumes none is a cycle of states.
`MaxRounds`, `MaxOperators`, `MaxNesting`, `MaxStatements`, `IntHalf`, `MaxStack`, `MaxFrames`, `MaxNodes`, `MaxChunks`, `MaxPending` and
`MaxScopes` are the only bounds; `MaxStack` and `MaxFrames` cut
runaway recursion and loops that push.

Deadlock is not checked: a program ends when it has halted or failed, a destroyed table
is never used again, and the state machines stop at their bounds.

Runs that are expected to find a violation, each of a sentence in the code or the
grammar:

| Run | What the code does instead |
|---|---|
| `buffer_automatic_links` | a chunk that overflows is usually not linked to its successor |
| `context_restored` | the caller's registers are not restored |
| `arguments` | parameters do not get the arguments |
| `signed_operand` | in `- a - b` the second minus is another sign of `- a`; `b` is left over |
| `negation_spelling` | the token of `!` is made of two characters: in `!a` the `a` is consumed and in no other token |

More that the modelled code does and no run singles out: an assignment used as a
value (`a = b = 1`) pushes nothing, so that the outer one stores from an empty
stack; `let a = ;` stores from it too; a string whose quote is left open is a STRING up to the end of the
source, without an error (`lexer.c:256`), where `grammar.ebnf:4` has
`"'" [^']* "'" | '"' [^"]* '"'`; block comments nest and may be left open
(`lexer.c:156`), where `grammar.ebnf:6` ends one at the first `*/`
(`"/*" ([^*] | "*" [^/])* "*/"`); a character the lexer does not know ends the
program there; a full function chunk gets a link written past its end if its unset `linked_with` happens to hold
the next chunk's id; an assignment to a function's name stores into register
`arg_e`; a function that ends without `return` starts again.

### Fairness

`parser` and `lexer` assume weak fairness of `Next`: both are plain loops and
recursion of the only thread. `loops` assumes weak fairness of loading and of executing. `main`
calls `vm_execute` after compiling, and `vm_execute` loops without waiting for
anything, so a step that is possible is eventually taken. The bound `MaxStack`
disables a step when it is reached; a program that ran into it would be
reported as not terminating, so the bound hides nothing. `Terminates` is checked for
programs without functions and assignments: recursion need not end, and a
loop whose body sets its variable back runs for ever in the source too.

### Where the properties are conditional

* `VisibleRegistersDistinct` is about executions before a register counter
  overflows (2^16 declarations); afterwards registers collide. In
  `RegisterAllocation` the numbers have then run out (`RunOut`) and nothing is
  promised.
* `DoesWhatIsWritten` is about programs without functions that the compiler printed
  no error about. `Meaning` says nothing of a program once it reads a variable
  whose declaration was not executed (blocks open no scope, and the branches of an
  `if` share one, so that such a variable hides the outer one), compares floats,
  divides by one, negates, or goes round a loop more than `MaxRounds` times.
  What an operator makes of two values is taken from the machine.
* `OperandsPresent` is about programs in which every declaration has its value and
  no assignment is an operand (`OperandsGiven`): `let a = ;` and `a = b = 1` do pop
  an empty stack. The run contains such programs, and without the condition it
  fails on them. The property is silent from the first negation on: the compiler
  emits the bytes of a 0 without an opcode (`compiler.c:241`), which the machine
  goes on to execute, while the model stops there.
* `StatementsLeaveNoValues` is about programs that halt, that the compiler
  printed no error about (it goes on after a duplicate declaration or an
  assignment to an undeclared name), and whose chunks are joined (`Joined`): no
  function is longer than a chunk, and where main goes on in another chunk a link
  leads there. It is checked without assignments to
  something that is not a name, which leave their value on the stack, and
  without assignments as operands. Functions have no
  parameters there, because arguments stay on the stack after a call; and an `if`
  around a call of a function with an `if` is larger than the run's six nodes:
  `sp_reset` is a single register, so that in `if true 1 + f();` an `if` in `f`
  replaces the height the caller saved, and the 1 stays on the stack.
* `ParsesAsWritten` leaves out three kinds of sentences the parser is known to read
  otherwise (`Misread` in `Grammar`): ternaries, a minus after a signed operand,
  and a branch of an `if` that begins with a minus or a parenthesis, which goes on
  with the condition (the sentences of the run contain such branches: without the exclusion
  it fails on `if (a) -a;`). `Grammar` has no productions the parser lacks a function for,
  and no `loop`, no `break` (its semicolon is left over) and no call of a call.
* `NothingLostSilently` and `BracketsMatch` are about programs that have a tree and
  no complaint, without ternaries; the first one leaves out operators without
  a right operand, which lose their left one: besides `a + ;` also `a - ();`, which
  is parsed without a complaint to a statement with nothing in it (if freeing the
  node does not crash).
* `StopsUnlessStray`: at a token no statement begins with the parser does go round
  for ever.
* `LongestTokens` takes three things as the lexer has them and not as the grammar
  does: a string left open is a token (`LeftOpen`), `!` takes the character
  after it along (`WithTheNext`; that this is against the grammar is what `negation_spelling`
  shows), and a character the lexer does not know ends the source (`Unknown`).
* `NothingSkipped` takes comments as the lexer counts them: they nest and may be
  left open. That is the language of `grammar.ebnf` only where no `/*` is inside a
  comment and every comment is closed. It is stated for sources without `/*/`, where
  the comment ends as it begins, and up to a character the lexer does not know;
  the character after `!` counts as part of its token. `ReportedWhereTheyBegin` gives strings of
  several lines the line of their end.
* `StaysOnInstructions` leaves out a machine that entered an empty function: the
  chunk has no instruction to decode.

## Proofs

`SymbolTableProofs` proves, for all sets of names and arities, every number of
registers and levels and any depth of nesting:

* `SymbolTableTypeOK`, `DistinctRegisters`, `DeterminateLookup`: `[]TypeOK`,
  `[]VisibleRegistersDistinct`, `[]LookupIsDeterminate`;
* `FrozenEnclosingScopes`: the action property `EnclosingScopesFrozen`;
* `TableImplementsAllocation`: `Spec => ImplementsAllocation`.

Distinct registers is not inductive: that two scopes have different
registers says nothing about what the inner one will hand out next. The
invariant `SInv` adds (`Separated`) that a scope's registers lie below its
counter, and that both the counter and the registers of a nested scope lie above
the counter of every scope around it; the `+ 1` in `create_scope` makes that
inductive, and leaving a scope keeps it, because enclosing scopes do not change.
`Separated` is only claimed while no counter has overflowed. `OneSymbolPerName`
is inductive because of the duplicate check.

Assumptions: `IndexRange` and `LevelRange` are positive, unset register fields
are within the register range, arities are natural numbers. The lemmas say what
each operator of `Scopes` does to the chain (which scope it touches, what
stays). The refinement maps the chain to the sets of registers of its scopes:
declaring a function, or anything refused, is a stutter.

`LexerProofs` proves, for every source, alphabet and set of keywords and every
initial capacity above 0:

* `LexerTypeOK`: `[]TypeOK`;
* `LexerTokensInOrder`: the tokens are disjoint, in the order of the source, and
  the list ends with its only `TOKEN_EOF`;
* `LexerReportsBeginnings`: `[]ReportedWhereTheyBegin`;
* `LexerSkipsNothing`: `[]NothingSkipped`, with comments as the lexer counts them;
* `LexerTakesLongest`: `[]LongestTokens`, which describes open strings and `!` as
  they are in the code.

`TypeOK` is not inductive: line and column stay below the length of the source
only because they grow at most as fast as the position (`Place`), and a token can
be placed after the ones before it only because a scanning function began at or
after their end and has not gone back (`Before(scan.start)`). `LInv` adds both,
and the shape of `scan`. The actions are few kinds of step (going on, entering
another loop, beginning to scan, returning), and there is one lemma for each.

That tokens are reported where they begin rests on `Located`: line and column of
the lexer are the number of line breaks before its position and the distance from
the last of them, the column kept by a scanning function is that of its start, and
but for a string there is no line break in what was scanned so far. The last
conjunct is needed because words and numbers get the line they end in.

That nothing is skipped but blanks and comments rests on `Skipping`. Where the
next token begins is fixed as soon as the last one ended, by the recursive
definition `Skipped`; `Remains` says what each function of the lexer still has to
skip to get there: in a block comment, the rest of it at the nesting the lexer
counts, and then what follows. That `Skipped` and `CommentEnd` are defined at all has to be proved
first (`CommentsEnd`, `SkipsAll`), by induction from the end of the source: each
refers to places further on only, because a comment, closed or not, ends within
the source (`CommentRange`). The asterisk that opens a comment is read again as
if it could close it, which is harmless without `/*/` (`CommentEntered`).

That a token could not have been longer rests on `Longest`: every token in the list
is the longest, and what a scanning function has read so far is what its loop says
(`Scanned`): digits after digits, a point after digits, an exponent with or without
its sign, letters and digits after a letter, no quote after the opening one. When
the function returns, one character decides that it cannot go on: a string ends
with its quote, or is `LeftOpen` at the end of the source. That no text
further on is a token either is where the work is: what can be continued to a number
(`PartIn`) is closed under prefixes (`PartsOfParts`), so that if a part cannot be
continued by one character (`PartsContinue`) it cannot by several, and which kind
of part was read shows in its characters (`PartsApart`). `LongestTokens` is about every kind
of token at once, not about the one that was returned, so it has also to be shown
that the first character leaves one kind only: no text is both a number and a word,
or a string and an operator, and keywords are words.

Assumptions: sources are sequences of strings, which stand for characters, none of
them the terminating one (`SourcesAssumption`); letters and digits, of which no
character is both, are neither blanks nor quotes nor characters of an operator, and
the letters of exponents are not digits (`AlphabetAssumption`, from `is_alpha`,
`is_digit` and the literals of the `switch`); keywords begin with a letter, go on with
letters and digits, and have types of their own (`KeywordsAssumption`, from the table
in `lexer.c`).

### The parser

`ParserProofs` proves for every set of token lists:

* `Typing`: `[]TypeOK`, the cursor within the list and one whole tree as the result
  of every call;
* `AcceptedMatch`: `[]BracketsMatch`;
* `NothingLost`: `[]NothingLostSilently`;
* `ParserSound`: the inductive invariant `PInv` the first two follow from, and on
  which the third builds.

That `value` is a tree only follows if every tree a pending call holds in its
local variables is one: `Stacked` gives each kind of call its fields (`Item`), and
says that the outermost call is that of the program, with a declaration directly
above it, so that there is always something to return to. A tree is a list of
nodes in preorder, and the definition in `IsTree` counts the nodes still missing;
`Covers` says that a list supplies all but `b` of the `a` that were missing, two
such lists can be appended, and by `NodeIsTree` a node with as many trees as its
arity is a tree.

For the brackets, what was read is related to what is pending. `Balanced` says that
while nothing was reported, the brackets open before the cursor (`OpenAfter`) are
those the pending calls are to close, in their order (`Closes`): a parenthesis
for `parenthesis`, `arguments` and `params`, a brace for `block` and `stmt`. A step that reads no
bracket leaves both sides alone (`QuietSound`), one that opens a bracket leaves a
call that closes it (`OpeningSound`), and one that closes a bracket either finds it or
complains (`ClosingSound`). There are two exceptions: a declaration of a function
with a wrong parameter returns nothing and leaves its parenthesis open, but then
the program has no tree (`GivesUp`); and the ternary drops two tokens, which may be
brackets, so the claim is for lists without `?`. At the end of the tokens a program
has only its own call pending, so nothing is open (`AllClosed`).

For names and literals, `Gathered` says where those that were read are now: the
pending calls, from the outermost to the innermost, and then the last value hold
them, each once and in their order (`Collects`, `Held`, `ReadBefore`). What a tree
mentions is a fold over its nodes, so that of a node with children is the
concatenation of what the children mention (`MentionsOfNode`), and calls that build
a node only have to hold its parts in the right order. An operator holds its left
operand while the right one is parsed, a `for` its variable and its range.

A call returns its tree by overwriting `value`, so nothing may be in it that is not
passed on, and a call may give up with `Missing` what it holds. That it does neither without a
complaint is what `Orderly` adds:

* `FreshFirst`: calls that have just begun, and do not look at `value`, are the
  innermost, and `value` is `Missing` then;
* `Wants`: a binary operator drops its left operand if its right one is missing. An operator
  that awaits its right operand either gets one or is unfinished in the source, which the property
  excludes. Between the operator and an operand that turns out missing there are
  parentheses only, which `Unfinished` looks through;
* `Starts`: where a `primary` or a list of parameters begins there is no sign, and no
  token was skipped;
* `Rooms`: a list of statements is shorter than the tokens read, because each
  statement consumed one, so that it never reaches `MaxStatements`, where the model cuts
  it.

Of each step it is shown that it `Handles` the order of the calls and `Keeps`
what was read, or gives up the program as above (`Serves`); `GatheredAfter` concludes the
same for the whole list of pending calls, so that the steps need not be compared
with each other.

Assumption: `SourcesAssumption`, sources are sequences of strings other than
`"EOF"`, which stands for the end of the list.

### The bytecode buffer

`BytecodeBufferProofs` proves for every capacity, reserve and instruction lengths
allowed by `SizesAssumption`, whatever malloc leaves in `linked_with`:

* `Typing`, `ChunksFit`, `ChunksTiled`, `JumpsLand`, `LinksContinue`,
  `StartTerminates`: the invariants the run `bytecode_buffer` checks;
* `StreamsFrozen`: the action property `OtherStreamsFrozen`;
* `BufferImplementsStreams`: `Spec => ImplementsStreams`.

None of the invariants is inductive alone. `Sound` (in `BytecodeChunksProofs`) is
the conjunction that is, of the buffer `b`, the open jumps `P` and the label `L`:

* `AllTiled`: an instruction is written at a chunk's size, so nothing else may
  begin at or reach over it. It is also what makes a patch hit a whole
  instruction, and keeps a jump to the end of a chunk good when an instruction is
  written there.
* `RoomKept`: that a linked chunk fits is not enough, because the link is written
  into it later. The last chunk of a stream still has its reserve.
* `OpenEnds`: code is only written at the end of a stream, so that a link, once
  written, stays the last instruction of its chunk; and while a function is
  compiled, the main program's chunk to come back to is the last of its stream,
  so that this still holds after `bc_end_non_linked_chunk`, called twice.
* `LinksLead`: a link leads to the next chunk of its stream. The chunks between
  are of other streams, and a new chunk continues only the stream at whose end it
  is added. That `linked_with` must be lucky for a link to be written at all does
  not matter: the condition compares it with the id the new chunk gets.
* `MainLinked`: the chunks of the main program are linked, which is why the
  search of `bc_start_non_linked_chunk` ends; `InFunction` says by the stream of
  the current chunk whether a function is compiled.
* `JumpsLead`, `ArePlaceholders`, `AreLabels`: a resolved jump, and a label a
  jump will be made to, leads to an instruction of its stream or to where its
  stream's next one begins; an open jump is a jump, and of the open stream, so
  that the position it is patched to is in its own stream.

There is a lemma for each operation: writing an instruction (`Extends`), adding a
chunk with or without a link (`Adds`), patching (`Patches`), and starting and
ending a function preserve `Sound`, each conjunct in turn.

For the refinement, a stream is the concatenation (`FlattenSeq`) of its chunks,
and a chunk that of what is read at its offsets, so the proof is about
concatenations: an element added to the last nonempty part is added to the whole
(`FlattenAdded`), and parts that become longer by nothing change nothing. `Sound`
supplies what is needed: by `Tiled` the new instruction is at the highest offset of
its chunk, by `OpenEnds` its chunk is the last one of its stream. Patching keeps
opcodes, links are not counted, and a chunk added without a link begins a stream;
so each action maps to the emission of one opcode, to the start or end of a
function, or to a stutter.

### Compiler and machine

`TigeProofs` proves for every program built from `Constructs`, every capacity and
register range, whatever memory contained:

* `Typing`: `[]TypeOK`, which says that the machine is in an existing chunk, its
  stack pointer within what was ever pushed, and that frames belong to
  existing chunks;
* `Returns`: `[]FramesReturnAfterCalls`;
* `OnInstructions`: `[]StaysOnInstructions`, for constructs without `minus`: to
  negate, the compiler emits a constant's bytes without an opcode before them,
  which the machine executes.

What the machine may rely on is what the compiler left. `CInv` in `CompilerProofs`
is an invariant of the compiler's steps, and is mostly about `todo`, the handlers
that are not finished:

* the buffer is `Sound` for the placeholders and loop starts that the
  pending handlers hold in their local variables (`PlaceOf`, `LabelOf`), so that a
  patch made long after its jump was emitted still hits that jump, of the
  same stream;
* `Scoped`: each pending handler that leaves a scope has one of its own above
  the global one, and they leave them in the order opposite to the one they were
  entered in; a loop's variable and limit are declared in the scope in which its
  handler will look them up;
* `Queue`: the program is the outermost of what is pending and a function the next,
  so that no jump outside a function waits while its chunk is open; and a function
  is compiled exactly while its `end_fn` is pending (`InBody`, `InFunction`);
* `OpsIn`: only what the compiler emits is in the chunks, which without `minus`
  contain no data; `Registered`: functions are in existing chunks.

Lists of instructions and of parameters are emitted and declared by recursive
functions; `EmittedAllSteps` and `DeclaredAllSteps` turn each into a sequence of
steps, by induction over the length.

Once compiled, code does not change. `TInv` adds to `CInv` that the machine is
`Fine`, and that a running machine is at an instruction unless its chunk is empty.
Each handler leaves it at an edge of an instruction (`AtEdge`): past the one it
executed because chunks are tiled, or where a jump or link leads because of
`JumpsLead` and `LinksLead`, or after a call because every frame is `AfterCall`.
What the loop of `vm_execute` does at the end of a chunk brings it from an edge to
an instruction.

### Assumptions

`SizesAssumption`: lengths are positive, a link fits into the room reserved for
it, and an empty chunk has room for every instruction and a link; a program
that calls a function with a very long name does not satisfy it.
`PlainAssumption`, `ForwardJumpsAssumption`: what is emitted is as the
compiler emits it. `OpcodesAssumption`: arithmetic is not done by jumps, links or
data, and the longest instruction and every call fit into `MaxLength`;
`GrammarAssumption` and `NamesAssumption`: what the parser can return. `StringsAssumption`: a few opcodes
are in `STRING`, of which the provers know no member.

### What is only model-checked

* The parser: that sentences get their trees (`ParsesAsWritten`). An invariant
  would have to say which derivations of `Grammar` the pending calls are completing.
* Compiler and machine: `OperandsPresent`, `StatementsLeaveNoValues` and
  `DoesWhatIsWritten` relate the heights and values of the stack along every path
  to the tree; an invariant would have to carry a height for every offset of the
  code.
* Liveness (`Terminates`, and that lexer and parser stop): the provers have no
  rules for fairness.
* What `Grammar` and `Meaning` define by recursion over texts and trees. Induction
  is available only for sets of numbers (`SetInduction`), which sufficed for
  functions over positions, sums, concatenations and lists.

## Abstractions

Where the modules simplify what the code does, apart from the bounds:

* The bytes of a variable that a call compares with an arity (`symbol.h:20`,
  `compiler.c:498`) are 0. So a call of a plain variable is always refused, while
  with lucky bytes in unset memory the code emits `OP_CALL`.
* Chunks that are created in one step of the compiler share one unset `linked_with`.
* `INT64_MIN / -1` wraps like the other operators; in C it traps. Integers that
  reach it are in no run.
* There is a register for every number a symbol can have. The code has 512 and
  does not check.
* A machine that meets bytes without an opcode stops (`derailed`). The code goes
  on: in the only case the compiler produces, a negation, it executes eight zero bytes as
  `OP_NOPE` and reads the constant's bytes from whatever follows its opcode.

## Not modelled

The destruction of structures and of tokens and trees, failing allocations, the
fields of the context that nobody sets (`ctx->functions`, and `ctx->code` after a
failed parse), the disassembler, the heap's allocator (no opcode reaches it),
the evaluator and the garbage collector (unused and empty), error lists (never
filled), digits of floats, contents of strings, emissions longer than an empty
chunk, and opcodes the compiler never emits.

## Plan

Order by what matters most, modules first written, then proved about:

1. done: `Scopes`, `SymbolTable`, `RegisterAllocation` and their proofs;
   `BytecodeChunks`, `BytecodeBuffer`, `InstructionStreams`; `Context`, `Compiler`,
   `VM`, `Tige`.
2. done: `Lexer`, `Lexing`, `Syntax`, `Parser`, `Grammar`, `Parsing`.
3. `Lifecycle`: which fields of the context are set when, the two machines
   `create_vm` makes, clean-up after errors, function registry with removal.
4. done: `Meaning`, a direct evaluation of trees; left: functions in it.
5. done: `BytecodeBufferProofs`, the invariants and the refinement.
6. done: `CompilerProofs`, `TigeProofs`: types, frames, instructions.
7. done: `LexerProofs`, all invariants of the lexer.
8. done: `ParserProofs`, types, matching brackets, and that nothing is lost; left:
   `ParsesAsWritten`.
