------------------------------- MODULE SymbolTable -------------------------------
(***************************************************************************)
(* The scoped symbol table of symbol_table.c: scopes are entered and left  *)
(* and symbols added to the innermost one in any order the API allows.     *)
(***************************************************************************)
EXTENDS Scopes

CONSTANTS Arities,      \* numbers of parameters a function may have
          LevelRange,   \* 2^8: level is a uint8_t
          MaxScopes     \* bound on the nesting depth explored

ASSUME AritiesAssumption == Arities \subseteq Nat
ASSUME LevelRangeAssumption == LevelRange \in Nat \ {0}

VARIABLES scopes,   \* the chain from the global scope to current_scope
          level,    \* the current nesting level
          wrapped   \* history: some register counter has overflowed

vars == <<scopes, level, wrapped>>

-----------------------------------------------------------------------------
create_symbol_table == /\ scopes = << [symbols |-> {}, counter |-> 0] >>
                       /\ level = 0
                       /\ wrapped = FALSE

enter_scope ==
  /\ scopes # <<>> /\ Len(scopes) < MaxScopes
  /\ scopes' = WithNewScope(scopes)
  /\ level' = (level + 1) % LevelRange
  /\ wrapped' = (wrapped \/ Wraps(Innermost(scopes)))

\* Leaving the global scope is refused: "Error: Top level return."
exit_scope ==
  /\ Len(scopes) > 1
  /\ scopes' = WithoutInnermost(scopes)
  /\ level' = (level + LevelRange - 1) % LevelRange
  /\ UNCHANGED wrapped

\* Mutant: the duplicate check is dropped and the old symbol shadowed.
AddUnchecked(n) ==
  /\ scopes # <<>>
  /\ scopes' = WithVariable(scopes, n)
  /\ wrapped' = (wrapped \/ Wraps(Innermost(scopes)))
  /\ UNCHANGED level

\* A duplicate in the innermost scope is refused with -1.
add_symbol(n) ==
  /\ scopes # <<>>
  /\ ~DeclaredIn(Innermost(scopes), n)
  /\ scopes' = WithVariable(scopes, n)
  /\ wrapped' = (wrapped \/ Wraps(Innermost(scopes)))
  /\ UNCHANGED level

\* Only the arity is set: the caller fills in the parameter range, or never does.
add_function_symbol(n, arity) ==
  /\ scopes # <<>>
  /\ ~DeclaredIn(Innermost(scopes), n)
  /\ \E e \in UninitIndex : scopes' = WithFunction(scopes, n, e, arity)
  /\ UNCHANGED <<level, wrapped>>

\* Frees every scope; nothing uses the table afterwards.
destroy_symbol_table ==
  /\ scopes # <<>>
  /\ scopes' = <<>>
  /\ UNCHANGED <<level, wrapped>>

Init == create_symbol_table

Next == \/ enter_scope
        \/ exit_scope
        \/ \E n \in Names : add_symbol(n)
        \/ \E n \in Names, arity \in Arities : add_function_symbol(n, arity)
        \/ destroy_symbol_table

Spec == Init /\ [][Next]_vars

-----------------------------------------------------------------------------
\* Every counter and register index fits 16 bits, the level 8.
TypeOK == /\ scopes \in Seq(Scope)
          /\ level \in 0 .. LevelRange - 1
          /\ wrapped \in BOOLEAN

(* As long as no counter has overflowed, two variables that are in scope at
   the same time, whatever scopes they come from, live in different
   registers: the generated STORE_VAR of one never overwrites the other. *)
VisibleRegistersDistinct ==
  ~wrapped =>
    \A i, j \in DOMAIN scopes :
      \A y \in VariablesOf(scopes[i]), z \in VariablesOf(scopes[j]) :
        y.index = z.index => i = j /\ y = z

(* A name has at most one symbol in a scope, so which symbol a lookup finds
   does not depend on the order of a bucket's chain. *)
LookupIsDeterminate ==
  \A i \in DOMAIN scopes : \A y, z \in scopes[i].symbols :
    y.name = z.name => y = z

(* Only the innermost scope is ever written: whatever happens while a nested
   scope is open, leaving it gives back exactly the symbols and the register
   counter that were there when it was entered. *)
EnclosingScopesFrozen ==
  [][\A i \in DOMAIN scopes : i < Len(scopes) /\ i \in DOMAIN scopes'
        => scopes'[i] = scopes[i]]_vars

IndexesOf(scope) == {y.index : y \in VariablesOf(scope)}

Allocation ==
  INSTANCE RegisterAllocation WITH
    Registers <- RegisterIndex,
    frames <- [i \in DOMAIN scopes |-> IndexesOf(scopes[i])],
    exhausted <- wrapped

(* The table implements the abstract register allocator: until a 16-bit
   counter overflows, every declaration takes a register that no variable in
   scope holds, and scopes come and go like a stack. *)
ImplementsAllocation == Allocation!Spec
=============================================================================
