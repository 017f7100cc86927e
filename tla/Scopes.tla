--------------------------------- MODULE Scopes ---------------------------------
(***************************************************************************)
(* The data of symbol_table.c: symbols, scopes, and what the operations do *)
(* to a chain of scopes, the global scope first.  A scope owns its symbols *)
(* and the counter from which its variables take their register index.     *)
(* The 256 hash buckets and their chains are abstracted to the set of      *)
(* symbols they hold: a bucket search compares full names, so it finds     *)
(* what a search of the set finds.                                         *)
(***************************************************************************)
EXTENDS Naturals, Sequences

CONSTANTS Names,        \* identifiers a program uses
          IndexRange,   \* 2^16: variable_index_counter is a uint16_t
          UninitIndex   \* what malloc leaves in an unset register field

ASSUME IndexRangeAssumption == IndexRange \in Nat \ {0}
ASSUME UninitAssumption == UninitIndex \subseteq 0 .. IndexRange - 1

RegisterIndex == 0 .. IndexRange - 1

\* The union of struct Symbol: a function keeps arg_e, the end of its
\* parameter range, in the bytes where a variable keeps its index.  The arity
\* bytes of a variable are never set, though compile_call compares them: they
\* are taken to be 0, as in a fresh page.
Symbol == [name  : Names, type : {"variable", "function"},
           index : RegisterIndex, arity : Nat]

Variable(n, index) == [name |-> n, type |-> "variable", index |-> index, arity |-> 0]

Function(n, argEnd, arity) ==
  [name |-> n, type |-> "function", index |-> argEnd, arity |-> arity]

Scope == [symbols : SUBSET Symbol, counter : RegisterIndex]

-----------------------------------------------------------------------------
Innermost(s) == s[Len(s)]

VariablesOf(scope) == {y \in scope.symbols : y.type = "variable"}

DeclaredIn(scope, n) == \E y \in scope.symbols : y.name = n

\* lookup_symbol: the innermost scope that declares n decides.
Visible(s, n) == \E i \in DOMAIN s : DeclaredIn(s[i], n)

lookup_symbol(s, n) ==
  LET home == CHOOSE i \in DOMAIN s :
                /\ DeclaredIn(s[i], n)
                /\ \A j \in DOMAIN s : j > i => ~DeclaredIn(s[j], n)
  IN CHOOSE y \in s[home].symbols : y.name = n

\* Mutant: a nested scope restarts its register numbers.
CreateScopeFromZero(parent) == [symbols |-> {}, counter |-> 0]

\* A scope starts counting after the registers its parent has given out so far.
create_scope(parent) ==
  [symbols |-> {}, counter |-> (parent.counter + 1) % IndexRange]

WithNewScope(s) == Append(s, create_scope(Innermost(s)))

WithoutInnermost(s) == SubSeq(s, 1, Len(s) - 1)

\* Mutant: the new symbol is chained into the global scope.
WithGlobalVariable(s, n) ==
  [s EXCEPT ![1].symbols =
     @ \union {Variable(n, Innermost(s).counter)},
            ![Len(s)].counter = (@ + 1) % IndexRange]

\* Mutant: the counter is kept in a wider integer than the index.
WithUnboundedCounter(s, n) ==
  [s EXCEPT ![Len(s)] =
     [symbols |-> @.symbols \union {Variable(n, @.counter)},
      counter |-> @.counter + 1]]

WithVariable(s, n) ==
  [s EXCEPT ![Len(s)] =
     [symbols |-> @.symbols \union {Variable(n, @.counter)},
      counter |-> (@.counter + 1) % IndexRange]]

WithFunction(s, n, argEnd, arity) ==
  [s EXCEPT ![Len(s)] =
     [symbols |-> @.symbols \union {Function(n, argEnd, arity)},
      counter |-> @.counter]]

Wraps(scope) == scope.counter + 1 = IndexRange
=================================================================================
