--------------------------------- MODULE MCTige ---------------------------------
(* Instances of Tige for TLC.  Each run explores the programs that can be built
   from one group of constructs. *)
EXTENDS Meaning

Operators   == {"integer", "float", "bool", "string", "symbol", "binary", "not", "minus",
                "ternary", "call", "expression", "let", "no_value", "logical", "assign",
                "nested_assign", "assign_other", "if", "for", "block"}
Loops       == {"integer", "bool", "symbol", "expression", "let", "for", "if", "block", "break"}
WithCalls   == {"integer", "symbol", "bool", "binary", "expression", "let", "assign", "for", "if",
                "fn", "call", "return"}
Arguments   == {"integer", "symbol", "expression", "let", "fn", "call", "return"}
Returns     == {"integer", "expression", "let", "fn", "call", "return"}

OneOp  == {"OP_ADD"}
AllOps == BinaryOpcodes
One    == {1}
Two    == {0, 2}
UserIds == {"a", "b", "f"}
AllIds  == UserIds \union {"print", "__end"}
A       == {"a"}
AB      == {"a", "b"}
AF      == {"a", "f"}
F       == {"f"}
None    == {}
NoParameters == { <<>> }
OneParameter == { <<"b">> }

\* An unset linked_with that is no chunk's id, or is the id of the second chunk.
NoId    == {99}
LuckyId == {1, 99}
Zero    == {0}
NullOnly == {make_null}
NullOrInt == {make_null, make_int(1)}

(* The larger programs of the operators run declare a variable and go on with
   assignments, loops and branches: without errors, without statements that only
   compute a value, and with few of the operators and types.  Declarations without a
   value and assignments as operands are in the smallest programs only. *)
Simple(k) ==
  \/ written[k].kind \in {"more", "end", "let", "integer", "symbol", "for", "if", "no_else", "assign"}
  \/ written[k].name \in {"OP_ADD", "OP_LESS_THAN"}
  \/ written[k].kind = "bool" /\ written[k - 1].kind = "if"
  \/ written[k].kind = "expression" /\ (k < Len(written) => written[k + 1].kind = "assign")

SmallOrSimple ==
  \/ MaxNodes - nodes <= IF OperandsGiven THEN 5 ELSE 4
  \/ /\ ~reported /\ OperandsGiven
     /\ << Node("more", "", 2), Node("let", "a", 1), Leaf("integer", 0) >> = SubSeq(written, 1, 3)
     /\ \A k \in DOMAIN written : Simple(k)
=============================================================================
