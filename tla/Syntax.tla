--------------------------------- MODULE Syntax ---------------------------------
(***************************************************************************)
(* The syntax tree of ast.c.  A tree is written as the sequence of its     *)
(* nodes, parents before children and children from left to right; with    *)
(* the number of children in each node that determines the tree.  What a   *)
(* node is called, counts or says is the token it was made from, given by  *)
(* its position in the token list.                                         *)
(***************************************************************************)
EXTENDS Integers, SequencesExt

\* The node types of ast.h that the parser creates; "NULL" is a missing node.
Leaves    == {"INTEGER", "FLOAT", "BOOL", "STRING", "SYMBOL"}
Named     == Leaves \union {"VAR_DECL", "FN_DECL", "FOR"}
NodeTypes == Named \union {"NULL", "BINARY_OP", "COMPARE", "UNARY_OP", "ASSIGN", "TERNARY_OP",
                           "CALL", "EXPRESSION_STMT", "BLOCK", "IF", "BREAK", "RETURN", "RANGE"}

\* create_ast, with the fields its callers set, and the create_* of the statements
Node(type, at, children) ==
  << [type |-> type, at |-> at, arity |-> Len(children)] >> \o FlattenSeq(children)

Leaf(type, at) == Node(type, at, <<>>)
Missing == Leaf("NULL", 0)

Nodes(last) == [type : NodeTypes, at : 0 .. last, arity : Nat]

\* The nodes of t are those of one tree: only at its end is no child missing.
IsTree(t) ==
  LET open[k \in 0 .. Len(t)] == IF k = 0 THEN 1 ELSE open[k - 1] - 1 + t[k].arity
  IN \A k \in 0 .. Len(t) : open[k] = 0 <=> k = Len(t)

\* The tokens that a tree's names and literals were made from, in its order.
Mentions(t) ==
  LET made[k \in 0 .. Len(t)] == IF k = 0 THEN <<>>
                                 ELSE IF t[k].type \in Named THEN made[k - 1] \o << t[k].at >>
                                 ELSE made[k - 1]
  IN made[Len(t)]
=================================================================================
