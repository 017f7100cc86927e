--------------------------------- MODULE Grammar ---------------------------------
(***************************************************************************)
(* The sentences of grammar.ebnf up to a size, each with the tree that its *)
(* productions give it: the reference for Parser.  Left out are the        *)
(* productions the parser has no function for (classes, namespaces,        *)
(* members, scopes, this), loop, and a call of a call.                     *)
(***************************************************************************)
EXTENDS Syntax

CONSTANTS Operands,     \* the tokens that stand for literals and identifiers
          Binary,       \* from levels of precedence to the operators tried there
          Unary,        \* the signs tried
          MaxOperators, \* bound on the operators of an expression
          MaxNesting,   \* bound on the nesting of statements
          Misread       \* which sentences to include that the parser reads otherwise:
                        \* those of a "ternary", a "minus", an "if", see below

\* A piece of program text with its tree; a terminal of the grammar has none.
Word(kind) == [tokens |-> << kind >>, tree |-> <<>>, signed |-> FALSE]
Absent     == [tokens |-> <<>>, tree |-> Missing, signed |-> FALSE]

Shifted(t, d) == [k \in DOMAIN t |-> [t[k] EXCEPT !.at = IF @ = 0 THEN 0 ELSE @ + d]]

\* The sentence made of parts; its node is named after the key-th part, if any.
Phrase(type, key, parts) ==
  LET start[k \in 1 .. Len(parts) + 1] ==
        IF k = 1 THEN 0 ELSE start[k - 1] + Len(parts[k - 1].tokens)
      trees == [k \in DOMAIN parts |-> Shifted(parts[k].tree, start[k])]
  IN [tokens |-> FlattenSeq([k \in DOMAIN parts |-> parts[k].tokens]),
      tree   |-> Node(type, IF key = 0 THEN 0 ELSE start[key] + 1,
                      SelectSeq(trees, LAMBDA t : t # <<>>)),
      signed |-> FALSE]

Parenthesized(s) == [tokens |-> << "LPAREN" >> \o s.tokens \o << "RPAREN" >>,
                     tree   |-> Shifted(s.tree, 1), signed |-> FALSE]

LeafOf == [INTEGER |-> "INTEGER", FLOAT |-> "FLOAT", STRING |-> "STRING", IDENTIFIER |-> "SYMBOL"]
Operand(kind) == [Word(kind) EXCEPT !.tree = Leaf(LeafOf[kind], 1)]
Name == Operand("IDENTIFIER")

(* What the parser reads otherwise than the grammar, besides ternaries: a minus
   after a signed operand is a sign of that operand, and a minus or a parenthesis
   after if (...) goes on with the condition. *)
Allowed(left, op) == op = "MINUS" /\ left.signed => "minus" \in Misread
AllowedAfterIf(s) == Head(s.tokens) \in {"MINUS", "LPAREN"} => "if" \in Misread

-----------------------------------------------------------------------------
Split(n) == {<<i, n - 1 - i>> : i \in 0 .. n - 1}

BinaryNode == << "COMPARE", "BINARY_OP", "COMPARE", "COMPARE", "BINARY_OP", "BINARY_OP" >>

(* Sentences with n operators: level 0 is assignment_expr, 1 ternary_expr, 2 to 7
   logical_or_expr to multiplicative_expr, 8 unary_expr, 9 primary_expr.  A level
   contains the next one. *)
Expressions ==
  LET E[n \in 0 .. MaxOperators, l \in 0 .. 9] ==
    LET pairs(first, second) ==
          UNION {E[s[1], first] \X E[s[2], second] : s \in Split(n)}
        own ==
          CASE n = 0 -> IF l = 9 THEN {Operand(k) : k \in Operands} ELSE {}
            [] l = 0 -> {Phrase("ASSIGN", 2, << p[1], Word("EQUALS"), p[2] >>) : p \in pairs(1, 0)}
            [] l = 1 -> IF "ternary" \in Misread
                        THEN {Phrase("TERNARY_OP", 0, << p[1], Word("QUESTION"), p[2],
                                                         Word("COLON"), Name >>) : p \in pairs(2, 0)}
                        ELSE {}
            [] l \in 2 .. 7 ->
                 {[Phrase(BinaryNode[l - 1], 2, << q[1][1], Word(q[2]), q[1][2] >>)
                     EXCEPT !.signed = q[1][2].signed] :
                    q \in {r \in pairs(l, l + 1) \X Binary[l - 1] : Allowed(r[1][1], r[2])}}
            [] l = 8 -> {[Phrase("UNARY_OP", 1, << Word(op), s >>) EXCEPT !.signed = TRUE] :
                           op \in Unary, s \in E[n - 1, 8]}
            [] l = 9 -> {Parenthesized(s) : s \in E[n - 1, 0]}
                        \union {Phrase("CALL", 0, << Name, Word("LPAREN"), s, Word("RPAREN") >>) :
                                  s \in E[n - 1, 0]}
    IN own \union (IF l = 9 THEN {} ELSE E[n, l + 1])
  IN [n \in 0 .. MaxOperators |-> E[n, 0]]

Simple == Expressions[0]

(* Calls with no argument or two are tried on their own. *)
Calls == {Phrase("CALL", 0, << Name, Word("LPAREN"), Word("RPAREN") >>),
          Phrase("CALL", 0, << Name, Word("LPAREN"), Name, Word("COMMA"), Name, Word("RPAREN") >>)}

-----------------------------------------------------------------------------
ExpressionStatement(s) == Phrase("EXPRESSION_STMT", 0, << s, Word("SEMICOLON") >>)

Return(s) == Phrase("RETURN", 0, << Word("RETURN"), s, Word("SEMICOLON") >>)

VariableDecl(s) == Phrase("VAR_DECL", 2, << Word("LET"), Word("IDENTIFIER"), Word("EQUALS"), s,
                                            Word("SEMICOLON") >>)

Block(list) == Phrase("BLOCK", 0, << Word("LBRACE") >> \o list \o << Word("RBRACE") >>)

If(c, then, else) == Phrase("IF", 0, << Word("IF"), Parenthesized(c), then >> \o else)

For(range, body) ==
  Phrase("FOR", 2, << Word("FOR"), Word("IDENTIFIER"), Word("IN"), range, body >>)

Interval(from, to) == Phrase("RANGE", 0, << from, Word("DOTDOT"), to >>)

Function(params, body) ==
  Phrase("FN_DECL", 2, << Word("FN"), Word("IDENTIFIER"), Word("LPAREN") >> \o params
                       \o << Word("RPAREN"), body >>)

\* An else belongs to the nearest if: what ends without one is no branch before it.
Closed(s) == s.tree[1].type # "IF" \/ s.tree[Len(s.tree)] # Missing[1]

Statements ==
  LET S[n \in 0 .. MaxNesting] ==
    IF n = 0 THEN {ExpressionStatement(s) : s \in Simple}
                  \union {Return(s) : s \in Simple \union {Absent}}
    ELSE LET inner  == S[n - 1]
             blocks == {Block(<<>>)} \union {Block(<< s >>) : s \in inner}
                       \union {Block(<< s, t >>) : s \in inner, t \in S[0]}
             branches == {s \in inner : AllowedAfterIf(s)}
         IN inner \union blocks
              \union {If(c, s, << Absent >>) : c \in Simple, s \in branches}
              \union {If(c, s, << Word("ELSE"), t >>) :
                        c \in Simple, s \in {t \in branches : Closed(t)}, t \in S[0]}
              \union {For(Interval(from, to), b) : from \in Simple, to \in Simple, b \in blocks}
  IN S[MaxNesting]

\* Branches whose statement has an operator, and may begin with a sign or a parenthesis.
Branches ==
  {s \in {ExpressionStatement(e) : e \in Expressions[1]} : AllowedAfterIf(s)}

Declarations ==
  {ExpressionStatement(s) : s \in UNION {Expressions[n] : n \in 0 .. MaxOperators} \union Calls}
    \union Statements \union {If(c, s, << Absent >>) : c \in Simple, s \in Branches} \union {VariableDecl(s) : s \in Simple}
    \union {Function(ps, b) : ps \in {<<>>, << Name >>, << Name, Word("COMMA"), Name >>},
                              b  \in {Block(<<>>)} \union {Block(<< Return(s) >>) : s \in Simple}}

Programs == {Phrase("BLOCK", 0, << d >>) : d \in Declarations}
              \union {Phrase("BLOCK", 0, << VariableDecl(s), d >>) :
                        s \in Simple, d \in {ExpressionStatement(t) : t \in Expressions[1]}}

(* Text and tree of every program. *)
Sentences == {[tokens |-> p.tokens, tree |-> p.tree] : p \in Programs}
Texts     == {p.tokens : p \in Programs}
=================================================================================
