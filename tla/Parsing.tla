--------------------------------- MODULE Parsing ---------------------------------
(***************************************************************************)
(* What the parser promises: programs of the grammar get the tree the      *)
(* grammar gives them; any other list of tokens is not misread without a   *)
(* word; and the parser comes to an end.                                   *)
(***************************************************************************)
EXTENDS Parser

CONSTANTS Operands, Binary, Unary, MaxOperators, MaxNesting, Misread

G == INSTANCE Grammar

Calls == {"program", "decl", "declaration", "params", "fn", "statement", "block", "stmt",
          "expression_stmt", "var_decl", "start", "end", "body", "condition", "then", "else",
          "return", "expression", "assignment", "assign", "ternary", "true_expr", "false_expr",
          "operators", "right", "unary", "operand", "primary", "parenthesis", "callee",
          "arguments"}

(* The cursor stays within the token list, and every call returns one whole
   tree. *)
TypeOK ==
  /\ cursor \in [index : 1 .. End, current : 0 .. End]
  /\ value \in Seq(Nodes(Len(tokens))) /\ IsTree(value)
  /\ \A k \in DOMAIN calls : calls[k].do \in Calls
  /\ outcome \in {"parsing", "parsed", "exited", "crashed"} /\ reported \in BOOLEAN

Finished == outcome # "parsing"

(* A program of the grammar is parsed without a complaint, into the tree its
   productions give it: precedence, associativity, the extent of every construct
   and the order of its parts are those of grammar.ebnf. *)
ParsesAsWritten ==
  Finished /\ tokens \in G!Texts =>
    outcome = "parsed" /\ ~reported /\ [tokens |-> tokens, tree |-> value] \in G!Sentences

-----------------------------------------------------------------------------
\* The program has a tree, and nobody was told of an error in it.
Accepted == outcome = "parsed" /\ value # Missing /\ ~reported

\* The places of the names and literals among the first n tokens.
Written(n) ==
  LET read[k \in 0 .. Len(tokens)] == IF k = 0 THEN <<>>
                                      ELSE IF tokens[k] \in DOMAIN Literal THEN read[k - 1] \o << k >>
                                      ELSE read[k - 1]
  IN read[n]

Arithmetic == {"PLUS", "MINUS", "ASTERISK", "SLASH"}

\* "a + ;", "a + ()": an addition or a multiplication without a right operand.
Unfinished(k) ==
  /\ tokens[k] \in Arithmetic
  /\ \E n \in k + 1 .. End :
       /\ \A i \in k + 1 .. n - 1 : tokens[i] = "LPAREN"
       /\ Kind(n) \notin DOMAIN Literal \union {"LPAREN", "MINUS", "BANG"}

(* Whatever the tokens, an accepted program has every name and every literal in
   its tree once, in the order they were written, unless an operator is unfinished
   (the parser drops its left operand without a word) or there is a ternary (two
   tokens are dropped). *)
NothingLostSilently ==
  Accepted /\ (\A k \in DOMAIN tokens : tokens[k] # "QUESTION" /\ ~Unfinished(k)) =>
    Mentions(value) = Written(Len(tokens))

Opening == {"LPAREN", "LBRACE"}
Partner == [RPAREN |-> "LPAREN", RBRACE |-> "LBRACE"]

\* The brackets left open, or "wrong", once t follows where those before are open.
Nested(before, t) ==
  IF t \in Opening THEN << t >> \o before
  ELSE IF t \notin DOMAIN Partner THEN before
  ELSE IF before # <<>> /\ Head(before) = Partner[t] THEN Tail(before)
  ELSE << "wrong" >> \o before

\* The brackets that the first n tokens leave open, the innermost first.
OpenAfter(n) ==
  LET open[k \in 0 .. Len(tokens)] == IF k = 0 THEN <<>> ELSE Nested(open[k - 1], tokens[k])
  IN open[n]

(* Whatever the tokens, parentheses and braces of an accepted program without a
   ternary match. *)
BracketsMatch ==
  Accepted /\ (\A k \in DOMAIN tokens : tokens[k] # "QUESTION") =>
    OpenAfter(Len(tokens)) = <<>>

-----------------------------------------------------------------------------
\* Tokens that neither begin nor end anything where a statement is expected.
Stray == {"RPAREN", "RBRACE", "COMMA", "COLON", "DOTDOT", "IN", "ELSE", "FN", "PLUS",
          "ASTERISK", "SLASH", "other"}

(* The parser ends, unless it comes to a token no statement begins with: then it
   repeats the same empty statement for ever.  In particular it ends once it has
   seen the end of the tokens, however many constructs are open. *)
StopsUnlessStray == <>Finished \/ <>[](peek(cursor) \in Stray)
=================================================================================
