--------------------------------- MODULE Parser ---------------------------------
(***************************************************************************)
(* The recursive descent of parser.c over the list of tokens that          *)
(* parser_init has taken from the lexer.  calls is the stack of what the   *)
(* pending parse_* functions still have to do: a function that is about to *)
(* be called, or the rest of one, with its local variables, after a call   *)
(* whose result is in value.                                               *)
(***************************************************************************)
EXTENDS Syntax

CONSTANT Sources   \* the token lists, without the TOKEN_EOF each ends with

ASSUME SourcesAssumption == Sources \subseteq Seq(STRING \ {"EOF"})

VARIABLES tokens,    \* the token list
          cursor,    \* current_index, and the position current_token was taken from
          calls,     \* pending work, the innermost call first
          value,     \* what the last call returned
          outcome,   \* "parsing", "parsed", or how the process ended
          reported   \* history: an error or a warning was printed

vars == <<tokens, cursor, calls, value, outcome, reported>>

-----------------------------------------------------------------------------
(* The cursor.  At the end of the list token_list_next makes a new TOKEN_EOF
   without a text and stays where it is. *)
End == Len(tokens) + 1

Kind(i) == CASE i \in DOMAIN tokens -> tokens[i] [] i = End -> "EOF" [] OTHER -> "none"

peek(c)    == Kind(c.index)
current(c) == Kind(c.current)

\* Mutant: the last token is no stop.
AdvancedPastEnd(c) == [index |-> c.index + 1, current |-> c.index]

advance(c) == IF c.index < End THEN [index |-> c.index + 1, current |-> c.index]
                               ELSE [c EXCEPT !.current = End]

\* MATCH compares and, if it can, consumes; at the end it consumes in any case.
matches(c, kinds) == peek(c) \in kinds
matched(c, kinds) == IF matches(c, kinds) \/ peek(c) = "EOF" THEN advance(c) ELSE c

\* Mutant: only the closing token ends a list of statements.
NeverAtEnd(c) == FALSE

is_parse_end(c) == current(c) = "EOF"

-----------------------------------------------------------------------------
Doing(k)  == outcome = "parsing" /\ Head(calls).do = k
Call(k)   == [do |-> k]
Sees(kinds) == matches(cursor, kinds)

Step(pending, v, c, complaint) ==
  /\ calls' = pending \o Tail(calls)
  /\ value' = v
  /\ cursor' = c
  /\ reported' = (reported \/ complaint)
  /\ UNCHANGED <<tokens, outcome>>

Go(pending, c) == Step(pending, Missing, c, FALSE)
Return(v, c)   == Step(<<>>, v, c, FALSE)

\* Mutant: whatever token is next is taken for the expected one.
ReturnSkipping(v, kind) == Step(<<>>, v, advance(cursor), FALSE)

(* expect(kind), then the function goes on; a token of another kind stays. *)
ReturnExpecting(v, kind) == Step(<<>>, v, matched(cursor, {kind}), ~Sees({kind}))

Stop(how, v) ==
  /\ outcome' = how /\ value' = v /\ calls' = <<>>
  /\ UNCHANGED <<tokens, cursor, reported>>

(* Statements that do not consume a token repeat until memory runs out.  Only
   as many are remembered as a parse that gets on can make. *)
MaxStatements == End
Appended(list, v) == IF Len(list) < MaxStatements THEN Append(list, v) ELSE list

-----------------------------------------------------------------------------
\* Mutant: conjunction and disjunction exchanged.
BinaryOpsExchanged == << {"AND"}, {"OR"}, {"EQ", "NEQ"}, {"LT", "GT", "LTE", "GTE"},
                         {"PLUS", "MINUS"}, {"ASTERISK", "SLASH"} >>

(* A chain of calls from a parser of expressions down to parse_unary_expression
   consumes nothing on its way.  The binary operators have six levels of
   precedence, and Levels(l) is the pending parsers of the levels from l up. *)
BinaryOps == << {"OR"}, {"AND"}, {"EQ", "NEQ"}, {"LT", "GT", "LTE", "GTE"},
                {"PLUS", "MINUS"}, {"ASTERISK", "SLASH"} >>
NodeOf    == << "COMPARE", "BINARY_OP", "COMPARE", "COMPARE", "BINARY_OP", "BINARY_OP" >>

Levels(l) == << Call("unary"), [do |-> "operators", low |-> l, high |-> 6] >>
Ternary   == Levels(1) \o << Call("ternary") >>
Expression == Ternary \o << Call("assignment") >>

parse_expression == Doing("expression") /\ Go(Expression, cursor)

parse_unary_expression ==
  /\ Doing("unary")
  /\ Go(IF Sees({"MINUS", "BANG"})
        THEN << Call("unary"), [do |-> "operand", at |-> cursor.index] >>
        ELSE << Call("primary") >>,
        matched(cursor, {"MINUS", "BANG"}))

\* Every further sign is applied to the expression that was parsed already.
parse_unary_operand ==
  /\ Doing("operand")
  /\ LET node == Node("UNARY_OP", Head(calls).at, << value >>)
         c    == matched(cursor, {"MINUS", "BANG"})
     IN IF Sees({"MINUS", "BANG"})
        THEN Step(<< [do |-> "operand", at |-> cursor.index] >>, node, c, FALSE)
        ELSE Return(node, c)

Literal == [INTEGER |-> "INTEGER", FLOAT |-> "FLOAT", TRUE |-> "BOOL", STRING |-> "STRING",
            IDENTIFIER |-> "SYMBOL"]

parse_primary_expression ==
  /\ Doing("primary")
  /\ LET c == matched(cursor, DOMAIN Literal \union {"LPAREN"}) IN
       CASE Sees(DOMAIN Literal) ->
              Step(<< Call("callee") >>, Leaf(Literal[peek(cursor)], cursor.index), c, FALSE)
         [] Sees({"LPAREN"}) -> Go(<< Call("expression"), Call("parenthesis") >>, c)
         [] OTHER -> Return(Missing, c)

\* Mutant: a missing closing parenthesis is nobody's error.
ParenthesisUnchecked ==
  /\ Doing("parenthesis")
  /\ Step(<< Call("callee") >>, value, matched(cursor, {"RPAREN"}), FALSE)

parse_parenthesis ==
  /\ Doing("parenthesis")
  /\ Step(<< Call("callee") >>, value, matched(cursor, {"RPAREN"}), ~Sees({"RPAREN"}))

\* One call may follow a primary expression.
parse_callee ==
  /\ Doing("callee")
  /\ LET c == matched(cursor, {"LPAREN"}) IN
       IF Sees({"LPAREN"})
       THEN Go(<< Call("expression"),
                  [do |-> "arguments", callee |-> value, list |-> <<>>] >>, c)
       ELSE Return(value, c)

(* The message about a missing parenthesis takes the text of whatever the callee
   is. *)
Unclosed(callee) ==
  CASE callee = Missing -> {"crashed"}
    [] Head(callee).type \in {"SYMBOL", "STRING"} -> {"exited"}
    [] OTHER -> {"crashed", "exited"}

parse_call_expression ==
  /\ Doing("arguments")
  /\ LET call == Head(calls)
         list == IF value = Missing THEN call.list ELSE Append(call.list, value)
     IN IF value # Missing /\ Sees({"COMMA"})
        THEN Go(<< Call("expression"), [call EXCEPT !.list = list] >>, advance(cursor))
        ELSE IF Sees({"RPAREN"})
        THEN Return(Node("CALL", 0, << call.callee >> \o list), advance(cursor))
        ELSE \E how \in Unclosed(call.callee) : Stop(how, Missing)

(* The loops of the pending levels.  Those above the one that finds its operator
   have returned; addition and multiplication give up without a left operand. *)
parse_binary_operators ==
  /\ Doing("operators")
  /\ LET call  == Head(calls)
         found == {l \in call.low .. call.high :
                     Sees(BinaryOps[l]) /\ (l >= 5 => value # Missing)}
     IN IF found = {} THEN Return(value, matched(cursor, {}))
        ELSE \E l \in found :
               Go(Levels(l + 1) \o
                  << [do |-> "right", level |-> l, at |-> cursor.index, left |-> value],
                     [call EXCEPT !.high = l] >>, advance(cursor))

(* Without a right operand the node is freed before its field for it was set, and
   the left operand with it. *)
parse_right_operand ==
  /\ Doing("right")
  /\ LET call == Head(calls) IN
       IF value = Missing /\ call.level >= 5
       THEN Return(Missing, cursor) \/ Stop("crashed", Missing)
       ELSE Return(Node(NodeOf[call.level], call.at, << call.left, value >>), cursor)

\* A token is dropped after ? and another after :, whatever they are.
parse_ternary_expression ==
  \/ /\ Doing("ternary")
     /\ LET c == matched(cursor, {"QUESTION"}) IN
          IF Sees({"QUESTION"})
          THEN Go(<< Call("expression"), [do |-> "true_expr", condition |-> value] >>, advance(c))
          ELSE Return(value, c)
  \/ /\ Doing("true_expr")
     /\ Step(Ternary \o << [do |-> "false_expr", condition |-> Head(calls).condition,
                            true_expr |-> value] >>,
             Missing, advance(matched(cursor, {"COLON"})), ~Sees({"COLON"}))
  \/ /\ Doing("false_expr")
     /\ Return(Node("TERNARY_OP", 0, << Head(calls).condition, Head(calls).true_expr, value >>),
               cursor)

parse_assignment_expression ==
  \/ /\ Doing("assignment")
     /\ LET c == matched(cursor, {"EQUALS"}) IN
          IF Sees({"EQUALS"})
          THEN Go(<< Call("expression"), [do |-> "assign", at |-> cursor.index,
                                          left |-> value] >>, c)
          ELSE Return(value, c)
  \/ /\ Doing("assign")
     /\ Return(Node("ASSIGN", Head(calls).at, << Head(calls).left, value >>), cursor)

-----------------------------------------------------------------------------
\* A statement that begins with a token of its own.
Begins(kind) == Doing("statement") /\ Sees({kind})

Keywords == {"LET", "IF", "FOR", "LOOP", "BREAK", "RETURN", "LBRACE"}

parse_expression_stmt ==
  \/ /\ Doing("statement") /\ ~Sees(Keywords)
     /\ Go(<< Call("expression"), Call("expression_stmt") >>, matched(cursor, Keywords))
  \/ /\ Doing("expression_stmt")
     /\ ReturnExpecting(Node("EXPRESSION_STMT", 0, << value >>), "SEMICOLON")

(* The name that follows fn, let and for, and the token after it.  The name is
   copied from the current token, whether it is an identifier or not: at the end
   there is no text to copy. *)
Declaring(after, pending(_)) ==
  LET name == matched(advance(cursor), {"IDENTIFIER"})
      wrong == current(name) # "IDENTIFIER" \/ ~matches(name, {after})
  IN IF is_parse_end(name) THEN Stop("crashed", Missing)
     ELSE Step(pending(name.current), Missing, matched(name, {after}), wrong)

parse_var_decl_stmt ==
  \/ Begins("LET") /\ Declaring("EQUALS", LAMBDA n :
                        << Call("expression"), [do |-> "var_decl", at |-> n] >>)
  \/ /\ Doing("var_decl")
     /\ ReturnExpecting(Node("VAR_DECL", Head(calls).at, << value >>), "SEMICOLON")

\* parse_for_stmt and parse_range_expr
parse_for_stmt ==
  \/ Begins("FOR") /\ Declaring("IN", LAMBDA n :
                        << Call("expression"), [do |-> "start", at |-> n] >>)
  \/ /\ Doing("start")
     /\ Step(<< Call("expression"), [do |-> "end", at |-> Head(calls).at, start |-> value] >>,
             Missing, matched(cursor, {"DOTDOT"}), ~Sees({"DOTDOT"}))
  \/ /\ Doing("end")
     /\ Go(<< Call("statement"),
              [do |-> "body", at |-> Head(calls).at,
               range |-> Node("RANGE", 0, << Head(calls).start, value >>)] >>, cursor)
  \/ /\ Doing("body")
     /\ Step(<<>>, IF value = Missing THEN Missing
                   ELSE Node("FOR", Head(calls).at, << Head(calls).range, value >>),
             cursor, value = Missing)

parse_if_stmt ==
  \/ Begins("IF") /\ Go(<< Call("expression"), Call("condition") >>, advance(cursor))
  \/ /\ Doing("condition")
     /\ IF value = Missing THEN Step(<<>>, Missing, cursor, TRUE)
        ELSE Go(<< Call("statement"), [do |-> "then", condition |-> value] >>, cursor)
  \/ /\ Doing("then")
     /\ LET c == matched(cursor, {"ELSE"})
            parts == << Head(calls).condition, value >>
        IN IF Sees({"ELSE"})
           THEN Step(<< Call("statement"), [do |-> "else", parts |-> parts] >>,
                     Missing, c, value = Missing)
           ELSE Step(<<>>, Node("IF", 0, Append(parts, Missing)), c, value = Missing)
  \/ /\ Doing("else")
     /\ Return(Node("IF", 0, Append(Head(calls).parts, value)), cursor)

\* loop is not parsed further, and break leaves its semicolon.
parse_loop_stmt  == Begins("LOOP") /\ Return(Missing, advance(cursor))
parse_break_stmt == Begins("BREAK") /\ Return(Leaf("BREAK", 0), advance(cursor))

parse_return_stmt ==
  \/ Begins("RETURN") /\ Go(<< Call("expression"), Call("return") >>, advance(cursor))
  \/ Doing("return") /\ ReturnExpecting(Node("RETURN", 0, << value >>), "SEMICOLON")

Block(list) == [do |-> "block", list |-> list]

parse_block_stmt ==
  \/ Begins("LBRACE") /\ Go(<< Block(<<>>) >>, advance(cursor))
  \/ /\ Doing("block")
     /\ LET list == Head(calls).list
            c    == IF is_parse_end(cursor) THEN cursor ELSE matched(cursor, {"RBRACE"})
        IN IF is_parse_end(cursor) THEN Step(<<>>, Missing, cursor, TRUE)
           ELSE IF Sees({"RBRACE"}) THEN Return(Node("BLOCK", 0, list), c)
           ELSE Go(<< Call("statement"), [do |-> "stmt", list |-> list] >>, c)
  \/ /\ Doing("stmt")
     /\ Go(<< Block(Appended(Head(calls).list, value)) >>, cursor)

(* The parameters, commas or not, up to a parenthesis.  If the first one is
   missing, the token before stands for it if it is a name. *)
parse_fn_decl_stmt ==
  \/ /\ Doing("declaration") /\ Sees({"FN"})
     /\ Declaring("LPAREN", LAMBDA n : << [do |-> "params", at |-> n, params |-> <<>>] >>)
  \/ /\ Doing("params")
     /\ LET call == Head(calls)
            c    == matched(cursor, {"IDENTIFIER", "COMMA"})
            params == IF current(c) = "IDENTIFIER"
                      THEN Append(call.params, Leaf("SYMBOL", c.current)) ELSE call.params
            closed == advance(c)
        IN IF ~Sees({"IDENTIFIER", "COMMA", "RPAREN"}) THEN Return(Missing, c)
           ELSE IF ~matches(c, {"RPAREN"})
           THEN Go(<< [call EXCEPT !.params = params] >>, matched(c, {}))
           ELSE Step(<< Block(<<>>), [call EXCEPT !.do = "fn", !.params = params] >>,
                     Missing, matched(closed, {"LBRACE"}), ~matches(closed, {"LBRACE"}))
  \/ /\ Doing("fn")
     /\ Return(Node("FN_DECL", Head(calls).at, Head(calls).params \o << value >>), cursor)

parse_decl_stmt ==
  Doing("declaration") /\ ~Sees({"FN"}) /\ Go(<< Call("statement") >>, cursor)

\* A declaration that parses to nothing ends the program, without a tree.
parse_program ==
  \/ /\ Doing("program")
     /\ IF Sees({"EOF"}) THEN Stop("parsed", Node("BLOCK", 0, Head(calls).list))
        ELSE Go(<< Call("declaration"), [Head(calls) EXCEPT !.do = "decl"] >>, cursor)
  \/ /\ Doing("decl")
     /\ IF value = Missing THEN Stop("parsed", Missing)
        ELSE Go(<< [do |-> "program", list |-> Appended(Head(calls).list, value)] >>, cursor)

-----------------------------------------------------------------------------
Init == /\ tokens \in Sources
        /\ cursor = [index |-> 1, current |-> 0]
        /\ calls = << [do |-> "program", list |-> <<>>] >>
        /\ value = Missing
        /\ outcome = "parsing" /\ reported = FALSE

parse_operators ==
  \/ parse_expression \/ parse_assignment_expression \/ parse_ternary_expression
  \/ parse_binary_operators \/ parse_right_operand \/ parse_unary_expression
  \/ parse_unary_operand \/ parse_primary_expression \/ parse_parenthesis
  \/ parse_callee \/ parse_call_expression

parse_statement ==
  \/ parse_var_decl_stmt \/ parse_if_stmt \/ parse_for_stmt \/ parse_loop_stmt
  \/ parse_break_stmt \/ parse_return_stmt \/ parse_block_stmt \/ parse_expression_stmt

Next == parse_program \/ parse_decl_stmt \/ parse_fn_decl_stmt \/ parse_statement \/ parse_operators

Spec == Init /\ [][Next]_vars

\* One thread: the parser goes on for as long as it can.
FairSpec == Spec /\ WF_vars(Next)
=================================================================================
