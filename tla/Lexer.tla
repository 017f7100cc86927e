---------------------------------- MODULE Lexer ----------------------------------
(***************************************************************************)
(* The lexer of lexer.c, and the loop of parser_init that collects its     *)
(* tokens.  A source is a sequence of characters; scan says which function *)
(* of the lexer is at work and where the token it reads begins.  Every     *)
(* step is one turn of one of its loops.                                   *)
(***************************************************************************)
EXTENDS Integers, SequencesExt

CONSTANTS Sources,         \* the programs
          Letters, Digits, \* is_alpha and is_digit
          Keywords,        \* from some words to their token types
          InitialCapacity  \* of the token list

NUL == "end"

ASSUME SourcesAssumption == Sources \subseteq Seq(STRING \ {NUL})
ASSUME CapacityAssumption == InitialCapacity \in Nat \ {0}

VARIABLES source,
          lexer,     \* position (counted from 1), line and column
          scan,      \* the function at work, and what it has in its local variables
          tokens,    \* the token list: each with the characters it was made from
          capacity   \* how many fit before the list must grow

vars == <<source, lexer, scan, tokens, capacity>>

Char(p) == IF p \in DOMAIN source THEN source[p] ELSE NUL

current    == Char(lexer.position)
lexer_peek == Char(lexer.position + 1)

Blanks    == {" ", "\n"}   \* tabs and carriage returns are as blanks
Quotes    == {"\"", "'"}
Exponents == {"e", "E"}
Signs     == {"+", "-"}

\* Mutant: only the line is counted.
AdvancedInLine(l) ==
  [position |-> l.position + 1, column |-> l.column + 1,
   line |-> IF Char(l.position) = "\n" THEN l.line + 1 ELSE l.line]

lexer_advance(l) ==
  IF l.position \notin DOMAIN source THEN l
  ELSE IF Char(l.position) = "\n"
  THEN [position |-> l.position + 1, line |-> l.line + 1, column |-> 1]
  ELSE [position |-> l.position + 1, line |-> l.line, column |-> l.column + 1]

-----------------------------------------------------------------------------
Idle == [in |-> "lex"]
In(function) == scan.in = function

Move(c, next) ==
  /\ lexer' = c /\ scan' = next
  /\ UNCHANGED <<source, tokens, capacity>>

Continue == Move(lexer_advance(lexer), scan)
Enter(function) == Move(lexer, [scan EXCEPT !.in = function])

\* Mutant: the list does not grow.
AddedInPlace(token) == tokens' = Append(tokens, token) /\ UNCHANGED capacity

token_list_add(token) ==
  /\ tokens' = Append(tokens, token)
  /\ capacity' = IF Len(tokens) >= capacity THEN 2 * capacity ELSE capacity

(* lex returns; parser_init adds the token and calls lex again, unless it is a
   TOKEN_EOF. *)
Return(type, from, at, c) ==
  /\ token_list_add([type |-> type, from |-> from, to |-> c.position,
                     line |-> at.line, column |-> at.column])
  /\ lexer' = c
  /\ scan' = IF type = "EOF" THEN [in |-> "done"] ELSE Idle
  /\ UNCHANGED source

\* Words, numbers and strings have the line they end in and the column they begin in.
ReturnScanned(type, c) ==
  Return(type, scan.start, [line |-> c.line, column |-> scan.column], c)

-----------------------------------------------------------------------------
skip_whitespace == In("lex") /\ current \in Blanks /\ Continue

Begins(p, text) == \A k \in DOMAIN text : Char(p + k - 1) = text[k]

skip_line_comment ==
  \/ /\ In("lex") /\ Begins(lexer.position, <<"/", "/">>)
     /\ Enter("line_comment")
  \/ /\ In("line_comment")
     /\ IF current \in {"\n", NUL} THEN Move(lexer, Idle) ELSE Continue

\* Mutant: of the closing of a comment, only the asterisk is skipped.
CommentClosedShort ==
  \/ /\ In("lex") /\ Begins(lexer.position, <<"/", "*">>)
     /\ Move(lexer_advance(lexer), [in |-> "block_comment", nesting |-> 1])
  \/ /\ In("block_comment")
     /\ LET one == lexer_advance(lexer) IN
          IF scan.nesting = 0 \/ current = NUL THEN Move(lexer, Idle)
          ELSE IF Begins(lexer.position, <<"/", "*">>)
          THEN Move(lexer_advance(one), [scan EXCEPT !.nesting = @ + 1])
          ELSE IF Begins(lexer.position, <<"*", "/">>)
          THEN Move(one, [scan EXCEPT !.nesting = @ - 1])
          ELSE Continue

\* Only the slash of the opening is skipped: its asterisk may begin the closing.
skip_block_comment ==
  \/ /\ In("lex") /\ Begins(lexer.position, <<"/", "*">>)
     /\ Move(lexer_advance(lexer), [in |-> "block_comment", nesting |-> 1])
  \/ /\ In("block_comment")
     /\ LET pair == lexer_advance(lexer_advance(lexer)) IN
          IF scan.nesting = 0 \/ current = NUL THEN Move(lexer, Idle)
          ELSE IF Begins(lexer.position, <<"/", "*">>)
          THEN Move(pair, [scan EXCEPT !.nesting = @ + 1])
          ELSE IF Begins(lexer.position, <<"*", "/">>)
          THEN Move(pair, [scan EXCEPT !.nesting = @ - 1])
          ELSE Continue

-----------------------------------------------------------------------------
Scanning(function, c) ==
  Move(c, [in |-> function, start |-> lexer.position, column |-> lexer.column, quote |-> current])

\* Mutant: the first dot of a range belongs to the number before it.
AnyPoint == current = "."

Point == current = "." /\ lexer_peek # "."

(* digits, then perhaps a point with digits, then perhaps an exponent.  A number
   that breaks off is an error token, and the next token begins there. *)
lex_number ==
  \/ In("lex") /\ current \in Digits /\ Scanning("digits", lexer)
  \/ /\ In("digits")
     /\ CASE current \in Digits    -> Continue
          [] Point                 -> Move(lexer_advance(lexer), [scan EXCEPT !.in = "point"])
          [] current \in Exponents -> Move(lexer_advance(lexer), [scan EXCEPT !.in = "exponent"])
          [] OTHER                 -> ReturnScanned("INTEGER", lexer)
  \/ /\ In("point")
     /\ IF current \in Digits THEN Enter("fraction") ELSE ReturnScanned("ERROR", lexer)
  \/ /\ In("fraction")
     /\ CASE current \in Digits    -> Continue
          [] current \in Exponents -> Move(lexer_advance(lexer), [scan EXCEPT !.in = "exponent"])
          [] OTHER                 -> ReturnScanned("FLOAT", lexer)
  \/ /\ In("exponent")
     /\ LET c == IF current \in Signs THEN lexer_advance(lexer) ELSE lexer IN
          IF Char(c.position) \in Digits THEN Move(c, [scan EXCEPT !.in = "power"])
                                         ELSE ReturnScanned("ERROR", c)
  \/ /\ In("power")
     /\ IF current \in Digits THEN Continue ELSE ReturnScanned("FLOAT", lexer)

\* Mutant: only a quote ends a string.
StringUnbounded ==
  \/ In("lex") /\ current \in Quotes /\ Scanning("string", lexer_advance(lexer))
  \/ /\ In("string")
     /\ IF current = scan.quote THEN ReturnScanned("STRING", lexer_advance(lexer)) ELSE Continue

lex_string ==
  \/ In("lex") /\ current \in Quotes /\ Scanning("string", lexer_advance(lexer))
  \/ /\ In("string")
     /\ IF current \in {scan.quote, NUL} THEN ReturnScanned("STRING", lexer_advance(lexer))
        ELSE Continue

Text(from, to) == SubSeq(source, from, to - 1)

\* TOKEN_FALSE is turned into TOKEN_TRUE with the value false.
WordType(word) ==
  IF word \notin DOMAIN Keywords THEN "IDENTIFIER"
  ELSE IF Keywords[word] = "FALSE" THEN "TRUE" ELSE Keywords[word]

lex_identifier_or_keyword ==
  \/ In("lex") /\ current \in Letters /\ Scanning("word", lexer)
  \/ /\ In("word")
     /\ IF current \in Letters \union Digits THEN Continue
        ELSE ReturnScanned(WordType(Text(scan.start, lexer.position)), lexer)

-----------------------------------------------------------------------------
Single ==
  [c \in {";", ":", ",", ".", "(", ")", "{", "}", "+", "-", "*", "/", "=", ">", "<", "!", "?"} |->
     CASE c = ";" -> "SEMICOLON" [] c = ":" -> "COLON"  [] c = "," -> "COMMA"
       [] c = "." -> "DOT"       [] c = "(" -> "LPAREN" [] c = ")" -> "RPAREN"
       [] c = "{" -> "LBRACE"    [] c = "}" -> "RBRACE" [] c = "+" -> "PLUS"
       [] c = "-" -> "MINUS"     [] c = "*" -> "ASTERISK" [] c = "/" -> "SLASH"
       [] c = "=" -> "EQUALS"    [] c = ">" -> "GT"     [] c = "<" -> "LT"
       [] c = "!" -> "BANG"      [] c = "?" -> "QUESTION"]

Double ==
  [p \in {<<":", ":">>, <<".", ".">>, <<"|", "|">>, <<"&", "&">>,
          <<"=", "=">>, <<">", "=">>, <<"<", "=">>, <<"!", "=">>} |->
     CASE p[1] = ":" -> "SCOPE" [] p[1] = "." -> "DOTDOT" [] p[1] = "|" -> "OR"
       [] p[1] = "&" -> "AND"   [] p[1] = "=" -> "EQ"     [] p[1] = ">" -> "GTE"
       [] p[1] = "<" -> "LTE"   [] p[1] = "!" -> "NEQ"]

(* What the comparisons of is_alpha, is_digit and is_whitespace and the literals of
   the switch say of each other, and the table of keywords of its entries. *)
ASSUME AlphabetAssumption ==
  /\ Letters \intersect Digits = {} /\ Digits \intersect Exponents = {}
  /\ \A c \in Letters \union Digits :
       c \notin Blanks \union Quotes \union DOMAIN Single \union {p[1] : p \in DOMAIN Double} \union {NUL}

ASSUME KeywordsAssumption ==
  \A word \in DOMAIN Keywords :
    /\ word \in Seq(Letters \union Digits) /\ word # <<>> /\ word[1] \in Letters
    /\ Keywords[word] \notin {"IDENTIFIER", "INTEGER", "FLOAT", "STRING", "BANG", "ERROR", "EOF"}

Comment == Begins(lexer.position, <<"/", "/">>) \/ Begins(lexer.position, <<"/", "*">>)

(* The switch of lex.  After ! a second character is consumed even if it is not =,
   and any other character makes a TOKEN_EOF. *)
lex_symbol ==
  /\ In("lex") /\ ~Comment
  /\ current \notin Blanks \union Digits \union Quotes \union Letters \union {NUL}
  /\ LET pair == <<current, lexer_peek>>
         one  == lexer_advance(lexer)
         two  == lexer_advance(one)
     IN CASE pair \in DOMAIN Double   -> Return(Double[pair], lexer.position, lexer, two)
          [] pair \notin DOMAIN Double /\ current \in DOMAIN Single ->
               Return(Single[current], lexer.position, lexer, IF current = "!" THEN two ELSE one)
          [] OTHER -> Return("EOF", lexer.position, lexer, one)

lex_end == In("lex") /\ current = NUL /\ Return("EOF", lexer.position, lexer, lexer)

-----------------------------------------------------------------------------
Init == /\ source \in Sources
        /\ lexer = [position |-> 1, line |-> 1, column |-> 1]
        /\ scan = Idle
        /\ tokens = <<>> /\ capacity = InitialCapacity

lex == \/ skip_whitespace \/ skip_line_comment \/ skip_block_comment
       \/ lex_number \/ lex_string \/ lex_identifier_or_keyword \/ lex_symbol \/ lex_end

Next == lex

Spec == Init /\ [][Next]_vars

\* One thread: the lexer goes on for as long as it can.
FairSpec == Spec /\ WF_vars(Next)
=================================================================================
