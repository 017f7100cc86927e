---------------------------------- MODULE Lexing ----------------------------------
(***************************************************************************)
(* What the lexer promises: the source is cut into its longest tokens, all *)
(* of it is read, and every token is reported where it begins.             *)
(***************************************************************************)
EXTENDS Lexer

Functions == {"lex", "line_comment", "block_comment", "digits", "point", "fraction", "exponent",
              "power", "string", "word", "done"}

TokenTypes == {Single[c] : c \in DOMAIN Single} \union {Double[p] : p \in DOMAIN Double}
  \union {Keywords[w] : w \in DOMAIN Keywords}
  \union {"IDENTIFIER", "INTEGER", "FLOAT", "STRING", "TRUE", "ERROR", "EOF"}

End == Len(source) + 1

(* The lexer stays within the source, and the tokens within the memory that was
   allocated for them. *)
TypeOK ==
  /\ lexer \in [position : 1 .. End, line : 1 .. End, column : 1 .. End]
  /\ scan.in \in Functions
  /\ tokens \in Seq([type : TokenTypes, from : 1 .. End, to : 1 .. End,
                     line : 1 .. End, column : 1 .. End])
  /\ Len(tokens) <= capacity

-----------------------------------------------------------------------------
(* The tokens of the language, as sets of texts. *)
AllIn(t, chars) == \A k \in DOMAIN t : t[k] \in chars
Number(t)  == t # <<>> /\ AllIn(t, Digits)
Prefix(t, k) == SubSeq(t, 1, k)
Suffix(t, k) == SubSeq(t, k + 1, Len(t))
Decimal(t) == \E k \in DOMAIN t :
                t[k] = "." /\ Number(Prefix(t, k - 1)) /\ Number(Suffix(t, k))
Power(t)   == /\ Len(t) > 1 /\ t[1] \in Exponents
              /\ Number(Suffix(t, 1)) \/ (t[2] \in Signs /\ Number(Suffix(t, 2)))
Float(t)   == Decimal(t) \/ \E k \in DOMAIN t :
                (Number(Prefix(t, k)) \/ Decimal(Prefix(t, k))) /\ Power(Suffix(t, k))
Word(t)    == t # <<>> /\ t[1] \in Letters /\ AllIn(t, Letters \union Digits)
String(t)  == /\ Len(t) > 1 /\ t[1] \in Quotes /\ Last(t) = t[1]
              /\ \A k \in 2 .. Len(t) - 1 : t[k] # t[1]
\* The beginning of a number that cannot be continued to one.
Broken(t)  == \/ Number(Front(t)) /\ Last(t) = "."
              \/ (Number(Front(t)) \/ Decimal(Front(t))) /\ Last(t) \in Exponents
              \/ /\ Len(t) > 2 /\ Last(t) \in Signs /\ t[Len(t) - 1] \in Exponents
                 /\ LET s == Prefix(t, Len(t) - 2) IN Number(s) \/ Decimal(s)

\* The types of the tokens with text t.
TypesOf(t) ==
  {type \in TokenTypes :
     CASE type = "INTEGER" -> Number(t) [] type = "FLOAT" -> Float(t) [] type = "STRING" -> String(t)
       [] type = "IDENTIFIER" -> Word(t) /\ t \notin DOMAIN Keywords
       [] type = "EOF"   -> t = <<>>
       [] type = "ERROR" -> Len(t) > 1 /\ Broken(t)
       [] OTHER -> \/ Len(t) = 1 /\ t[1] \in DOMAIN Single /\ type = Single[t[1]]
                   \/ t \in DOMAIN Double /\ type = Double[t]
                   \/ t \in DOMAIN Keywords
                        /\ type = IF Keywords[t] = "FALSE" THEN "TRUE" ELSE Keywords[t]}

Unknown(token) == token.type = "EOF" /\ token.from < End

(* The rest of a source in which a quote is opened and never closed.  grammar.ebnf
   line 4 has no such string: the lexer makes a STRING of it and says nothing. *)
LeftOpen(token) ==
  /\ token.type = "STRING" /\ token.to = End /\ Char(token.from) \in Quotes
  /\ \A p \in token.from + 1 .. End - 1 : Char(p) # Char(token.from)

\* A ! that is no !=, with the character after it, which it takes along.
WithTheNext(token) ==
  /\ Char(token.from) = "!" /\ Char(token.from + 1) # "="
  /\ token.to = IF token.from + 1 < End THEN token.from + 2 ELSE End

(* Every token is one of the language and the longest that begins where it does;
   a broken number is an error only if no number begins there that goes as far,
   and the dots of a range are not its point.
   Three cases are not as in the language.  They are described as the lexer has
   them, and nothing else may happen there: the rest of the source after a quote
   that is left open is a STRING, ! takes the character after it along (see
   OperatorsTakeTheirSpelling), and a character the lexer does not know becomes the
   end of the source. *)
LongestTokens ==
  \A k \in DOMAIN tokens :
    LET token == tokens[k]
        longer == {p \in token.to + 1 .. End : TypesOf(Text(token.from, p)) \ {"ERROR"} # {}}
    IN CASE token.type = "BANG" -> WithTheNext(token)
         [] Unknown(token) -> TypesOf(Text(token.from, token.from + 1)) = {}
         [] token.type = "ERROR" /\ Begins(token.to - 1, <<".", ".">>) -> FALSE
         [] OTHER -> /\ token.type \in TypesOf(Text(token.from, token.to)) \/ LeftOpen(token)
                     /\ longer = {}

(* grammar.ebnf line 81, ("-" | "!") unary_expr: an operator is the one or the two
   characters of its spelling, and what follows it belongs to the next token. *)
Operators == {Single[c] : c \in DOMAIN Single} \union {Double[p] : p \in DOMAIN Double}
OperatorsTakeTheirSpelling ==
  \A k \in DOMAIN tokens :
    tokens[k].type \in Operators => tokens[k].type \in TypesOf(Text(tokens[k].from, tokens[k].to))

-----------------------------------------------------------------------------
(* Where a comment that is entered at p, with d comments still open, ends.  This is
   how the lexer counts, not the documented language: in grammar.ebnf line 6 a block
   comment ends at the first "*/" and one that is left open is none.  The two agree
   on sources without a "/*" inside a comment in which every comment is closed. *)
CommentEnd ==
  LET ends[p \in 1 .. End + 1] == [d \in Nat |->
        CASE d = 0 -> p
          [] d > 0 /\ p >= End -> End
          [] d > 0 /\ Begins(p, <<"/", "*">>) -> ends[p + 2][d + 1]
          [] d > 0 /\ Begins(p, <<"*", "/">>) -> ends[p + 2][d - 1]
          [] OTHER -> ends[p + 1][d]]
  IN ends

LineEnd(p) == CHOOSE q \in p .. End : Char(q) \in {"\n", NUL} /\ \A r \in p .. q - 1 : Char(r) # "\n"

\* The first character from p on that is neither blank nor part of a comment.
Skipped ==
  LET after[p \in 1 .. End] ==
        CASE Char(p) \in Blanks -> after[p + 1]
          [] Begins(p, <<"/", "/">>) -> after[LineEnd(p)]
          [] Begins(p, <<"/", "*">>) -> after[CommentEnd[p + 2][1]]
          [] OTHER -> p
  IN after

(* "/*/" opens a comment, but the lexer takes the last two characters for its
   end. *)
ClosedAtOnce == \E p \in DOMAIN source : Begins(p, <<"/", "*", "/">>)

(* Between two tokens there are blanks and comments, and nothing else: comments as
   the lexer counts them, which nest and may be left open (see CommentEnd for where
   the grammar differs).  A token is everything it was made with, so the character
   that ! takes along counts as part of it.  The last token is the end of the
   source, unless a character that the lexer does not know cuts the source short. *)
NothingSkipped ==
  ~ClosedAtOnce =>
    /\ \A k \in DOMAIN tokens :
         tokens[k].from = Skipped[IF k = 1 THEN 1 ELSE tokens[k - 1].to]
    /\ In("done") =>
         /\ Last(tokens).type = "EOF" /\ (Last(tokens).from = End \/ Unknown(Last(tokens)))
         /\ \A k \in DOMAIN tokens : tokens[k].type = "EOF" => k = Len(tokens)

-----------------------------------------------------------------------------
Breaks(p) == {q \in 1 .. p - 1 : Char(q) = "\n"}

(* Every token is reported at the line and the column of its first character, if
   it is not a string of several lines: that has the line of its end. *)
ReportedWhereTheyBegin ==
  \A k \in DOMAIN tokens :
    LET token  == tokens[k]
        breaks == Breaks(token.from)
        several == token.type = "STRING" /\ "\n" \in {Char(p) : p \in token.from .. token.to - 1}
    IN /\ token.column = token.from - (IF breaks = {} THEN 0 ELSE Max(breaks))
       /\ token.line = Cardinality(IF several THEN Breaks(token.to) ELSE breaks) + 1

(* The lexer comes to the end of every source, whatever strings and comments are
   left open in it. *)
LexingEnds == <>In("done")
=================================================================================
