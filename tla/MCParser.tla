-------------------------------- MODULE MCParser --------------------------------
(* Instances of Parsing for TLC: every program of the grammar up to a size, and
   every short list of tokens from alphabets in which constructs can go wrong. *)
EXTENDS Parsing

MCOperands == {"IDENTIFIER"}
MCBinary   == << {"OR"}, {"AND"}, {"EQ"}, {"LT"}, {"MINUS"}, {"ASTERISK"} >>
MCUnary    == {"BANG", "MINUS"}

Small == INSTANCE Grammar WITH MaxOperators <- 1, MaxNesting <- 1, Misread <- {"ternary", "minus", "if"}

\* One token of each kind that the parser treats alike.
Kinds == {"IDENTIFIER", "TRUE", "PLUS", "MINUS", "EQ", "EQUALS", "QUESTION", "COLON", "LPAREN", "RPAREN",
          "LBRACE", "RBRACE", "COMMA", "SEMICOLON", "DOTDOT", "LET", "FOR", "IN", "IF", "ELSE",
          "LOOP", "BREAK", "RETURN", "FN", "other"}

Others == {"IDENTIFIER", "MINUS", "EQUALS", "QUESTION", "LPAREN", "RPAREN", "LBRACE", "RBRACE",
           "COMMA", "SEMICOLON", "ELSE", "FN", "LOOP"}

UpTo(n, alphabet) == UNION {[1 .. k -> alphabet] : k \in 0 .. n}

Shortened == UNION {{RemoveAt(t, k) : k \in DOMAIN t} : t \in Small!Texts}
Changed   == UNION {{ReplaceAt(t, k, x) : k \in DOMAIN t, x \in Others} : t \in Small!Texts}

\* Operands in parentheses, and parentheses without one.
Parenthesised == UpTo(5, {"IDENTIFIER", "MINUS", "LPAREN", "RPAREN", "SEMICOLON"})

Nothing == {}
Minus   == {"minus"}

MCTexts   == G!Texts
MCSources == G!Texts \union UpTo(2, Kinds) \union Shortened \union Changed \union Parenthesised
=================================================================================
