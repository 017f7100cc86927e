--------------------------------- MODULE MCLexer ---------------------------------
(* Instances of Lexing for TLC: all short sources over the characters the lexer
   distinguishes, and longer ones over those of one kind of token. *)
EXTENDS Lexing

UpTo(n, alphabet) == UNION {[1 .. k -> alphabet] : k \in 0 .. n}

MCLetters  == {"a", "e"}
MCDigits   == {"0"}
MCKeywords == (<<"e", "a">> :> "OR") @@ (<<"e">> :> "FALSE")

Characters == {"a", "e", "0", ".", "+", "/", "*", "!", "=", ":", "|", "\"", "\n", " ", ";", "~"}

\* Comments in comments, then a word.
Comments == {<<"/", "*", "a">> \o t \o <<"a">> : t \in UpTo(7, {"/", "*", "a"})}

MCSources == UpTo(3, Characters)
               \union Comments \union UpTo(6, {"/", "*", "\n", "a"})
               \union UpTo(6, {"0", ".", "e", "+"})
               \union UpTo(5, {"\"", "'", "\n", "a", "/"})
               \union UpTo(2, Characters \union {",", "(", ")", "{", "}", "-", ">", "<", "&", "?"})

\* Exclamation marks before a name, an equals sign and each other.
Negations == UpTo(3, {"!", "=", "a"})
=================================================================================
