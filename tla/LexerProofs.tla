------------------------------- MODULE LexerProofs -------------------------------
(***************************************************************************)
(* Proofs about Lexer, for all sources, alphabets and keywords: the lexer  *)
(* stays within the source and the token list within its memory, the       *)
(* tokens are disjoint parts of the source in the order they were written, *)
(* each is reported where it begins and is the longest that begins there,  *)
(* and between two of them there are blanks and comments only.             *)
(***************************************************************************)
EXTENDS Lexing, FiniteSetTheorems, SequenceTheorems, WellFoundedInduction, TLAPS

Scanners == {"digits", "point", "fraction", "exponent", "power", "string", "word"}

\* What can be read from the source, its end included.
Read == {source[p] : p \in DOMAIN source} \union {NUL}

Scans == [in : {"lex", "line_comment", "done"}]
           \union [in : {"block_comment"}, nesting : Int]
           \union [in : Scanners, start : 1 .. End, column : 1 .. End, quote : Read]

\* A place of the lexer: line and column have grown at most as fast as the position.
Place(c) == /\ c \in [position : 1 .. End, line : 1 .. End, column : 1 .. End]
            /\ c.line <= c.position /\ c.column <= c.position

Token == [type : TokenTypes, from : 1 .. End, to : 1 .. End, line : 1 .. End, column : 1 .. End]

\* All tokens end at p or before.
Before(p) == \A k \in DOMAIN tokens : tokens[k].to <= p

(* Each token begins where the one before it ended, or later; the end of the
   source is the last token. *)
TokensInOrder ==
  /\ \A j, k \in DOMAIN tokens : j < k => tokens[j].to <= tokens[k].from
  /\ \A k \in DOMAIN tokens : tokens[k].from <= tokens[k].to
  /\ \A k \in DOMAIN tokens : tokens[k].type = "EOF" => k = Len(tokens) /\ In("done")

\* The inductive invariant.
LInv == /\ source \in Seq(STRING)
        /\ Place(lexer)
        /\ scan \in Scans
        /\ scan.in \in Scanners => scan.start <= lexer.position /\ Before(scan.start)
        /\ tokens \in Seq(Token) /\ capacity \in Nat \ {0} /\ Len(tokens) <= capacity
        /\ Before(lexer.position)
        /\ TokensInOrder

-----------------------------------------------------------------------------
LEMMA EndIsNat ==
  ASSUME source \in Seq(STRING)
  PROVE  End \in Nat \ {0} /\ DOMAIN source = 1 .. Len(source) /\ Len(source) \in Nat
  BY DEF End

LEMMA TokenFields ==
  ASSUME LInv, NEW k \in DOMAIN tokens
  PROVE  tokens[k].from \in Nat /\ tokens[k].to \in Nat
<1>1. tokens[k] \in Token
  BY DEF LInv
<1>2. 1 .. End \subseteq Nat
  BY EndIsNat DEF LInv
<1> QED
  BY <1>1, <1>2 DEF Token

(* lexer_advance goes to a place at most one character further. *)
LEMMA AdvanceToPlace ==
  ASSUME source \in Seq(STRING), NEW c, Place(c)
  PROVE  /\ Place(lexer_advance(c))
         /\ c.position <= lexer_advance(c).position
<1>1. c.position \in Nat /\ c.line \in Nat /\ c.column \in Nat
  BY EndIsNat DEF Place
<1>2. CASE c.position \notin DOMAIN source
  BY <1>1, <1>2 DEF lexer_advance
<1>3. CASE c.position \in DOMAIN source
  <2>1. c.position + 1 \in 1 .. End /\ c.line + 1 \in 1 .. End /\ c.column + 1 \in 1 .. End
    BY <1>1, <1>3, EndIsNat DEF End, Place
  <2> QED
    BY <1>1, <1>3, <2>1, EndIsNat DEF lexer_advance, Place
<1> QED
  BY <1>2, <1>3

(* A step that moves the lexer on and returns no token keeps the invariant. *)
LEMMA MoveKeepsInvariant ==
  ASSUME LInv, NEW c, NEW next, Move(c, next),
         Place(c), lexer.position <= c.position,
         next \in Scans, scan.in # "done",
         next.in \in Scanners => next.start <= c.position /\ Before(next.start)
  PROVE  LInv'
<1> USE DEF Move
<1>1. End' = End
  BY DEF End
<1>2. Place(lexer)'
  BY <1>1 DEF Place
<1>3. (scan \in Scans)'
  BY <1>1 DEF Scans, Read
<1>4. (tokens \in Seq(Token))' /\ (capacity \in Nat \ {0} /\ Len(tokens) <= capacity)'
  BY <1>1 DEF LInv, Token
<1>5. Before(lexer.position)'
  <2>1. \A k \in DOMAIN tokens : tokens[k].to \in Nat
    BY TokenFields
  <2>2. lexer.position \in Nat /\ c.position \in Nat
    BY EndIsNat DEF LInv, Place
  <2> QED
    BY <2>1, <2>2 DEF LInv, Before
<1>6. (scan.in \in Scanners => scan.start <= lexer.position /\ Before(scan.start))'
  BY DEF Before
<1>7. TokensInOrder'
  BY DEF LInv, TokensInOrder, In
<1> QED
  BY <1>2, <1>3, <1>4, <1>5, <1>6, <1>7 DEF LInv

(* A step that returns a token keeps the invariant. *)
LEMMA ReturnKeepsInvariant ==
  ASSUME LInv, NEW type \in TokenTypes, NEW from \in 1 .. End, NEW at, NEW c,
         Return(type, from, at, c), scan.in # "done",
         Place(c), lexer.position <= c.position, from <= c.position, Before(from),
         at.line \in 1 .. End, at.column \in 1 .. End
  PROVE  LInv'
<1> DEFINE token == [type |-> type, from |-> from, to |-> c.position,
                     line |-> at.line, column |-> at.column]
<1>1. End' = End /\ lexer' = c /\ tokens' = Append(tokens, token)
  BY DEF End, Return, token_list_add
<1>2. token \in Token
  BY DEF Token, Place
<1>3. tokens \in Seq(Token) /\ Len(tokens) \in Nat /\ DOMAIN tokens = 1 .. Len(tokens)
  BY DEF LInv
<1>4. /\ Len(tokens') = Len(tokens) + 1 /\ DOMAIN tokens' = 1 .. Len(tokens) + 1
      /\ \A k \in DOMAIN tokens : tokens'[k] = tokens[k]
      /\ tokens'[Len(tokens) + 1] = token
  BY <1>1, <1>2, <1>3
<1>5. (tokens \in Seq(Token))'
  <2>1. Token' = Token
    BY <1>1 DEF Token, TokenTypes
  <2>2. Append(tokens, token) \in Seq(Token)
    BY <1>2, <1>3
  <2> QED
    BY <1>1, <2>1, <2>2
<1>6. (capacity \in Nat \ {0} /\ Len(tokens) <= capacity)'
  BY <1>1, <1>3, <1>4 DEF LInv, Return, token_list_add
<1>7. scan' \in {Idle, [in |-> "done"]} /\ (type = "EOF" => scan'.in = "done")
  BY DEF Return, Idle
<1>8. (scan \in Scans)' /\ scan'.in \notin Scanners
  BY <1>7 DEF Scans, Scanners, Idle
<1>9. Place(lexer)' /\ (source \in Seq(STRING))'
  BY <1>1 DEF Place, LInv, Return
<1>10. \A k \in DOMAIN tokens : tokens[k].to \in Nat /\ tokens[k].to <= from
  BY TokenFields DEF Before
<1>11. Before(lexer.position)'
  <2>1. from \in Nat /\ c.position \in Nat
    BY EndIsNat DEF LInv, Place
  <2>2. \A k \in DOMAIN tokens' : tokens'[k].to <= c.position
    BY <1>3, <1>4, <1>10, <2>1
  <2> QED
    BY <1>1, <2>2 DEF Before
<1>12. TokensInOrder'
  <2>1. \A j, k \in DOMAIN tokens' : j < k => tokens'[j].to <= tokens'[k].from
    <3> SUFFICES ASSUME NEW j \in DOMAIN tokens', NEW k \in DOMAIN tokens', j < k
                 PROVE  tokens'[j].to <= tokens'[k].from
      OBVIOUS
    <3>1. j \in DOMAIN tokens
      BY <1>3, <1>4
    <3>2. CASE k \in DOMAIN tokens
      BY <1>4, <3>1, <3>2 DEF LInv, TokensInOrder
    <3>3. CASE k = Len(tokens) + 1
      BY <1>4, <1>10, <3>1, <3>3
    <3> QED
      BY <1>3, <1>4, <3>2, <3>3
  <2>2. \A k \in DOMAIN tokens' : tokens'[k].from <= tokens'[k].to
    BY <1>3, <1>4 DEF LInv, TokensInOrder
  <2>3. ASSUME NEW k \in DOMAIN tokens', tokens'[k].type = "EOF"
        PROVE  k = Len(tokens') /\ In("done")'
    <3>1. k \notin DOMAIN tokens
      BY <1>4, <2>3 DEF LInv, TokensInOrder, In
    <3> QED
      BY <1>3, <1>4, <1>7, <2>3, <3>1 DEF In
  <2> QED
    BY <2>1, <2>2, <2>3 DEF TokensInOrder
<1> QED
  BY <1>5, <1>6, <1>8, <1>9, <1>11, <1>12 DEF LInv
-----------------------------------------------------------------------------
(* The steps that scan on, and those that return what was scanned. *)
LEMMA ContinueKeepsInvariant ==
  ASSUME LInv, Continue, scan.in # "done"
  PROVE  LInv'
<1>1. Place(lexer_advance(lexer)) /\ lexer.position <= lexer_advance(lexer).position
  BY AdvanceToPlace DEF LInv
<1>2. lexer.position \in Nat /\ lexer_advance(lexer).position \in Nat
  BY <1>1, EndIsNat DEF LInv, Place
<1>3. scan.in \in Scanners => scan.start \in Nat
  BY EndIsNat DEF LInv, Scans, Scanners
<1>4. scan.in \in Scanners =>
        scan.start <= lexer_advance(lexer).position /\ Before(scan.start)
  BY <1>1, <1>2, <1>3 DEF LInv
<1> QED
  BY <1>1, <1>4, MoveKeepsInvariant DEF LInv, Continue

LEMMA IdleKeepsInvariant ==
  ASSUME LInv, scan.in # "done", NEW c, Place(c), lexer.position <= c.position, Move(c, Idle)
  PROVE  LInv'
<1>1. Idle \in Scans /\ Idle.in \notin Scanners
  BY DEF Scans, Scanners, Idle
<1> QED
  BY <1>1, MoveKeepsInvariant

(* A scanning function that goes on in another of its loops. *)
LEMMA ScannerKeepsInvariant ==
  ASSUME LInv, scan.in \in Scanners, NEW c, Place(c), lexer.position <= c.position,
         NEW function \in Scanners, Move(c, [scan EXCEPT !.in = function])
  PROVE  LInv'
<1>1. scan \in [in : Scanners, start : 1 .. End, column : 1 .. End, quote : Read]
  BY DEF LInv, Scans, Scanners
<1> DEFINE next == [scan EXCEPT !.in = function]
<1>2. /\ next \in [in : Scanners, start : 1 .. End, column : 1 .. End, quote : Read]
      /\ next.start = scan.start
  BY <1>1
<1>3. next \in Scans
  BY <1>2 DEF Scans
<1>4. scan.start \in Nat /\ lexer.position \in Nat /\ c.position \in Nat
  BY <1>1, EndIsNat DEF LInv, Place
<1>5. next.start <= c.position /\ Before(next.start)
  BY <1>1, <1>2, <1>4 DEF LInv
<1>6. scan.in # "done"
  BY DEF Scanners
<1> HIDE DEF next
<1>7. Move(c, next)
  BY DEF next
<1> QED
  BY <1>3, <1>5, <1>6, <1>7, MoveKeepsInvariant

(* A scanning function begins where the lexer is. *)
LEMMA ScanningKeepsInvariant ==
  ASSUME LInv, In("lex"), NEW c, Place(c), lexer.position <= c.position,
         NEW function \in Scanners, Scanning(function, c)
  PROVE  LInv'
<1> DEFINE next == [in |-> function, start |-> lexer.position, column |-> lexer.column,
                    quote |-> current]
<1>1. current \in Read
  BY DEF current, Char, Read
<1>2. next \in Scans
  BY <1>1 DEF LInv, Scans, Place
<1>3. next.start <= c.position /\ Before(next.start)
  BY DEF LInv
<1>4. Move(c, next) /\ scan.in # "done"
  BY DEF Scanning, In
<1> HIDE DEF next
<1> QED
  BY <1>2, <1>3, <1>4, MoveKeepsInvariant

LEMMA ScannedKeepsInvariant ==
  ASSUME LInv, scan.in \in Scanners, NEW c, Place(c), lexer.position <= c.position,
         NEW type \in TokenTypes, ReturnScanned(type, c)
  PROVE  LInv'
<1>1. scan \in [in : Scanners, start : 1 .. End, column : 1 .. End, quote : Read]
  BY DEF LInv, Scans, Scanners
<1> DEFINE at == [line |-> c.line, column |-> scan.column]
<1>2. scan.start \in 1 .. End /\ scan.column \in 1 .. End /\ scan.in # "done"
  BY <1>1 DEF Scanners
<1>3. scan.start \in Nat /\ lexer.position \in Nat /\ c.position \in Nat
  BY <1>1, EndIsNat DEF LInv, Place
<1>4. scan.start <= c.position /\ Before(scan.start)
  BY <1>1, <1>3 DEF LInv
<1>5. at.line \in 1 .. End /\ at.column \in 1 .. End
  BY <1>2 DEF Place
<1>6. Return(type, scan.start, at, c)
  BY DEF ReturnScanned
<1> HIDE DEF at
<1> QED
  BY <1>2, <1>4, <1>5, <1>6, ReturnKeepsInvariant

-----------------------------------------------------------------------------
LEMMA PlaceNow ==
  ASSUME LInv
  PROVE  /\ Place(lexer) /\ lexer.position \in 1 .. End
         /\ lexer.position \in Nat /\ lexer.position <= lexer.position
         /\ Place(lexer_advance(lexer)) /\ lexer.position <= lexer_advance(lexer).position
<1>1. Place(lexer) /\ lexer.position \in 1 .. End
  BY DEF LInv, Place
<1>2. lexer.position \in Nat
  BY <1>1, EndIsNat DEF LInv
<1> QED
  BY <1>1, <1>2, AdvanceToPlace DEF LInv

LEMMA PlaceAfterTwo ==
  ASSUME LInv
  PROVE  LET two == lexer_advance(lexer_advance(lexer))
         IN Place(two) /\ lexer.position <= two.position
<1> DEFINE one == lexer_advance(lexer)
           two == lexer_advance(one)
<1>1. Place(one) /\ lexer.position <= one.position
  BY PlaceNow
<1>2. Place(two) /\ one.position <= two.position
  <2> HIDE DEF one
  <2> QED
    BY <1>1, AdvanceToPlace DEF LInv
<1>3. lexer.position \in Nat /\ one.position \in Nat /\ two.position \in Nat
  <2> HIDE DEF one, two
  <2> QED
    BY <1>1, <1>2, PlaceNow, EndIsNat, SMTT(30) DEF LInv, Place
<1> QED
  BY <1>1, <1>2, <1>3

LEMMA TypesOfScanned ==
  /\ {"INTEGER", "FLOAT", "STRING", "ERROR", "EOF"} \subseteq TokenTypes
  /\ \A word : WordType(word) \in TokenTypes
  /\ \A p \in DOMAIN Double : Double[p] \in TokenTypes
  /\ \A c \in DOMAIN Single : Single[c] \in TokenTypes
  BY DEF TokenTypes, WordType

LEMMA BlanksAndComments ==
  ASSUME LInv, skip_whitespace \/ skip_line_comment \/ skip_block_comment
  PROVE  LInv'
<1>1. CASE skip_whitespace
  BY <1>1, ContinueKeepsInvariant DEF skip_whitespace, In
<1>2. CASE skip_line_comment
  <2>1. CASE In("lex") /\ Enter("line_comment")
    <3>1. scan \in [in : {"lex", "line_comment", "done"}]
      BY <2>1 DEF LInv, Scans, In, Scanners
    <3> DEFINE next == [scan EXCEPT !.in = "line_comment"]
    <3>2. next \in Scans /\ next.in \notin Scanners
      BY <3>1 DEF Scans, Scanners
    <3>3. Move(lexer, next) /\ scan.in # "done"
      BY <2>1 DEF Enter, In
    <3> HIDE DEF next
    <3> QED
      BY <3>2, <3>3, PlaceNow, MoveKeepsInvariant
  <2>2. CASE In("line_comment") /\ (Move(lexer, Idle) \/ Continue)
    BY <2>2, PlaceNow, IdleKeepsInvariant, ContinueKeepsInvariant DEF In
  <2> QED
    BY <1>2, <2>1, <2>2 DEF skip_line_comment
<1>3. CASE skip_block_comment
  <2>1. CASE /\ In("lex")
             /\ Move(lexer_advance(lexer), [in |-> "block_comment", nesting |-> 1])
    <3> DEFINE next == [in |-> "block_comment", nesting |-> 1]
    <3>1. next \in Scans /\ next.in \notin Scanners
      BY DEF Scans, Scanners
    <3>2. Move(lexer_advance(lexer), next) /\ scan.in # "done"
      BY <2>1 DEF In
    <3> HIDE DEF next
    <3> QED
      BY <3>1, <3>2, PlaceNow, MoveKeepsInvariant
  <2>2. ASSUME In("block_comment"), NEW d \in {1, -1},
               Move(lexer_advance(lexer_advance(lexer)), [scan EXCEPT !.nesting = @ + d])
        PROVE  LInv'
    <3>1. scan \in [in : {"block_comment"}, nesting : Int]
      BY <2>2 DEF LInv, Scans, In, Scanners
    <3> DEFINE next == [scan EXCEPT !.nesting = @ + d]
    <3>2. next \in Scans /\ next.in \notin Scanners
      BY <3>1 DEF Scans, Scanners
    <3>3. Move(lexer_advance(lexer_advance(lexer)), next) /\ scan.in # "done"
      BY <2>2 DEF In
    <3> HIDE DEF next
    <3> QED
      BY <3>2, <3>3, PlaceAfterTwo, MoveKeepsInvariant
  <2>3. CASE In("block_comment") /\ (Move(lexer, Idle) \/ Continue)
    BY <2>3, PlaceNow, IdleKeepsInvariant, ContinueKeepsInvariant DEF In
  <2>4. \/ In("lex") /\ Move(lexer_advance(lexer), [in |-> "block_comment", nesting |-> 1])
        \/ /\ In("block_comment")
           /\ \/ Move(lexer, Idle) \/ Continue
              \/ Move(lexer_advance(lexer_advance(lexer)), [scan EXCEPT !.nesting = @ + 1])
              \/ Move(lexer_advance(lexer_advance(lexer)), [scan EXCEPT !.nesting = @ - 1])
    BY <1>3, Zenon DEF skip_block_comment
  <2>5. CASE /\ In("block_comment")
             /\ Move(lexer_advance(lexer_advance(lexer)), [scan EXCEPT !.nesting = @ - 1])
    <3>1. scan \in [in : {"block_comment"}, nesting : Int]
      BY <2>5 DEF LInv, Scans, In, Scanners
    <3>2. [scan EXCEPT !.nesting = @ - 1] = [scan EXCEPT !.nesting = @ + (-1)]
      BY <3>1
    <3> QED
      BY <2>2, <2>5, <3>2
  <2> QED
    BY <2>1, <2>2, <2>3, <2>4, <2>5
<1> QED
  BY <1>1, <1>2, <1>3

LEMMA Numbers ==
  ASSUME LInv, lex_number
  PROVE  LInv'
<1>1. CASE In("lex") /\ Scanning("digits", lexer)
  BY <1>1, PlaceNow, ScanningKeepsInvariant DEF Scanners
<1>2. ASSUME scan.in \in Scanners, Continue PROVE LInv'
  BY <1>2, ContinueKeepsInvariant DEF Scanners
<1>3. ASSUME scan.in \in Scanners, NEW c \in {lexer, lexer_advance(lexer)},
             NEW function \in Scanners, Move(c, [scan EXCEPT !.in = function])
      PROVE  LInv'
  BY <1>3, PlaceNow, ScannerKeepsInvariant
<1>4. ASSUME scan.in \in Scanners, NEW c \in {lexer, lexer_advance(lexer)},
             NEW type \in {"INTEGER", "FLOAT", "ERROR"}, ReturnScanned(type, c)
      PROVE  LInv'
  BY <1>4, PlaceNow, ScannedKeepsInvariant, TypesOfScanned
<1>5. CASE /\ In("digits")
           /\ \/ Continue \/ ReturnScanned("INTEGER", lexer)
              \/ Move(lexer_advance(lexer), [scan EXCEPT !.in = "point"])
              \/ Move(lexer_advance(lexer), [scan EXCEPT !.in = "exponent"])
  BY <1>2, <1>3, <1>4, <1>5 DEF In, Scanners
<1>6. CASE In("point") /\ (Enter("fraction") \/ ReturnScanned("ERROR", lexer))
  BY <1>3, <1>4, <1>6 DEF In, Scanners, Enter
<1>7. CASE /\ In("fraction")
           /\ \/ Continue \/ ReturnScanned("FLOAT", lexer)
              \/ Move(lexer_advance(lexer), [scan EXCEPT !.in = "exponent"])
  BY <1>2, <1>3, <1>4, <1>7 DEF In, Scanners
<1>8. CASE /\ In("exponent")
           /\ \E c \in {lexer, lexer_advance(lexer)} :
                Move(c, [scan EXCEPT !.in = "power"]) \/ ReturnScanned("ERROR", c)
  BY <1>3, <1>4, <1>8 DEF In, Scanners
<1>9. CASE In("power") /\ (Continue \/ ReturnScanned("FLOAT", lexer))
  BY <1>2, <1>4, <1>9 DEF In, Scanners
<1> QED
  BY <1>1, <1>5, <1>6, <1>7, <1>8, <1>9, Zenon DEF lex_number

LEMMA StringsAndWords ==
  ASSUME LInv, lex_string \/ lex_identifier_or_keyword
  PROVE  LInv'
<1>1. CASE In("lex") /\ Scanning("string", lexer_advance(lexer))
  BY <1>1, PlaceNow, ScanningKeepsInvariant DEF Scanners
<1>2. CASE In("lex") /\ Scanning("word", lexer)
  BY <1>2, PlaceNow, ScanningKeepsInvariant DEF Scanners
<1>3. CASE In("string") /\ ReturnScanned("STRING", lexer_advance(lexer))
  BY <1>3, PlaceNow, ScannedKeepsInvariant, TypesOfScanned DEF In, Scanners
<1>4. CASE In("word") /\ ReturnScanned(WordType(Text(scan.start, lexer.position)), lexer)
  BY <1>4, PlaceNow, ScannedKeepsInvariant, TypesOfScanned DEF In, Scanners
<1>5. CASE (In("string") \/ In("word")) /\ Continue
  BY <1>5, ContinueKeepsInvariant DEF In
<1> QED
  BY <1>1, <1>2, <1>3, <1>4, <1>5 DEF lex_string, lex_identifier_or_keyword

LEMMA Symbols ==
  ASSUME LInv, lex_symbol \/ lex_end
  PROVE  LInv'
<1> DEFINE one == lexer_advance(lexer)
           two == lexer_advance(one)
<1>1. In("lex") /\ \E type \in TokenTypes, c \in {lexer, one, two} :
                      Return(type, lexer.position, lexer, c)
  <2>1. CASE lex_end
    BY <2>1, TypesOfScanned DEF lex_end
  <2>2. CASE lex_symbol
    BY <2>2, TypesOfScanned, Zenon DEF lex_symbol
  <2> QED
    BY <2>1, <2>2
<1>2. \A c \in {lexer, one, two} : Place(c) /\ lexer.position <= c.position
  BY PlaceNow, PlaceAfterTwo
<1>3. lexer.line \in 1 .. End /\ lexer.column \in 1 .. End /\ Before(lexer.position)
  BY DEF LInv, Place
<1>4. scan.in # "done"
  BY <1>1 DEF In
<1> HIDE DEF one, two
<1> QED
  BY <1>1, <1>2, <1>3, <1>4, PlaceNow, ReturnKeepsInvariant

-----------------------------------------------------------------------------
LEMMA InitInvariant == Init => LInv
<1> SUFFICES ASSUME Init PROVE LInv
  OBVIOUS
<1>1. source \in Seq(STRING)
  BY SourcesAssumption DEF Init
<1>2. 1 \in 1 .. End
  BY <1>1, EndIsNat
<1>3. Place(lexer) /\ scan \in Scans /\ scan.in \notin Scanners
  BY <1>2 DEF Init, Place, Scans, Scanners, Idle
<1>4. tokens = <<>> /\ capacity \in Nat \ {0} /\ Len(tokens) = 0 /\ DOMAIN tokens = {}
  BY CapacityAssumption DEF Init
<1>5. tokens \in Seq(Token) /\ Len(tokens) <= capacity
  BY <1>4
<1> QED
  BY <1>1, <1>3, <1>4, <1>5 DEF LInv, Before, TokensInOrder

LEMMA NextInvariant == LInv /\ [Next]_vars => LInv'
<1> SUFFICES ASSUME LInv, [Next]_vars PROVE LInv'
  OBVIOUS
<1>1. CASE Next
  BY <1>1, BlanksAndComments, Numbers, StringsAndWords, Symbols DEF Next, lex
<1>2. CASE UNCHANGED vars
  <2>1. UNCHANGED <<source, lexer, scan, tokens, capacity>>
    BY <1>2 DEF vars
  <2>2. End' = End /\ Token' = Token /\ Scans' = Scans
    BY <2>1 DEF End, Token, TokenTypes, Scans, Read
  <2> QED
    BY <2>1, <2>2 DEF LInv, Place, Before, TokensInOrder, In
<1> QED
  BY <1>1, <1>2

(* Whatever the source, the alphabet and the keywords: the lexer stays within the
   source, every token and its reported position too, and the token list within
   the memory that was allocated for it. *)
THEOREM LexerTypeOK == Spec => []TypeOK
<1>1. LInv => TypeOK
  <2> SUFFICES ASSUME LInv PROVE TypeOK
    OBVIOUS
  <2>1. scan.in \in Functions
    BY DEF LInv, Scans, Scanners, Functions
  <2> QED
    BY <2>1 DEF LInv, Place, Token, TypeOK
<1> QED
  BY <1>1, InitInvariant, NextInvariant, PTL DEF Spec

(* Whatever the source: the tokens are disjoint parts of it in the order they were
   written, and nothing follows the end of the source. *)
THEOREM LexerTokensInOrder == Spec => []TokensInOrder
<1>1. LInv => TokensInOrder
  BY DEF LInv
<1> QED
  BY <1>1, InitInvariant, NextInvariant, PTL DEF Spec
-----------------------------------------------------------------------------
(* Lines and columns of the places of a source s, and what the lexer knows of
   them at place c, with the function n at work and the tokens ts. *)
CharIn(s, p)   == IF p \in DOMAIN s THEN s[p] ELSE NUL
BreaksIn(s, p) == {q \in 1 .. p - 1 : CharIn(s, q) = "\n"}
LineIn(s, p)   == Cardinality(BreaksIn(s, p)) + 1
ColumnIn(s, p) == p - (IF BreaksIn(s, p) = {} THEN 0 ELSE Max(BreaksIn(s, p)))

Unbroken(s, p, q) == \A r \in p .. q - 1 : CharIn(s, r) # "\n"

WellPlaced(s, c) == c.line = LineIn(s, c.position) /\ c.column = ColumnIn(s, c.position)

\* What ReportedWhereTheyBegin says of one token.
Reported(s, t) ==
  /\ t.column = ColumnIn(s, t.from)
  /\ t.line = IF t.type = "STRING" /\ "\n" \in {CharIn(s, p) : p \in t.from .. t.to - 1}
              THEN LineIn(s, t.to) ELSE LineIn(s, t.from)

Located(s, c, n, ts) ==
  /\ WellPlaced(s, c)
  /\ n.in \in Scanners => n.column = ColumnIn(s, n.start)
  /\ n.in \in Scanners \ {"string"} => Unbroken(s, n.start, c.position)
  /\ \A k \in DOMAIN ts : Reported(s, ts[k])

LEMMA SetInduction ==
  ASSUME NEW S \in SUBSET Nat, 0 \in S, \A n \in S : n + 1 \in S
  PROVE  S = Nat
<1> DEFINE R == OpToRel(<, Nat)
<1>1. IsWellFoundedOn(R, Nat)
  BY NatLessThanWellFounded
<1>2. \A x, y \in Nat : x < y => <<x, y>> \in R
  BY DEF OpToRel
<1> HIDE DEF R
<1>3. SUFFICES ASSUME Nat \ S # {} PROVE FALSE
  OBVIOUS
<1>4. PICK n \in Nat \ S : \A m \in Nat \ S : ~(<<m, n>> \in R)
  BY <1>1, <1>3, WFMin
<1>5. n \in Nat /\ n # 0 /\ n \notin S
  BY <1>4
<1>6. n - 1 \in Nat /\ n - 1 < n /\ (n - 1) + 1 = n
  BY <1>5
<1>7. n - 1 \in S
  BY <1>2, <1>4, <1>6
<1> QED
  BY <1>5, <1>6, <1>7

(* Without a line break between two places, they are on the same line. *)
LEMMA SameLine ==
  ASSUME NEW s, NEW p \in Nat, NEW q \in Nat, p <= q, Unbroken(s, p, q)
  PROVE  BreaksIn(s, p) = BreaksIn(s, q)
<1>1. BreaksIn(s, p) \subseteq BreaksIn(s, q)
  BY DEF BreaksIn
<1>2. ASSUME NEW r \in BreaksIn(s, q) PROVE r \in BreaksIn(s, p)
  <2>1. r \in 1 .. q - 1 /\ CharIn(s, r) = "\n"
    BY DEF BreaksIn
  <2>2. r \notin p .. q - 1
    BY <2>1 DEF Unbroken
  <2>3. r \in 1 .. p - 1
    BY <2>1, <2>2
  <2> QED
    BY <2>1, <2>3 DEF BreaksIn
<1> QED
  BY <1>1, <1>2

(* A line break is followed by the first column of the next line. *)
LEMMA NextLine ==
  ASSUME NEW s, NEW p \in Nat \ {0}, CharIn(s, p) = "\n"
  PROVE  LineIn(s, p + 1) = LineIn(s, p) + 1 /\ ColumnIn(s, p + 1) = 1
<1>1. BreaksIn(s, p + 1) = BreaksIn(s, p) \union {p}
  <2>1. \A r : r \in 1 .. p + 1 - 1 <=> r \in 1 .. p - 1 \/ r = p
    OBVIOUS
  <2> QED
    BY <2>1 DEF BreaksIn
<1>2. BreaksIn(s, p) \subseteq 1 .. p - 1 /\ p \notin BreaksIn(s, p)
  BY DEF BreaksIn
<1>3. IsFiniteSet(BreaksIn(s, p))
  BY <1>2, FS_Interval, FS_Subset
<1>4. Cardinality(BreaksIn(s, p + 1)) = Cardinality(BreaksIn(s, p)) + 1
  BY <1>1, <1>2, <1>3, FS_AddElement
<1>5. Max(BreaksIn(s, p + 1)) = p
  <2> DEFINE B == BreaksIn(s, p + 1)
  <2>1. p \in B /\ \A r \in B : r \in Nat /\ p >= r
    BY <1>1, <1>2
  <2> HIDE DEF B
  <2>2. \E x \in B : \A y \in B : x >= y
    BY <2>1
  <2> DEFINE m == Max(B)
  <2>3. m \in B /\ \A y \in B : m >= y
    BY <2>2 DEF Max
  <2> HIDE DEF m
  <2>4. m = p
    BY <2>1, <2>3
  <2> QED
    BY <2>4 DEF B, m
<1>6. Cardinality(BreaksIn(s, p)) \in Nat /\ BreaksIn(s, p + 1) # {}
  BY <1>1, <1>3, FS_CardinalityType
<1> QED
  BY <1>4, <1>5, <1>6 DEF LineIn, ColumnIn

(* There is a last one among the line breaks before a place. *)
LEMMA LastBreak ==
  ASSUME NEW s, NEW p \in Nat, BreaksIn(s, p) # {}
  PROVE  Max(BreaksIn(s, p)) \in Nat
<1> DEFINE HasLast(n) == \E x \in BreaksIn(s, n) : \A y \in BreaksIn(s, n) : x >= y
           S == {n \in Nat : BreaksIn(s, n) = {} \/ HasLast(n)}
<1>1. 0 \in S
  BY DEF BreaksIn
<1>2. ASSUME NEW n \in S PROVE n + 1 \in S
  <2>1. CASE n # 0 /\ CharIn(s, n) = "\n"
    <3>1. n \in BreaksIn(s, n + 1) /\ \A y \in BreaksIn(s, n + 1) : n >= y
      BY <2>1 DEF BreaksIn
    <3>2. HasLast(n + 1)
      BY <3>1
    <3> QED
      BY <3>2
  <2>2. CASE n = 0 \/ CharIn(s, n) # "\n"
    <3>1. BreaksIn(s, n + 1) = BreaksIn(s, n)
      BY <2>2 DEF BreaksIn
    <3> QED
      BY <1>2, <3>1
  <2> QED
    BY <2>1, <2>2
<1>3. S = Nat
  <2>1. S \in SUBSET Nat
    OBVIOUS
  <2> HIDE DEF S
  <2> QED
    BY <1>1, <1>2, <2>1, SetInduction
<1>4. HasLast(p)
  BY <1>3
<1> DEFINE B == BreaksIn(s, p)
<1>5. \E x \in B : \A y \in B : x >= y
  BY <1>4
<1>6. B \subseteq Nat
  BY DEF BreaksIn
<1> HIDE DEF B
<1>7. Max(B) \in B
  BY <1>5 DEF Max
<1> QED
  BY <1>6, <1>7 DEF B

LEMMA AdvanceWellPlaced ==
  ASSUME source \in Seq(STRING), NEW c, Place(c), WellPlaced(source, c)
  PROVE  WellPlaced(source, lexer_advance(c))
<1>1. c.position \in Nat \ {0} /\ c.line \in Nat /\ c.column \in Nat
  BY EndIsNat DEF Place
<1>2. CASE c.position \notin DOMAIN source
  BY <1>2 DEF lexer_advance
<1>3. CASE c.position \in DOMAIN source /\ Char(c.position) = "\n"
  <2>1. CharIn(source, c.position) = "\n"
    BY <1>3 DEF Char, CharIn
  <2> QED
    BY <1>1, <1>3, <2>1, NextLine DEF lexer_advance, WellPlaced
<1>4. CASE c.position \in DOMAIN source /\ Char(c.position) # "\n"
  <2> DEFINE p == c.position
  <2>1. Unbroken(source, p, p + 1)
    <3>1. \A r \in p .. p + 1 - 1 : r = p
      BY <1>1
    <3> QED
      BY <1>4, <3>1 DEF Char, CharIn, Unbroken
  <2>2. BreaksIn(source, p + 1) = BreaksIn(source, p)
    BY <1>1, <2>1, SameLine
  <2>3. LineIn(source, p + 1) = LineIn(source, p) /\ ColumnIn(source, p + 1) = ColumnIn(source, p) + 1
    <3> DEFINE b == IF BreaksIn(source, p) = {} THEN 0 ELSE Max(BreaksIn(source, p))
    <3>1. ColumnIn(source, p) = p - b /\ ColumnIn(source, p + 1) = (p + 1) - b
      BY <2>2 DEF ColumnIn
    <3>2. b \in Int
      <4>1. CASE BreaksIn(source, p) = {}
        BY <4>1
      <4>2. CASE BreaksIn(source, p) # {}
        BY <1>1, <4>2, LastBreak
      <4> QED
        BY <4>1, <4>2
    <3> QED
      BY <1>1, <2>2, <3>1, <3>2 DEF LineIn
  <2> QED
    BY <1>1, <1>4, <2>3 DEF lexer_advance, WellPlaced
<1> QED
  BY <1>2, <1>3, <1>4

-----------------------------------------------------------------------------
\* No symbol is a string.
SymbolTypes == TokenTypes \ {"STRING"}

LEMMA SymbolsAreNoStrings ==
  /\ "EOF" \in SymbolTypes
  /\ \A c \in DOMAIN Single : Single[c] \in SymbolTypes
  /\ \A p \in DOMAIN Double : Double[p] \in SymbolTypes
<1>1. ASSUME NEW c \in DOMAIN Single PROVE Single[c] # "STRING"
  BY <1>1 DEF Single
<1>2. ASSUME NEW p \in DOMAIN Double PROVE Double[p] # "STRING"
  BY <1>2 DEF Double
<1> QED
  BY <1>1, <1>2, TypesOfScanned DEF SymbolTypes

-----------------------------------------------------------------------------
(* The lexer's steps, by what they leave located. *)
LocatedNow == Located(source, lexer, scan, tokens)

LEMMA MoveLocated ==
  ASSUME LocatedNow, NEW c, NEW next, Move(c, next), WellPlaced(source, c),
         next.in \in Scanners => next.column = ColumnIn(source, next.start),
         next.in \in Scanners \ {"string"} => Unbroken(source, next.start, c.position)
  PROVE  LocatedNow'
  BY DEF LocatedNow, Located, Move

LEMMA ReturnLocated ==
  ASSUME LInv, LocatedNow, NEW type, NEW from, NEW at, NEW c, Return(type, from, at, c),
         WellPlaced(source, c),
         Reported(source, [type |-> type, from |-> from, to |-> c.position,
                           line |-> at.line, column |-> at.column])
  PROVE  LocatedNow'
<1> DEFINE token == [type |-> type, from |-> from, to |-> c.position,
                     line |-> at.line, column |-> at.column]
<1>1. source' = source /\ lexer' = c /\ tokens' = Append(tokens, token)
  BY DEF Return, token_list_add
<1>2. scan'.in \notin Scanners
  BY DEF Return, Idle, Scanners
<1>3. tokens \in Seq(Token)
  BY DEF LInv
<1>4. /\ DOMAIN tokens' = 1 .. Len(tokens) + 1 /\ DOMAIN tokens = 1 .. Len(tokens)
      /\ tokens'[Len(tokens) + 1] = token /\ Len(tokens) \in Nat
      /\ \A k \in DOMAIN tokens : tokens'[k] = tokens[k]
  BY <1>1, <1>3
<1>5. Reported(source, token)
  OBVIOUS
<1> HIDE DEF token
<1>6. \A k \in DOMAIN tokens' : Reported(source, tokens'[k])
  <2> SUFFICES ASSUME NEW k \in DOMAIN tokens' PROVE Reported(source, tokens'[k])
    OBVIOUS
  <2>1. CASE k \in DOMAIN tokens
    BY <1>4, <2>1 DEF LocatedNow, Located
  <2>2. CASE k = Len(tokens) + 1
    BY <1>4, <1>5, <2>2
  <2> QED
    BY <1>4, <2>1, <2>2
<1> QED
  BY <1>1, <1>2, <1>6 DEF LocatedNow, Located

LEMMA ContinueLocated ==
  ASSUME LInv, LocatedNow, scan.in \notin Scanners, Continue
  PROVE  LocatedNow'
<1>1. WellPlaced(source, lexer_advance(lexer))
  BY AdvanceWellPlaced DEF LInv, LocatedNow, Located
<1> QED
  BY <1>1, MoveLocated DEF Continue

\* A function that looks for no token takes over.
LEMMA EnterLocated ==
  ASSUME LInv, LocatedNow, NEW next, next.in \notin Scanners,
         NEW c \in {lexer, lexer_advance(lexer), lexer_advance(lexer_advance(lexer))},
         Move(c, next)
  PROVE  LocatedNow'
<1> DEFINE one == lexer_advance(lexer)
<1>1. WellPlaced(source, lexer)
  BY DEF LocatedNow, Located
<1>2. Place(one) /\ WellPlaced(source, one)
  BY <1>1, AdvanceWellPlaced, PlaceNow DEF LInv
<1>3. WellPlaced(source, lexer_advance(one))
  <2> HIDE DEF one
  <2> QED
    BY <1>2, AdvanceWellPlaced DEF LInv
<1> QED
  BY <1>1, <1>2, <1>3, MoveLocated

\* What was scanned so far is on one line, and so is the next character.
LEMMA UnbrokenFurther ==
  ASSUME LInv, LocatedNow, scan.in \in Scanners \ {"string"}, current # "\n"
  PROVE  Unbroken(source, scan.start, lexer_advance(lexer).position)
<1>1. scan.start \in Nat /\ lexer.position \in Nat
  BY EndIsNat, PlaceNow DEF LInv, Scans, Scanners
<1>2. Unbroken(source, scan.start, lexer.position)
  BY DEF LocatedNow, Located
<1>3. CharIn(source, lexer.position) # "\n"
  BY DEF current, Char, CharIn
<1>4. lexer_advance(lexer).position \in {lexer.position, lexer.position + 1}
  BY DEF lexer_advance
<1>5. Unbroken(source, scan.start, lexer.position + 1)
  <2>1. \A r \in scan.start .. (lexer.position + 1) - 1 :
          r = lexer.position \/ r \in scan.start .. lexer.position - 1
    BY <1>1
  <2>2. \A r \in scan.start .. (lexer.position + 1) - 1 : CharIn(source, r) # "\n"
    BY <1>2, <1>3, <2>1, Zenon DEF Unbroken
  <2> QED
    BY <2>2, Zenon DEF Unbroken
<1> QED
  BY <1>2, <1>4, <1>5

\* A scanning function goes on, perhaps in another of its loops.
LEMMA ScannerLocated ==
  ASSUME LInv, LocatedNow, scan.in \in Scanners \ {"string"},
         NEW c, c = lexer \/ (c = lexer_advance(lexer) /\ current # "\n"),
         NEW function \in Scanners, Move(c, [scan EXCEPT !.in = function])
  PROVE  LocatedNow'
<1> DEFINE next == [scan EXCEPT !.in = function]
<1>1. scan \in [in : Scanners, start : 1 .. End, column : 1 .. End, quote : Read]
  BY DEF LInv, Scans, Scanners
<1>2. next.start = scan.start /\ next.column = scan.column
  BY <1>1
<1>3. WellPlaced(source, c)
  BY AdvanceWellPlaced DEF LInv, LocatedNow, Located
<1>4. Unbroken(source, next.start, c.position)
  BY <1>2, UnbrokenFurther DEF LocatedNow, Located
<1>5. next.column = ColumnIn(source, next.start)
  BY <1>2 DEF LocatedNow, Located
<1> HIDE DEF next
<1>6. Move(c, next)
  BY DEF next
<1> QED
  BY <1>3, <1>4, <1>5, <1>6, MoveLocated

\* A character of a string may be a line break.
LEMMA StringLocated ==
  ASSUME LInv, LocatedNow, In("string"), Continue
  PROVE  LocatedNow'
<1>1. WellPlaced(source, lexer_advance(lexer))
  BY AdvanceWellPlaced DEF LInv, LocatedNow, Located
<1>2. scan.in = "string" /\ "string" \in Scanners
  BY DEF In, Scanners
<1>3. scan.column = ColumnIn(source, scan.start)
  BY <1>2 DEF LocatedNow, Located
<1> QED
  BY <1>1, <1>2, <1>3, MoveLocated DEF Continue

LEMMA ScanningLocated ==
  ASSUME LInv, LocatedNow, NEW function \in Scanners, NEW c, Scanning(function, c),
         c = lexer \/ (c = lexer_advance(lexer) /\ function = "string")
  PROVE  LocatedNow'
<1> DEFINE next == [in |-> function, start |-> lexer.position, column |-> lexer.column,
                    quote |-> current]
<1>1. WellPlaced(source, lexer) /\ WellPlaced(source, c)
  BY AdvanceWellPlaced DEF LInv, LocatedNow, Located
<1>2. next.column = ColumnIn(source, next.start)
  BY <1>1 DEF WellPlaced
<1>3. c = lexer => Unbroken(source, next.start, c.position)
  BY PlaceNow DEF Unbroken
<1>4. Move(c, next)
  BY DEF Scanning
<1>5. next.in = function
  OBVIOUS
<1> HIDE DEF next
<1> QED
  BY <1>1, <1>2, <1>3, <1>4, <1>5, MoveLocated

\* A token that was scanned has the line it ends in: its only one, or a string's last.
LEMMA ScannedLocated ==
  ASSUME LInv, LocatedNow, scan.in \in Scanners, NEW type, NEW c, ReturnScanned(type, c),
         Place(c), lexer.position <= c.position, WellPlaced(source, c),
         type = "STRING" \/ Unbroken(source, scan.start, c.position)
  PROVE  LocatedNow'
<1> DEFINE at    == [line |-> c.line, column |-> scan.column]
           token == [type |-> type, from |-> scan.start, to |-> c.position,
                     line |-> at.line, column |-> at.column]
<1>1. scan.column = ColumnIn(source, scan.start)
  BY DEF LocatedNow, Located
<1>2. c.line = LineIn(source, c.position)
  BY DEF WellPlaced
<1>3. scan.start \in Nat /\ c.position \in Nat /\ scan.start <= c.position
  <2>1. scan.start \in Nat /\ lexer.position \in Nat /\ c.position \in Nat
    BY EndIsNat, PlaceNow, SMTT(30) DEF LInv, Scans, Scanners, Place
  <2> QED
    BY <2>1 DEF LInv
<1>4. Reported(source, token)
  <2>1. CASE Unbroken(source, scan.start, c.position)
    <3>1. LineIn(source, scan.start) = LineIn(source, c.position)
      BY <1>3, <2>1, SameLine DEF LineIn
    <3> QED
      BY <1>1, <1>2, <3>1 DEF Reported
  <2>2. CASE type = "STRING" /\ ~Unbroken(source, scan.start, c.position)
    <3>1. "\n" \in {CharIn(source, p) : p \in scan.start .. c.position - 1}
      BY <2>2 DEF Unbroken
    <3> QED
      BY <1>1, <1>2, <2>2, <3>1 DEF Reported
  <2> QED
    BY <2>1, <2>2
<1>5. Return(type, scan.start, at, c)
  BY DEF ReturnScanned
<1> QED
  BY <1>4, <1>5, ReturnLocated

LEMMA ContinueScannerLocated ==
  ASSUME LInv, LocatedNow, scan.in \in Scanners \ {"string"}, current # "\n", Continue
  PROVE  LocatedNow'
<1>1. scan \in [in : Scanners, start : 1 .. End, column : 1 .. End, quote : Read]
  BY DEF LInv, Scans, Scanners
<1>2. [scan EXCEPT !.in = scan.in] = scan
  BY <1>1
<1> QED
  BY <1>2, ScannerLocated DEF Continue

LEMMA BlanksAndCommentsLocated ==
  ASSUME LInv, LocatedNow, skip_whitespace \/ skip_line_comment \/ skip_block_comment
  PROVE  LocatedNow'
<1>1. CASE skip_whitespace
  BY <1>1, ContinueLocated DEF skip_whitespace, In, Scanners
<1>2. CASE skip_line_comment
  <2>1. CASE In("lex") /\ Enter("line_comment")
    <3>1. scan \in [in : {"lex", "line_comment", "done"}]
      BY <2>1 DEF LInv, Scans, In, Scanners
    <3> DEFINE next == [scan EXCEPT !.in = "line_comment"]
    <3>2. next.in \notin Scanners
      BY <3>1 DEF Scanners
    <3>3. Move(lexer, next)
      BY <2>1 DEF Enter
    <3> HIDE DEF next
    <3> QED
      BY <3>2, <3>3, EnterLocated
  <2>2. CASE In("line_comment") /\ (Move(lexer, Idle) \/ Continue)
    <3>1. Idle.in \notin Scanners /\ scan.in \notin Scanners
      BY <2>2 DEF Idle, Scanners, In
    <3> QED
      BY <2>2, <3>1, EnterLocated, ContinueLocated
  <2> QED
    BY <1>2, <2>1, <2>2 DEF skip_line_comment
<1>3. CASE skip_block_comment
  <2>1. ASSUME In("block_comment"), NEW d \in {1, -1},
               Move(lexer_advance(lexer_advance(lexer)), [scan EXCEPT !.nesting = @ + d])
        PROVE  LocatedNow'
    <3>1. scan \in [in : {"block_comment"}, nesting : Int]
      BY <2>1 DEF LInv, Scans, In, Scanners
    <3> DEFINE next == [scan EXCEPT !.nesting = @ + d]
    <3>2. next.in \notin Scanners
      BY <3>1 DEF Scanners
    <3>3. Move(lexer_advance(lexer_advance(lexer)), next)
      BY <2>1
    <3> HIDE DEF next
    <3> QED
      BY <3>2, <3>3, EnterLocated
  <2>2. \/ In("lex") /\ Move(lexer_advance(lexer), [in |-> "block_comment", nesting |-> 1])
        \/ /\ In("block_comment")
           /\ \/ Move(lexer, Idle) \/ Continue
              \/ Move(lexer_advance(lexer_advance(lexer)), [scan EXCEPT !.nesting = @ + 1])
              \/ Move(lexer_advance(lexer_advance(lexer)), [scan EXCEPT !.nesting = @ - 1])
    BY <1>3, Zenon DEF skip_block_comment
  <2>3. CASE In("lex") /\ Move(lexer_advance(lexer), [in |-> "block_comment", nesting |-> 1])
    <3> DEFINE next == [in |-> "block_comment", nesting |-> 1]
    <3>1. next.in \notin Scanners
      BY DEF Scanners
    <3>2. Move(lexer_advance(lexer), next)
      BY <2>3
    <3> HIDE DEF next
    <3> QED
      BY <3>1, <3>2, EnterLocated
  <2>4. CASE In("block_comment") /\ (Move(lexer, Idle) \/ Continue)
    <3>1. Idle.in \notin Scanners /\ scan.in \notin Scanners
      BY <2>4 DEF Idle, Scanners, In
    <3> QED
      BY <2>4, <3>1, EnterLocated, ContinueLocated
  <2>5. CASE /\ In("block_comment")
             /\ Move(lexer_advance(lexer_advance(lexer)), [scan EXCEPT !.nesting = @ - 1])
    <3>1. scan \in [in : {"block_comment"}, nesting : Int]
      BY <2>5 DEF LInv, Scans, In, Scanners
    <3>2. [scan EXCEPT !.nesting = @ - 1] = [scan EXCEPT !.nesting = @ + (-1)]
      BY <3>1
    <3> QED
      BY <2>1, <2>5, <3>2
  <2> QED
    BY <2>1, <2>2, <2>3, <2>4, <2>5
<1> QED
  BY <1>1, <1>2, <1>3

LEMMA NoNewline ==
  ASSUME NEW c \in Letters \union Digits
  PROVE  c # "\n"
<1>1. "\n" \in Blanks
  BY DEF Blanks
<1>2. c \notin Blanks
  BY AlphabetAssumption
<1> QED
  BY <1>1, <1>2

LEMMA NumbersLocated ==
  ASSUME LInv, LocatedNow, lex_number
  PROVE  LocatedNow'
<1> DEFINE Numeric == {"digits", "point", "fraction", "exponent", "power"}
<1>1. CASE In("lex") /\ Scanning("digits", lexer)
  BY <1>1, ScanningLocated DEF Scanners
<1>2. ASSUME scan.in \in Numeric, current \in Digits, Continue PROVE LocatedNow'
  BY <1>2, ContinueScannerLocated, NoNewline DEF Scanners
<1>3. ASSUME scan.in \in Numeric, current \in {"."} \union Exponents \union Signs,
             NEW function \in Numeric, Move(lexer_advance(lexer), [scan EXCEPT !.in = function])
      PROVE  LocatedNow'
  BY <1>3, ScannerLocated DEF Scanners, Exponents, Signs
<1>4. ASSUME scan.in \in Numeric, NEW function \in Numeric, Move(lexer, [scan EXCEPT !.in = function])
      PROVE  LocatedNow'
  BY <1>4, ScannerLocated DEF Scanners
<1>5. ASSUME scan.in \in Numeric, NEW type, ReturnScanned(type, lexer)
      PROVE  LocatedNow'
  <2>1. WellPlaced(source, lexer) /\ Unbroken(source, scan.start, lexer.position)
    BY <1>5 DEF LocatedNow, Located, Scanners
  <2> QED
    BY <1>5, <2>1, PlaceNow, ScannedLocated DEF Scanners
<1>6. ASSUME scan.in \in Numeric, current \in Signs, ReturnScanned("ERROR", lexer_advance(lexer))
      PROVE  LocatedNow'
  <2>1. WellPlaced(source, lexer_advance(lexer))
    BY AdvanceWellPlaced DEF LInv, LocatedNow, Located
  <2>2. Unbroken(source, scan.start, lexer_advance(lexer).position)
    BY <1>6, UnbrokenFurther DEF Scanners, Signs
  <2> QED
    BY <1>6, <2>1, <2>2, PlaceNow, ScannedLocated DEF Scanners
<1>7. CASE /\ In("digits")
           /\ \/ current \in Digits /\ Continue
              \/ ReturnScanned("INTEGER", lexer)
              \/ Point /\ Move(lexer_advance(lexer), [scan EXCEPT !.in = "point"])
              \/ current \in Exponents /\ Move(lexer_advance(lexer), [scan EXCEPT !.in = "exponent"])
  BY <1>2, <1>3, <1>5, <1>7 DEF In, Point
<1>8. CASE In("point") /\ (Enter("fraction") \/ ReturnScanned("ERROR", lexer))
  BY <1>4, <1>5, <1>8 DEF In, Enter
<1>9. CASE /\ In("fraction")
           /\ \/ current \in Digits /\ Continue
              \/ ReturnScanned("FLOAT", lexer)
              \/ current \in Exponents /\ Move(lexer_advance(lexer), [scan EXCEPT !.in = "exponent"])
  BY <1>2, <1>3, <1>5, <1>9 DEF In
<1>10. CASE /\ In("exponent")
            /\ \E c : /\ c = lexer \/ (c = lexer_advance(lexer) /\ current \in Signs)
                      /\ Move(c, [scan EXCEPT !.in = "power"]) \/ ReturnScanned("ERROR", c)
  BY <1>3, <1>4, <1>5, <1>6, <1>10 DEF In
<1>11. CASE In("power") /\ ((current \in Digits /\ Continue) \/ ReturnScanned("FLOAT", lexer))
  BY <1>2, <1>5, <1>11 DEF In
<1> HIDE DEF Numeric
<1> QED
  BY <1>1, <1>7, <1>8, <1>9, <1>10, <1>11, Zenon DEF lex_number

LEMMA StringsAndWordsLocated ==
  ASSUME LInv, LocatedNow, lex_string \/ lex_identifier_or_keyword
  PROVE  LocatedNow'
<1>1. CASE In("lex") /\ Scanning("string", lexer_advance(lexer))
  BY <1>1, ScanningLocated DEF Scanners
<1>2. CASE In("lex") /\ Scanning("word", lexer)
  BY <1>2, ScanningLocated DEF Scanners
<1>3. CASE In("string") /\ ReturnScanned("STRING", lexer_advance(lexer))
  <2>1. WellPlaced(source, lexer_advance(lexer))
    BY AdvanceWellPlaced DEF LInv, LocatedNow, Located
  <2> QED
    BY <1>3, <2>1, PlaceNow, ScannedLocated DEF In, Scanners
<1>4. CASE In("word") /\ ReturnScanned(WordType(Text(scan.start, lexer.position)), lexer)
  <2>1. WellPlaced(source, lexer) /\ Unbroken(source, scan.start, lexer.position)
    BY <1>4 DEF LocatedNow, Located, Scanners, In
  <2> QED
    BY <1>4, <2>1, PlaceNow, ScannedLocated DEF In, Scanners
<1>5. CASE In("string") /\ Continue
  BY <1>5, StringLocated
<1>6. CASE In("word") /\ current \in Letters \union Digits /\ Continue
  BY <1>6, ContinueScannerLocated, NoNewline DEF In, Scanners
<1> QED
  BY <1>1, <1>2, <1>3, <1>4, <1>5, <1>6 DEF lex_string, lex_identifier_or_keyword

LEMMA SymbolsLocated ==
  ASSUME LInv, LocatedNow, lex_symbol \/ lex_end
  PROVE  LocatedNow'
<1> DEFINE one == lexer_advance(lexer)
           two == lexer_advance(one)
           <1>1. PICK type \in SymbolTypes, c \in {lexer, one, two} : Return(type, lexer.position, lexer, c)
  <2>1. CASE lex_end
    BY <2>1, SymbolsAreNoStrings DEF lex_end
  <2>2. CASE lex_symbol
    BY <2>2, SymbolsAreNoStrings, Zenon DEF lex_symbol
  <2> QED
    BY <2>1, <2>2
<1>2. WellPlaced(source, lexer)
  BY DEF LocatedNow, Located
<1>3. Place(one) /\ WellPlaced(source, one)
  BY <1>2, AdvanceWellPlaced, PlaceNow DEF LInv
<1>4. WellPlaced(source, two)
  <2> HIDE DEF one
  <2> QED
    BY <1>3, AdvanceWellPlaced DEF LInv
<1> HIDE DEF one, two
<1>5. WellPlaced(source, c)
  BY <1>2, <1>3, <1>4
<1>6. Reported(source, [type |-> type, from |-> lexer.position, to |-> c.position,
                        line |-> lexer.line, column |-> lexer.column])
  BY <1>1, <1>2 DEF Reported, WellPlaced, SymbolTypes
<1> QED
  BY <1>1, <1>5, <1>6, ReturnLocated

-----------------------------------------------------------------------------
LEMMA InitLocated == Init => LocatedNow
<1> SUFFICES ASSUME Init PROVE LocatedNow
  OBVIOUS
<1>1. BreaksIn(source, 1) = {}
  BY DEF BreaksIn
<1>2. LineIn(source, 1) = 1 /\ ColumnIn(source, 1) = 1
  BY <1>1, FS_EmptySet DEF LineIn, ColumnIn
<1>3. WellPlaced(source, lexer)
  BY <1>2 DEF Init, WellPlaced
<1>4. scan.in \notin Scanners /\ DOMAIN tokens = {}
  BY DEF Init, Idle, Scanners
<1> QED
  BY <1>3, <1>4 DEF LocatedNow, Located

LEMMA NextLocated == LInv /\ LocatedNow /\ [Next]_vars => LocatedNow'
<1> SUFFICES ASSUME LInv, LocatedNow, [Next]_vars PROVE LocatedNow'
  OBVIOUS
<1>1. CASE Next
  BY <1>1, BlanksAndCommentsLocated, NumbersLocated, StringsAndWordsLocated, SymbolsLocated
     DEF Next, lex
<1>2. CASE UNCHANGED vars
  BY <1>2 DEF vars, LocatedNow
<1> QED
  BY <1>1, <1>2

(* Whatever the source and the alphabet: every token is reported at the line and
   the column at which it begins, a string of several lines at the line of its
   end. *)
THEOREM LexerReportsBeginnings == Spec => []ReportedWhereTheyBegin
<1>1. LocatedNow => ReportedWhereTheyBegin
  <2> SUFFICES ASSUME LocatedNow, NEW k \in DOMAIN tokens
               PROVE  LET token   == tokens[k]
                          breaks  == Breaks(token.from)
                          several == /\ token.type = "STRING"
                                     /\ "\n" \in {Char(p) : p \in token.from .. token.to - 1}
                      IN /\ token.column = token.from - (IF breaks = {} THEN 0 ELSE Max(breaks))
                         /\ token.line = Cardinality(IF several THEN Breaks(token.to)
                                                                ELSE breaks) + 1
    BY DEF ReportedWhereTheyBegin
  <2>1. \A p : Breaks(p) = BreaksIn(source, p) /\ Char(p) = CharIn(source, p)
    BY DEF Breaks, Char, BreaksIn, CharIn
  <2>2. Reported(source, tokens[k])
    BY DEF LocatedNow, Located
  <2> QED
    BY <2>1, <2>2 DEF Reported, LineIn, ColumnIn
<1>2. Spec => [](LInv /\ LocatedNow)
  <2>1. Init => LInv /\ LocatedNow
    BY InitInvariant, InitLocated
  <2>2. LInv /\ LocatedNow /\ [Next]_vars => (LInv /\ LocatedNow)'
    BY NextInvariant, NextLocated
  <2> QED
    BY <2>1, <2>2, PTL DEF Spec
<1> QED
  BY <1>1, <1>2, PTL
-----------------------------------------------------------------------------
(* What is skipped in a source s. *)
LastIn(s) == Len(s) + 1

BeginsIn(s, p, text) == \A k \in DOMAIN text : CharIn(s, p + k - 1) = text[k]

\* The bodies of the recursive definitions of CommentEnd and Skipped.
EndStep(s, f, p, d) ==
  CASE d = 0 -> p
    [] d > 0 /\ p >= LastIn(s) -> LastIn(s)
    [] d > 0 /\ BeginsIn(s, p, <<"/", "*">>) -> f[p + 2][d + 1]
    [] d > 0 /\ BeginsIn(s, p, <<"*", "/">>) -> f[p + 2][d - 1]
    [] OTHER -> f[p + 1][d]

EndsIn(s) == CHOOSE f : f = [p \in 1 .. LastIn(s) + 1 |-> [d \in Nat |-> EndStep(s, f, p, d)]]

LineEndIn(s, p) ==
  CHOOSE q \in p .. LastIn(s) : /\ CharIn(s, q) \in {"\n", NUL}
                                /\ \A r \in p .. q - 1 : CharIn(s, r) # "\n"

SkipStep(s, f, p) ==
  CASE CharIn(s, p) \in Blanks -> f[p + 1]
    [] BeginsIn(s, p, <<"/", "/">>) -> f[LineEndIn(s, p)]
    [] BeginsIn(s, p, <<"/", "*">>) -> f[EndsIn(s)[p + 2][1]]
    [] OTHER -> p

SkippedIn(s) == CHOOSE f : f = [p \in 1 .. LastIn(s) |-> SkipStep(s, f, p)]

LEMMA SameCommentEnd == CommentEnd = EndsIn(source)
  BY DEF CommentEnd, EndsIn, EndStep, LastIn, BeginsIn, CharIn, Begins, Char, End

LEMMA SameLineEnd == \A p : LineEnd(p) = LineEndIn(source, p)
  BY DEF LineEnd, LineEndIn, LastIn, CharIn, Char, End

LEMMA SameSkipped == Skipped = SkippedIn(source)
  BY SameCommentEnd, SameLineEnd
     DEF Skipped, SkippedIn, SkipStep, LastIn, BeginsIn, CharIn, Begins, Char, End

-----------------------------------------------------------------------------
(* The recursive definitions have a solution. *)
Comments(s, f) ==
  \A p \in 1 .. LastIn(s) + 1, d \in Nat : f[p][d] = EndStep(s, f, p, d)

LEMMA LastIsNat ==
  ASSUME NEW s \in Seq(STRING)
  PROVE  LastIn(s) \in Nat \ {0} /\ DOMAIN s = 1 .. LastIn(s) - 1 /\ Len(s) = LastIn(s) - 1
  BY DEF LastIn

LEMMA BeginsChars ==
  ASSUME NEW s, NEW p \in Int, NEW a, NEW b
  PROVE  BeginsIn(s, p, << a, b >>) <=> CharIn(s, p) = a /\ CharIn(s, p + 1) = b
<1>1. p + 1 - 1 = p /\ p + 2 - 1 = p + 1 /\ DOMAIN << a, b >> = {1, 2}
  OBVIOUS
<1> QED
  BY <1>1 DEF BeginsIn

LEMMA NothingAtEnd ==
  ASSUME NEW s \in Seq(STRING), NEW p \in Nat, p >= LastIn(s)
  PROVE  /\ CharIn(s, p) = NUL
         /\ ~BeginsIn(s, p, <<"/", "*">>) /\ ~BeginsIn(s, p, <<"*", "/">>)
         /\ ~BeginsIn(s, p, <<"/", "/">>)
<1>1. CharIn(s, p) = NUL
  BY LastIsNat DEF CharIn
<1> QED
  BY <1>1, BeginsChars DEF NUL

LEMMA EndStepAhead ==
  ASSUME NEW s \in Seq(STRING), NEW p \in 1 .. LastIn(s) + 1, NEW d \in Nat, NEW f, NEW g,
         \A q \in 1 .. LastIn(s) + 1, e \in Nat : p < q => f[q][e] = g[q][e]
  PROVE  EndStep(s, f, p, d) = EndStep(s, g, p, d)
<1>0. LastIn(s) \in Nat \ {0}
  BY LastIsNat
<1>1. CASE d = 0 \/ p >= LastIn(s)
  <2>1. d > 0 => ~BeginsIn(s, p, <<"/", "*">>) /\ ~BeginsIn(s, p, <<"*", "/">>)
    BY <1>1, NothingAtEnd
  <2> QED
    BY <1>1, <2>1 DEF EndStep
<1>2. CASE d > 0 /\ p < LastIn(s)
  <2>1. /\ p + 1 \in 1 .. LastIn(s) + 1 /\ p + 2 \in 1 .. LastIn(s) + 1 /\ p < p + 1 /\ p < p + 2
        /\ d + 1 \in Nat /\ d - 1 \in Nat
    BY <1>0, <1>2
  <2>2. f[p + 1][d] = g[p + 1][d] /\ f[p + 2][d + 1] = g[p + 2][d + 1]
        /\ f[p + 2][d - 1] = g[p + 2][d - 1]
    BY <2>1
  <2> QED
    BY <2>2 DEF EndStep
<1> QED
  BY <1>0, <1>1, <1>2

LEMMA CommentsEnd ==
  ASSUME NEW s \in Seq(STRING)
  PROVE  Comments(s, EndsIn(s))
<1> DEFINE Places == 1 .. LastIn(s) + 1
           Solves(f, n) == \A p \in Places, d \in Nat : p > LastIn(s) + 1 - n =>
                             f[p][d] = EndStep(s, f, p, d)
           S == {n \in Nat : \E f : Solves(f, n)}
<1>0. LastIn(s) \in Nat \ {0}
  BY LastIsNat
<1>1. 0 \in S
  <2>1. Solves(<<>>, 0)
    BY <1>0
  <2> QED
    BY <2>1
<1>2. ASSUME NEW n \in S PROVE n + 1 \in S
  <2>1. PICK f : Solves(f, n)
    OBVIOUS
  <2> DEFINE e == [p \in Places |-> [d \in Nat |->
                     IF p = LastIn(s) + 1 - n THEN EndStep(s, f, p, d) ELSE f[p][d]]]
  <2>2. \A p \in Places, d \in Nat :
          e[p][d] = IF p = LastIn(s) + 1 - n THEN EndStep(s, f, p, d) ELSE f[p][d]
    OBVIOUS
  <2> HIDE DEF e
  <2>3. Solves(e, n + 1)
    <3> SUFFICES ASSUME NEW p \in Places, NEW d \in Nat, p > LastIn(s) + 1 - (n + 1)
                 PROVE  e[p][d] = EndStep(s, e, p, d)
      OBVIOUS
    <3>1. p >= LastIn(s) + 1 - n
      BY <1>0
    <3>2. \A q \in Places, x \in Nat : p < q => f[q][x] = e[q][x]
      BY <1>0, <2>2, <3>1
    <3>3. EndStep(s, f, p, d) = EndStep(s, e, p, d)
      BY <1>0, <3>2, EndStepAhead
    <3>4. CASE p = LastIn(s) + 1 - n
      BY <2>2, <3>3, <3>4
    <3>5. CASE p > LastIn(s) + 1 - n
      BY <2>1, <2>2, <3>3, <3>5
    <3> QED
      BY <1>0, <3>1, <3>4, <3>5
  <2>4. n + 1 \in Nat
    OBVIOUS
  <2> HIDE DEF Solves
  <2> QED
    BY <2>3, <2>4
<1>3. S = Nat
  <2>1. S \in SUBSET Nat
    OBVIOUS
  <2> HIDE DEF S
  <2> QED
    BY <1>1, <1>2, <2>1, SetInduction
<1>4. PICK f : Solves(f, LastIn(s) + 1)
  BY <1>0, <1>3, SMTT(20)
<1> DEFINE g == [p \in Places |-> [d \in Nat |-> f[p][d]]]
<1>5. \A p \in Places, d \in Nat : g[p][d] = f[p][d]
  OBVIOUS
<1>6. \A p \in Places, d \in Nat : f[p][d] = EndStep(s, g, p, d)
  <2> HIDE DEF g
  <2> SUFFICES ASSUME NEW p \in Places, NEW d \in Nat PROVE f[p][d] = EndStep(s, g, p, d)
    OBVIOUS
  <2>1. f[p][d] = EndStep(s, f, p, d)
    BY <1>0, <1>4
  <2>2. \A q \in Places, x \in Nat : p < q => f[q][x] = g[q][x]
    BY <1>5
  <2>3. EndStep(s, f, p, d) = EndStep(s, g, p, d)
    BY ONLY s \in Seq(STRING), p \in Places, d \in Nat, <2>2, EndStepAhead
  <2> QED
    BY <2>1, <2>3
<1> DEFINE Is(h) == h = [p \in Places |-> [d \in Nat |-> EndStep(s, h, p, d)]]
<1>7. Is(g)
  <2>1. PICK h : h = g
    OBVIOUS
  <2>2. \A p \in Places, d \in Nat : f[p][d] = EndStep(s, h, p, d)
    BY <1>6, <2>1
  <2>3. h = [p \in Places |-> [d \in Nat |-> f[p][d]]]
    BY <2>1
  <2> HIDE DEF g
  <2>4. h = [p \in Places |-> [d \in Nat |-> EndStep(s, h, p, d)]]
    BY <2>2, <2>3
  <2> QED
    BY <2>1, <2>4
<1> DEFINE k == CHOOSE h : Is(h)
<1>8. Is(k)
  <2> HIDE DEF Is, g
  <2> QED
    BY <1>7
<1>9. k = EndsIn(s)
  BY <1>0 DEF EndsIn
<1> HIDE DEF k
<1>10. \A p \in Places, d \in Nat : k[p][d] = EndStep(s, k, p, d)
  <2> SUFFICES ASSUME NEW p \in Places, NEW d \in Nat PROVE k[p][d] = EndStep(s, k, p, d)
    OBVIOUS
  <2>1. k[p] = [x \in Nat |-> EndStep(s, k, p, x)]
    BY <1>8
  <2> QED
    BY <2>1
<1> QED
  BY <1>0, <1>9, <1>10 DEF Comments

\* A comment ends after where it was entered, and within the source.
LEMMA CommentRange ==
  ASSUME NEW s \in Seq(STRING), NEW f, Comments(s, f), NEW p \in 1 .. LastIn(s), NEW d \in Nat
  PROVE  f[p][d] \in p .. LastIn(s)
<1> DEFINE Places == 1 .. LastIn(s)
           Within(q) == \A x \in Nat : f[q][x] \in q .. LastIn(s)
           S == {n \in Nat : \A q \in Places : q >= LastIn(s) - n => Within(q)}
<1>0. LastIn(s) \in Nat \ {0}
  BY LastIsNat
<1>1. ASSUME NEW q \in Places, \A r \in Places : r > q => Within(r)
      PROVE  Within(q)
  <2> SUFFICES ASSUME NEW x \in Nat PROVE f[q][x] \in q .. LastIn(s)
    OBVIOUS
  <2>1. f[q][x] = EndStep(s, f, q, x)
    BY <1>0 DEF Comments
  <2>2. CASE x = 0
    BY <1>0, <2>1, <2>2 DEF EndStep
  <2>3. CASE x > 0 /\ q >= LastIn(s)
    BY <1>0, <2>1, <2>3, NothingAtEnd DEF EndStep
  <2>4. CASE x > 0 /\ q < LastIn(s)
    <3>1. q + 1 \in Places /\ q + 1 > q /\ x - 1 \in Nat /\ x + 1 \in Nat
      BY <1>0, <2>4
    <3>2. f[q + 1][x] \in q .. LastIn(s)
      BY <1>0, <1>1, <3>1
    <3>3. CASE BeginsIn(s, q, <<"/", "*">>) \/ BeginsIn(s, q, <<"*", "/">>)
      <4>1. CharIn(s, q + 1) # NUL
        BY <3>3, BeginsChars DEF NUL
      <4>2. q + 1 < LastIn(s)
        BY <1>0, <3>1, <4>1, NothingAtEnd
      <4>3. q + 2 \in Places /\ q + 2 > q
        BY <1>0, <4>2
      <4>4. f[q + 2][x + 1] \in q .. LastIn(s) /\ f[q + 2][x - 1] \in q .. LastIn(s)
        BY <1>0, <1>1, <3>1, <4>3
      <4> QED
        BY <1>0, <2>1, <2>4, <3>3, <4>4 DEF EndStep
    <3>4. CASE ~BeginsIn(s, q, <<"/", "*">>) /\ ~BeginsIn(s, q, <<"*", "/">>)
      BY <1>0, <2>1, <2>4, <3>2, <3>4 DEF EndStep
    <3> QED
      BY <3>3, <3>4
  <2> QED
    BY <1>0, <2>2, <2>3, <2>4
<1> HIDE DEF Within
<1>2. 0 \in S
  BY <1>0, <1>1
<1>3. ASSUME NEW n \in S PROVE n + 1 \in S
  <2>1. ASSUME NEW q \in Places, q >= LastIn(s) - (n + 1) PROVE Within(q)
    <3>1. \A r \in Places : r > q => Within(r)
      BY <1>0, <2>1
    <3> QED
      BY <1>1, <3>1
  <2> QED
    BY <2>1
<1>4. S = Nat
  <2>1. S \in SUBSET Nat
    OBVIOUS
  <2> HIDE DEF S
  <2> QED
    BY <1>2, <1>3, <2>1, SetInduction
<1>5. LastIn(s) \in S /\ p >= LastIn(s) - LastIn(s)
  BY <1>0, <1>4
<1>6. Within(p)
  BY <1>5
<1> QED
  BY <1>6 DEF Within

\* q is where the line from p on ends.
EndsLine(s, p, q) ==
  /\ q \in p .. LastIn(s)
  /\ CharIn(s, q) \in {"\n", NUL}
  /\ \A r \in p .. q - 1 : CharIn(s, r) # "\n"

LEMMA LineEnds ==
  ASSUME NEW s \in Seq(STRING), NEW p \in 1 .. LastIn(s)
  PROVE  EndsLine(s, p, LineEndIn(s, p))
<1> DEFINE Places == 1 .. LastIn(s)
           Has(q) == \E x : EndsLine(s, q, x)
           S == {n \in Nat : \A q \in Places : q >= LastIn(s) - n => Has(q)}
<1>0. LastIn(s) \in Nat \ {0}
  BY LastIsNat
<1>1. ASSUME NEW q \in Places, \A r \in Places : r > q => Has(r)
      PROVE  Has(q)
  <2>1. CASE CharIn(s, q) \in {"\n", NUL}
    <3>1. EndsLine(s, q, q)
      BY <1>0, <2>1 DEF EndsLine
    <3> QED
      BY <3>1
  <2>2. CASE CharIn(s, q) \notin {"\n", NUL}
    <3>1. q < LastIn(s)
      BY <1>0, <2>2, NothingAtEnd
    <3>2. q + 1 \in Places /\ q + 1 > q
      BY <1>0, <3>1
    <3>3. PICK x : EndsLine(s, q + 1, x)
      BY <1>1, <3>2
    <3>4. x \in q .. LastIn(s) /\ \A r \in q .. x - 1 : r = q \/ r \in q + 1 .. x - 1
      BY <1>0, <3>2, <3>3 DEF EndsLine
    <3>5. EndsLine(s, q, x)
      BY <2>2, <3>3, <3>4 DEF EndsLine
    <3> QED
      BY <3>5
  <2> QED
    BY <2>1, <2>2
<1> HIDE DEF Has
<1>2. 0 \in S
  BY <1>0, <1>1
<1>3. ASSUME NEW n \in S PROVE n + 1 \in S
  <2>1. ASSUME NEW q \in Places, q >= LastIn(s) - (n + 1) PROVE Has(q)
    <3>1. \A r \in Places : r > q => Has(r)
      BY <1>0, <2>1
    <3> QED
      BY <1>1, <3>1
  <2> QED
    BY <2>1
<1>4. S = Nat
  <2>1. S \in SUBSET Nat
    OBVIOUS
  <2> HIDE DEF S
  <2> QED
    BY <1>2, <1>3, <2>1, SetInduction
<1>5. LastIn(s) \in S /\ p >= LastIn(s) - LastIn(s)
  BY <1>0, <1>4
<1>6. Has(p)
  BY <1>5
<1> QED
  BY <1>6 DEF Has, EndsLine, LineEndIn

Skips(s, f) == \A p \in 1 .. LastIn(s) : f[p] = SkipStep(s, f, p)

LEMMA BlankChars ==
  ASSUME NEW s \in Seq(STRING), NEW p \in 1 .. LastIn(s), CharIn(s, p) \in Blanks
  PROVE  /\ p < LastIn(s)
         /\ ~BeginsIn(s, p, <<"/", "/">>) /\ ~BeginsIn(s, p, <<"/", "*">>)
<1>1. LastIn(s) \in Nat /\ p \in Nat
  BY LastIsNat
<1>2. CharIn(s, p) # NUL /\ CharIn(s, p) # "/"
  BY DEF Blanks, NUL
<1> QED
  BY <1>1, <1>2, NothingAtEnd, BeginsChars

LEMMA SkipStepAhead ==
  ASSUME NEW s \in Seq(STRING), NEW p \in 1 .. LastIn(s), NEW f, NEW g,
         \A q \in 1 .. LastIn(s) : p < q => f[q] = g[q]
  PROVE  SkipStep(s, f, p) = SkipStep(s, g, p)
<1> DEFINE Places == 1 .. LastIn(s)
           ends == EndsIn(s)[p + 2][1]
           end  == LineEndIn(s, p)
<1>0. LastIn(s) \in Nat \ {0}
  BY LastIsNat
<1>1. CASE CharIn(s, p) \in Blanks
  <2>1. p < LastIn(s)
    BY <1>1, BlankChars
  <2>2. p + 1 \in Places /\ p < p + 1
    BY <1>0, <2>1
  <2>3. f[p + 1] = g[p + 1]
    BY <2>2
  <2>4. SkipStep(s, f, p) = f[p + 1] /\ SkipStep(s, g, p) = g[p + 1]
    BY <1>1, BlankChars DEF SkipStep
  <2> QED
    BY <2>3, <2>4
<1>2. CASE BeginsIn(s, p, <<"/", "/">>)
  <2>1. CharIn(s, p) = "/" /\ CharIn(s, p + 1) = "/"
    BY <1>2, BeginsChars
  <2>2. EndsLine(s, p, end)
    BY LineEnds
  <2>3. end \in Places /\ p < end
    BY <1>0, <2>1, <2>2 DEF EndsLine, NUL
  <2>4. f[end] = g[end]
    BY <2>3
  <2>5. ~BeginsIn(s, p, <<"/", "*">>) /\ CharIn(s, p) \notin Blanks
    BY <2>1, BeginsChars DEF Blanks
  <2> QED
    BY <1>2, <2>4, <2>5 DEF SkipStep
<1>3. CASE BeginsIn(s, p, <<"/", "*">>)
  <2>1. CharIn(s, p) = "/" /\ CharIn(s, p + 1) = "*"
    BY <1>3, BeginsChars
  <2>2. p + 1 < LastIn(s)
    BY <1>0, <2>1, NothingAtEnd DEF NUL
  <2>3. p + 2 \in Places /\ 1 \in Nat
    BY <1>0, <2>2
  <2>4. ends \in p + 2 .. LastIn(s)
    BY <2>3, CommentsEnd, CommentRange
  <2> HIDE DEF ends
  <2>5. ends \in Places /\ p < ends
    BY <1>0, <2>4
  <2>6. f[ends] = g[ends]
    BY <2>5
  <2>7. ~BeginsIn(s, p, <<"/", "/">>) /\ CharIn(s, p) \notin Blanks
    BY <2>1, BeginsChars DEF Blanks
  <2> QED
    BY <1>3, <2>6, <2>7 DEF SkipStep, ends
<1>4. CASE /\ CharIn(s, p) \notin Blanks
           /\ ~BeginsIn(s, p, <<"/", "/">>) /\ ~BeginsIn(s, p, <<"/", "*">>)
  BY <1>4 DEF SkipStep
<1> QED
  BY <1>1, <1>2, <1>3, <1>4

LEMMA SkipsAll ==
  ASSUME NEW s \in Seq(STRING)
  PROVE  Skips(s, SkippedIn(s))
<1> DEFINE Places == 1 .. LastIn(s)
           Solves(f, n) == \A p \in Places : p > LastIn(s) - n => f[p] = SkipStep(s, f, p)
           S == {n \in Nat : \E f : Solves(f, n)}
<1>0. LastIn(s) \in Nat \ {0}
  BY LastIsNat
<1>1. 0 \in S
  <2>1. Solves(<<>>, 0)
    BY <1>0
  <2> QED
    BY <2>1
<1>2. ASSUME NEW n \in S PROVE n + 1 \in S
  <2>1. PICK f : Solves(f, n)
    OBVIOUS
  <2> DEFINE e == [p \in Places |-> IF p = LastIn(s) - n THEN SkipStep(s, f, p) ELSE f[p]]
  <2>2. \A p \in Places : e[p] = IF p = LastIn(s) - n THEN SkipStep(s, f, p) ELSE f[p]
    OBVIOUS
  <2> HIDE DEF e
  <2>3. Solves(e, n + 1)
    <3> SUFFICES ASSUME NEW p \in Places, p > LastIn(s) - (n + 1)
                 PROVE  e[p] = SkipStep(s, e, p)
      OBVIOUS
    <3>1. p >= LastIn(s) - n
      BY <1>0
    <3>2. \A q \in Places : p < q => f[q] = e[q]
      BY <1>0, <2>2, <3>1
    <3>3. SkipStep(s, f, p) = SkipStep(s, e, p)
      BY <3>2, SkipStepAhead
    <3>4. CASE p = LastIn(s) - n
      BY <2>2, <3>3, <3>4
    <3>5. CASE p > LastIn(s) - n
      BY <2>1, <2>2, <3>3, <3>5
    <3> QED
      BY <1>0, <3>1, <3>4, <3>5
  <2>4. n + 1 \in Nat
    OBVIOUS
  <2> HIDE DEF Solves
  <2> QED
    BY <2>3, <2>4
<1>3. S = Nat
  <2>1. S \in SUBSET Nat
    OBVIOUS
  <2> HIDE DEF S
  <2> QED
    BY <1>1, <1>2, <2>1, SetInduction
<1>4. PICK f : Solves(f, LastIn(s))
  BY <1>0, <1>3
<1> DEFINE g == [p \in Places |-> f[p]]
<1>5. \A p \in Places : g[p] = f[p]
  OBVIOUS
<1>6. \A p \in Places : f[p] = SkipStep(s, g, p)
  <2> HIDE DEF g
  <2> SUFFICES ASSUME NEW p \in Places PROVE f[p] = SkipStep(s, g, p)
    OBVIOUS
  <2>1. f[p] = SkipStep(s, f, p)
    BY <1>0, <1>4
  <2>2. \A q \in Places : p < q => f[q] = g[q]
    BY <1>5
  <2>3. SkipStep(s, f, p) = SkipStep(s, g, p)
    BY <2>2, SkipStepAhead
  <2> QED
    BY <2>1, <2>3
<1> DEFINE Is(h) == h = [p \in Places |-> SkipStep(s, h, p)]
<1>7. Is(g)
  <2>1. PICK h : h = g
    OBVIOUS
  <2>2. \A p \in Places : f[p] = SkipStep(s, h, p)
    BY <1>6, <2>1
  <2>3. h = [p \in Places |-> f[p]]
    BY <2>1
  <2> HIDE DEF g
  <2>4. h = [p \in Places |-> SkipStep(s, h, p)]
    BY <2>2, <2>3
  <2> QED
    BY <2>1, <2>4
<1> DEFINE k == CHOOSE h : Is(h)
<1>8. Is(k)
  <2> HIDE DEF Is, g
  <2> QED
    BY <1>7
<1>9. k = SkippedIn(s)
  BY DEF SkippedIn
<1> HIDE DEF k
<1>10. \A p \in Places : k[p] = SkipStep(s, k, p)
  BY <1>8
<1> QED
  BY <1>9, <1>10 DEF Skips

-----------------------------------------------------------------------------
(* What is skipped from a place p on, by what is there. *)
LEMMA SkipsBlank ==
  ASSUME NEW s \in Seq(STRING), NEW p \in 1 .. LastIn(s), CharIn(s, p) \in Blanks
  PROVE  SkippedIn(s)[p] = SkippedIn(s)[p + 1]
  BY SkipsAll, BlankChars DEF Skips, SkipStep

LEMMA SkipsLine ==
  ASSUME NEW s \in Seq(STRING), NEW p \in 1 .. LastIn(s), BeginsIn(s, p, <<"/", "/">>)
  PROVE  SkippedIn(s)[p] = SkippedIn(s)[LineEndIn(s, p)]
<1>1. CharIn(s, p) = "/" /\ CharIn(s, p + 1) = "/" /\ ~BeginsIn(s, p, <<"/", "*">>)
  BY BeginsChars
<1> QED
  BY <1>1, SkipsAll DEF Skips, SkipStep, Blanks

LEMMA SkipsComment ==
  ASSUME NEW s \in Seq(STRING), NEW p \in 1 .. LastIn(s), BeginsIn(s, p, <<"/", "*">>)
  PROVE  SkippedIn(s)[p] = SkippedIn(s)[EndsIn(s)[p + 2][1]]
<1>1. CharIn(s, p) = "/" /\ CharIn(s, p + 1) = "*" /\ ~BeginsIn(s, p, <<"/", "/">>)
  BY BeginsChars
<1> QED
  BY <1>1, SkipsAll DEF Skips, SkipStep, Blanks

LEMMA SkipsNothing ==
  ASSUME NEW s \in Seq(STRING), NEW p \in 1 .. LastIn(s), CharIn(s, p) \notin Blanks,
         ~BeginsIn(s, p, <<"/", "/">>), ~BeginsIn(s, p, <<"/", "*">>)
  PROVE  SkippedIn(s)[p] = p
  BY SkipsAll DEF Skips, SkipStep

-----------------------------------------------------------------------------
\* Where the last token ended.
Ended(ts) == IF ts = <<>> THEN 1 ELSE ts[Len(ts)].to

(* What remains to be skipped at place c with the function n at work, when the
   next token begins at x. *)
Remains(s, c, n, x) ==
  /\ n.in = "lex" => x = SkippedIn(s)[c.position]
  /\ n.in = "line_comment" => x = SkippedIn(s)[LineEndIn(s, c.position)]
  /\ n.in = "block_comment" =>
       n.nesting \in Nat /\ x = SkippedIn(s)[EndsIn(s)[c.position][n.nesting]]
  /\ n.in \in Scanners => x = n.start

\* Each token begins where the text after the one before it stops to be skipped.
Follow(s, ts) ==
  \A k \in DOMAIN ts : ts[k].from = SkippedIn(s)[IF k = 1 THEN 1 ELSE ts[k - 1].to]

ClosedIn(s) == \E p \in DOMAIN s : BeginsIn(s, p, <<"/", "*", "/">>)

Expected == SkippedIn(source)[Ended(tokens)]

Skipping ==
  /\ \A p \in DOMAIN source : source[p] # NUL
  /\ ~ClosedIn(source) => Follow(source, tokens) /\ Remains(source, lexer, scan, Expected)

LEMMA MoveSkips ==
  ASSUME Skipping, NEW c, NEW next, Move(c, next),
         ~ClosedIn(source) => Remains(source, c, next, Expected)
  PROVE  Skipping'
<1>1. /\ source' = source /\ tokens' = tokens /\ lexer' = c /\ scan' = next
  BY DEF Move
<1>2. Expected' = Expected
  BY <1>1 DEF Expected
<1> QED
  BY <1>1, <1>2 DEF Skipping

LEMMA ReturnSkips ==
  ASSUME LInv, Skipping, NEW type, NEW from, NEW at, NEW c, Return(type, from, at, c),
         ~ClosedIn(source) => from = Expected
  PROVE  Skipping'
<1> DEFINE token == [type |-> type, from |-> from, to |-> c.position,
                     line |-> at.line, column |-> at.column]
<1>1. source' = source /\ lexer' = c /\ tokens' = Append(tokens, token)
  BY DEF Return, token_list_add
<1>2. scan'.in \in {"lex", "done"}
  BY DEF Return, Idle
<1>3. tokens \in Seq(Token)
  BY DEF LInv
<1>4. token.from = from /\ token.to = c.position
  OBVIOUS
<1> HIDE DEF token
<1>5. /\ DOMAIN tokens' = 1 .. Len(tokens) + 1 /\ DOMAIN tokens = 1 .. Len(tokens)
      /\ tokens'[Len(tokens) + 1] = token /\ Len(tokens) \in Nat
      /\ Len(tokens') = Len(tokens) + 1 /\ tokens' # <<>>
      /\ \A k \in DOMAIN tokens : tokens'[k] = tokens[k]
      /\ tokens = <<>> <=> Len(tokens) = 0
  BY <1>1, <1>3
<1>6. Ended(tokens') = c.position
  BY <1>4, <1>5 DEF Ended
<1>7. ASSUME ~ClosedIn(source)
      PROVE  Follow(source, tokens') /\ Remains(source, lexer', scan', SkippedIn(source)[Ended(tokens')])
  <2>1. from = SkippedIn(source)[Ended(tokens)] /\ Follow(source, tokens)
    BY <1>7 DEF Skipping, Expected
  <2>2. ASSUME NEW k \in DOMAIN tokens'
        PROVE  tokens'[k].from = SkippedIn(source)[IF k = 1 THEN 1 ELSE tokens'[k - 1].to]
    <3>1. CASE k \in DOMAIN tokens
      <4>1. k # 1 => k - 1 \in DOMAIN tokens
        BY <1>5, <3>1
      <4> QED
        BY <1>5, <2>1, <3>1, <4>1 DEF Follow
    <3>2. CASE k = Len(tokens) + 1
      <4>1. CASE k = 1
        BY <1>4, <1>5, <2>1, <3>2, <4>1 DEF Ended
      <4>2. CASE k # 1
        <5>1. k - 1 = Len(tokens) /\ Len(tokens) \in DOMAIN tokens /\ tokens # <<>>
          BY <1>5, <3>2, <4>2
        <5>2. Ended(tokens) = tokens'[k - 1].to
          BY <1>5, <5>1 DEF Ended
        <5> QED
          BY <1>4, <1>5, <2>1, <3>2, <4>2, <5>2
      <4> QED
        BY <4>1, <4>2
    <3> QED
      BY <1>5, <3>1, <3>2
  <2>3. Remains(source, c, scan', SkippedIn(source)[c.position])
    BY <1>2 DEF Remains, Scanners
  <2> QED
    BY <1>1, <1>6, <2>2, <2>3 DEF Follow
<1> QED
  BY <1>1, <1>7 DEF Skipping, Expected

\* The characters at the lexer's place.
LEMMA CharsHere ==
  ASSUME LInv
  PROVE  /\ source \in Seq(STRING) /\ LastIn(source) \in Nat
         /\ lexer.position \in 1 .. LastIn(source) /\ lexer.position \in Nat \ {0}
         /\ \A p : Char(p) = CharIn(source, p)
         /\ \A p, t : Begins(p, t) <=> BeginsIn(source, p, t)
         /\ current = CharIn(source, lexer.position)
<1>1. source \in Seq(STRING) /\ lexer.position \in 1 .. End
  BY PlaceNow DEF LInv
<1>2. End = LastIn(source)
  BY DEF End, LastIn
<1>3. \A p : Char(p) = CharIn(source, p)
  BY DEF Char, CharIn
<1> QED
  BY <1>1, <1>2, <1>3, LastIsNat DEF Begins, BeginsIn, current

LEMMA AdvancedPosition ==
  ASSUME LInv, NEW c, c.position \in 1 .. LastIn(source)
  PROVE  lexer_advance(c).position = IF c.position < LastIn(source) THEN c.position + 1
                                                                    ELSE c.position
<1>1. DOMAIN source = 1 .. LastIn(source) - 1 /\ LastIn(source) \in Nat
  BY LastIsNat DEF LInv
<1> QED
  BY <1>1 DEF lexer_advance

\* Only the end of the source is NUL.
LEMMA EndOfSource ==
  ASSUME LInv, Skipping, NEW p \in 1 .. LastIn(source), CharIn(source, p) = NUL
  PROVE  p = LastIn(source)
<1>1. DOMAIN source = 1 .. LastIn(source) - 1 /\ LastIn(source) \in Nat
  BY LastIsNat DEF LInv
<1> QED
  BY <1>1 DEF Skipping, CharIn

LEMMA OneLineEnd ==
  ASSUME LInv, Skipping, NEW p \in Nat \ {0}, NEW q, NEW r, EndsLine(source, p, q), EndsLine(source, p, r)
  PROVE  q = r
<1>1. LastIn(source) \in Nat /\ q \in Nat /\ r \in Nat /\ p <= q /\ p <= r
      /\ q <= LastIn(source) /\ r <= LastIn(source)
  BY LastIsNat DEF EndsLine, LInv
<1>2. ASSUME NEW x \in Nat, NEW y \in Nat, EndsLine(source, p, x), EndsLine(source, p, y), x < y
      PROVE  FALSE
  <2>1. x \in p .. y - 1 /\ x < LastIn(source) /\ y <= LastIn(source)
    BY <1>1, <1>2 DEF EndsLine
  <2>2. CharIn(source, x) = NUL
    BY <1>2, <2>1 DEF EndsLine
  <2>3. x \in DOMAIN source
    BY <1>1, <1>2, <2>1, LastIsNat DEF LInv
  <2>4. x \in DOMAIN source => CharIn(source, x) # NUL
    BY DEF CharIn, Skipping
  <2> QED
    BY <2>2, <2>3, <2>4
<1> QED
  BY <1>1, <1>2

-----------------------------------------------------------------------------
LEMMA BlanksSkip ==
  ASSUME LInv, Skipping, skip_whitespace
  PROVE  Skipping'
<1> DEFINE p == lexer.position
           c == lexer_advance(lexer)
<1>1. /\ source \in Seq(STRING) /\ p \in 1 .. LastIn(source) /\ CharIn(source, p) \in Blanks
      /\ scan.in = "lex"
  BY CharsHere DEF skip_whitespace, In
<1>2. c.position = p + 1
  BY <1>1, AdvancedPosition, BlankChars
<1>3. ~ClosedIn(source) => Remains(source, c, scan, Expected)
  BY <1>1, <1>2, SkipsBlank DEF Skipping, Remains, Scanners
<1>4. Move(c, scan)
  BY DEF skip_whitespace, Continue
<1> HIDE DEF c
<1> QED
  BY <1>3, <1>4, MoveSkips

LEMMA LineCommentsSkip ==
  ASSUME LInv, Skipping, skip_line_comment
  PROVE  Skipping'
<1> DEFINE p == lexer.position
           c == lexer_advance(lexer)
<1>1. /\ source \in Seq(STRING) /\ p \in 1 .. LastIn(source) /\ p \in Nat \ {0}
      /\ LastIn(source) \in Nat /\ current = CharIn(source, p)
  BY CharsHere
<1>2. EndsLine(source, p, LineEndIn(source, p))
  BY <1>1, LineEnds
<1>3. CASE In("lex") /\ Begins(p, <<"/", "/">>) /\ Enter("line_comment")
  <2> DEFINE next == [scan EXCEPT !.in = "line_comment"]
  <2>1. scan \in [in : {"lex", "line_comment", "done"}] /\ scan.in = "lex"
    BY <1>3 DEF LInv, Scans, In, Scanners
  <2>2. next.in = "line_comment"
    BY <2>1
  <2>3. Move(lexer, next)
    BY <1>3 DEF Enter
  <2> HIDE DEF next
  <2>4. ~ClosedIn(source) => Remains(source, lexer, next, Expected)
    BY <1>1, <1>3, <2>1, <2>2, CharsHere, SkipsLine DEF Skipping, Remains, Scanners
  <2> QED
    BY <2>3, <2>4, MoveSkips
<1>4. CASE In("line_comment") /\ current \in {"\n", NUL} /\ Move(lexer, Idle)
  <2>1. EndsLine(source, p, p)
    BY <1>1, <1>4 DEF EndsLine
  <2>2. LineEndIn(source, p) = p
    BY <1>1, <1>2, <2>1, OneLineEnd
  <2>3. ~ClosedIn(source) => Remains(source, lexer, Idle, Expected)
    BY <1>4, <2>2 DEF Skipping, Remains, Scanners, In, Idle
  <2> QED
    BY <1>4, <2>3, MoveSkips
<1>5. CASE In("line_comment") /\ current \notin {"\n", NUL} /\ Continue
  <2>1. p # LastIn(source)
    BY <1>1, <1>5, NothingAtEnd
  <2>2. c.position = p + 1 /\ p + 1 \in 1 .. LastIn(source) /\ p + 1 \in Nat \ {0}
    BY <1>1, <2>1, AdvancedPosition
  <2>3. EndsLine(source, p + 1, LineEndIn(source, p))
    BY <1>1, <1>2, <1>5 DEF EndsLine
  <2>4. EndsLine(source, p + 1, LineEndIn(source, p + 1))
    BY <1>1, <2>2, LineEnds
  <2>5. LineEndIn(source, p) = LineEndIn(source, p + 1)
    BY <2>2, <2>3, <2>4, OneLineEnd
  <2>6. ~ClosedIn(source) => Remains(source, c, scan, Expected)
    BY <1>5, <2>2, <2>5 DEF Skipping, Remains, Scanners, In
  <2>7. Move(c, scan)
    BY <1>5 DEF Continue
  <2> HIDE DEF c
  <2> QED
    BY <2>6, <2>7, MoveSkips
<1> QED
  BY <1>3, <1>4, <1>5, Zenon DEF skip_line_comment

\* The asterisk that opens a comment closes nothing.
LEMMA CommentEntered ==
  ASSUME LInv, ~ClosedIn(source), NEW p \in 1 .. LastIn(source),
         BeginsIn(source, p, <<"/", "*">>)
  PROVE  /\ p + 1 < LastIn(source)
         /\ EndsIn(source)[p + 1][1] = EndsIn(source)[p + 2][1]
<1> DEFINE s == source
<1>1. s \in Seq(STRING) /\ LastIn(s) \in Nat \ {0} /\ p \in Nat /\ DOMAIN s = 1 .. LastIn(s) - 1
  BY LastIsNat DEF LInv
<1>2. CharIn(s, p) = "/" /\ CharIn(s, p + 1) = "*"
  BY <1>1, BeginsChars
<1>3. p + 1 < LastIn(s)
  BY <1>1, <1>2, NothingAtEnd DEF NUL
<1>4. CharIn(s, p + 2) # "/"
  <2>1. SUFFICES ASSUME CharIn(s, p + 2) = "/" PROVE FALSE
    OBVIOUS
  <2>2. /\ DOMAIN <<"/", "*", "/">> = {1, 2, 3}
        /\ p + 1 - 1 = p /\ p + 2 - 1 = p + 1 /\ p + 3 - 1 = p + 2
    BY <1>1
  <2>3. BeginsIn(s, p, <<"/", "*", "/">>)
    BY <1>2, <2>1, <2>2 DEF BeginsIn
  <2> QED
    BY <1>1, <1>3, <2>3 DEF ClosedIn
<1>5. ~BeginsIn(s, p + 1, <<"/", "*">>) /\ ~BeginsIn(s, p + 1, <<"*", "/">>)
  <2>1. p + 1 \in Int /\ (p + 1) + 1 = p + 2
    BY <1>1
  <2> QED
    BY <1>2, <1>4, <2>1, BeginsChars
<1>6. EndsIn(s)[p + 1][1] = EndStep(s, EndsIn(s), p + 1, 1)
  BY <1>1, <1>3, CommentsEnd DEF Comments
<1>7. (p + 1) + 1 = p + 2
  BY <1>1
<1> QED
  BY <1>1, <1>3, <1>5, <1>6, <1>7 DEF EndStep

LEMMA BlockCommentsSkip ==
  ASSUME LInv, Skipping, skip_block_comment
  PROVE  Skipping'
<1> DEFINE p == lexer.position
           d == scan.nesting
           one == lexer_advance(lexer)
           pair == lexer_advance(one)
           ends == EndsIn(source)
<1>1. /\ source \in Seq(STRING) /\ p \in 1 .. LastIn(source) /\ p \in Nat \ {0}
      /\ LastIn(source) \in Nat /\ current = CharIn(source, p)
      /\ \A t : Begins(p, t) <=> BeginsIn(source, p, t)
  BY CharsHere
<1>2. CASE /\ In("lex") /\ Begins(p, <<"/", "*">>)
           /\ Move(one, [in |-> "block_comment", nesting |-> 1])
  <2> DEFINE next == [in |-> "block_comment", nesting |-> 1]
  <2>1. next.in = "block_comment" /\ next.nesting = 1 /\ Move(one, next)
    BY <1>2
  <2>2. scan.in = "lex" /\ "block_comment" \notin Scanners
    BY <1>2 DEF In, Scanners
  <2> HIDE DEF next
  <2>3. ASSUME ~ClosedIn(source) PROVE Remains(source, one, next, Expected)
    <3>1. p + 1 < LastIn(source) /\ ends[p + 1][1] = ends[p + 2][1]
      BY <1>1, <1>2, <2>3, CommentEntered
    <3>2. one.position = p + 1
      BY <1>1, <3>1, AdvancedPosition
    <3>3. Expected = SkippedIn(source)[ends[p + 2][1]]
      BY <1>1, <1>2, <2>2, <2>3, SkipsComment DEF Skipping, Remains
    <3> QED
      BY <2>1, <2>2, <3>1, <3>2, <3>3 DEF Remains
  <2> QED
    BY <2>1, <2>3, MoveSkips
<1>3. CASE In("block_comment")
  <2>1. scan \in [in : {"block_comment"}, nesting : Int] /\ scan.in = "block_comment"
    BY <1>3 DEF LInv, Scans, In, Scanners
  <2>2. ~ClosedIn(source) =>
          /\ d \in Nat /\ Expected = SkippedIn(source)[ends[p][d]]
          /\ ends[p][d] = EndStep(source, ends, p, d)
    <3>1. p \in 1 .. LastIn(source) + 1
      BY <1>1
    <3> QED
      BY <1>1, <2>1, <3>1, CommentsEnd DEF Skipping, Remains, Comments
  <2>3. CASE (d = 0 \/ current = NUL) /\ Move(lexer, Idle)
    <3>1. ASSUME ~ClosedIn(source) PROVE ends[p][d] = p
      <4>1. CASE d = 0
        BY <2>2, <3>1, <4>1 DEF EndStep
      <4>2. CASE d # 0
        <5>1. p = LastIn(source)
          BY <1>1, <2>3, <4>2, EndOfSource
        <5>2. ~BeginsIn(source, p, <<"/", "*">>) /\ ~BeginsIn(source, p, <<"*", "/">>)
          BY <1>1, <5>1, NothingAtEnd
        <5> QED
          BY <1>1, <2>2, <3>1, <4>2, <5>1, <5>2 DEF EndStep
      <4> QED
        BY <4>1, <4>2
    <3>2. ~ClosedIn(source) => Remains(source, lexer, Idle, Expected)
      BY <2>2, <3>1 DEF Remains, Idle, Scanners
    <3> QED
      BY <2>3, <3>2, MoveSkips
  <2>4. CASE d # 0 /\ current # NUL
    <3>1. p < LastIn(source)
      BY <1>1, <2>4, NothingAtEnd
    <3>2. one.position = p + 1 /\ p + 1 \in 1 .. LastIn(source)
      BY <1>1, <3>1, AdvancedPosition
    <3>3. ASSUME CharIn(source, p + 1) # NUL PROVE pair.position = p + 2
      <4>1. p + 1 < LastIn(source)
        BY <1>1, <3>1, <3>3, NothingAtEnd
      <4> HIDE DEF one
      <4> QED
        BY <1>1, <3>2, <4>1, AdvancedPosition
    <3>4. CASE Begins(p, <<"/", "*">>) /\ Move(pair, [scan EXCEPT !.nesting = @ + 1])
      <4> DEFINE next == [scan EXCEPT !.nesting = @ + 1]
      <4>1. next.in = "block_comment" /\ next.nesting = d + 1
        BY <2>1
      <4>2. /\ BeginsIn(source, p, <<"/", "*">>) /\ ~BeginsIn(source, p, <<"*", "/">>)
            /\ pair.position = p + 2
        <5>1. BeginsIn(source, p, <<"/", "*">>)
          BY <1>1, <3>4
        <5>2. p \in Int /\ CharIn(source, p) = "/" /\ CharIn(source, p + 1) = "*"
          BY <1>1, <5>1, BeginsChars
        <5>3. ~BeginsIn(source, p, <<"*", "/">>)
          BY <5>2, BeginsChars
        <5>4. CharIn(source, p + 1) # NUL
          BY <5>2 DEF NUL
        <5> QED
          BY <3>3, <5>1, <5>3, <5>4
      <4>3. Move(pair, next)
        BY <3>4
      <4> HIDE DEF next
      <4>4. ASSUME ~ClosedIn(source)
            PROVE  d + 1 \in Nat /\ ends[p][d] = ends[p + 2][d + 1]
        BY <1>1, <2>2, <2>4, <3>1, <4>2, <4>4 DEF EndStep
      <4>5. ~ClosedIn(source) => Remains(source, pair, next, Expected)
        BY <2>2, <4>1, <4>2, <4>4 DEF Remains, Scanners
      <4> QED
        BY <4>3, <4>5, MoveSkips
    <3>5. CASE Begins(p, <<"*", "/">>) /\ Move(pair, [scan EXCEPT !.nesting = @ - 1])
      <4> DEFINE next == [scan EXCEPT !.nesting = @ - 1]
      <4>1. next.in = "block_comment" /\ next.nesting = d - 1
        BY <2>1
      <4>2. /\ BeginsIn(source, p, <<"*", "/">>) /\ ~BeginsIn(source, p, <<"/", "*">>)
            /\ pair.position = p + 2
        <5>1. BeginsIn(source, p, <<"*", "/">>)
          BY <1>1, <3>5
        <5>2. p \in Int /\ CharIn(source, p) = "*" /\ CharIn(source, p + 1) = "/"
          BY <1>1, <5>1, BeginsChars
        <5>3. ~BeginsIn(source, p, <<"/", "*">>)
          BY <5>2, BeginsChars
        <5>4. CharIn(source, p + 1) # NUL
          BY <5>2 DEF NUL
        <5> QED
          BY <3>3, <5>1, <5>3, <5>4
      <4>3. Move(pair, next)
        BY <3>5
      <4> HIDE DEF next
      <4>4. ASSUME ~ClosedIn(source)
            PROVE  d - 1 \in Nat /\ ends[p][d] = ends[p + 2][d - 1]
        BY <1>1, <2>2, <2>4, <3>1, <4>2, <4>4 DEF EndStep
      <4>5. ~ClosedIn(source) => Remains(source, pair, next, Expected)
        BY <2>2, <4>1, <4>2, <4>4 DEF Remains, Scanners
      <4> QED
        BY <4>3, <4>5, MoveSkips
    <3>6. CASE ~Begins(p, <<"/", "*">>) /\ ~Begins(p, <<"*", "/">>) /\ Continue
      <4>1. ASSUME ~ClosedIn(source) PROVE ends[p][d] = ends[p + 1][d]
        BY <1>1, <2>2, <2>4, <3>1, <3>6, <4>1 DEF EndStep
      <4>2. ~ClosedIn(source) => Remains(source, one, scan, Expected)
        BY <2>1, <2>2, <3>2, <4>1 DEF Remains, Scanners
      <4>3. Move(one, scan)
        BY <3>6 DEF Continue
      <4> HIDE DEF one
      <4> QED
        BY <4>2, <4>3, MoveSkips
    <3>7. \/ Begins(p, <<"/", "*">>) /\ Move(pair, [scan EXCEPT !.nesting = @ + 1])
          \/ Begins(p, <<"*", "/">>) /\ Move(pair, [scan EXCEPT !.nesting = @ - 1])
          \/ ~Begins(p, <<"/", "*">>) /\ ~Begins(p, <<"*", "/">>) /\ Continue
      BY <1>3, <2>1, <2>4, Zenon DEF skip_block_comment, In
    <3> QED
      BY <3>4, <3>5, <3>6, <3>7
  <2>5. d = 0 \/ current = NUL => Move(lexer, Idle)
    BY <1>3, <2>1, Zenon DEF skip_block_comment, In
  <2> QED
    BY <2>3, <2>4, <2>5
<1> QED
  BY <1>2, <1>3 DEF skip_block_comment

-----------------------------------------------------------------------------
\* The lexer only stops at a TOKEN_EOF.
Finishing == In("done") => tokens # <<>> /\ tokens[Len(tokens)].type = "EOF"

LEMMA GoingOn ==
  ASSUME NEW c, NEW next, Move(c, next), next.in # "done"
  PROVE  Finishing'
  BY DEF Move, Finishing, In

LEMMA ReturnFinishes ==
  ASSUME LInv, NEW type, NEW from, NEW at, NEW c, Return(type, from, at, c)
  PROVE  Finishing'
<1>1. tokens \in Seq(Token)
  BY DEF LInv
<1>2. CASE type # "EOF"
  BY <1>2 DEF Return, Idle, Finishing, In
<1>3. CASE type = "EOF"
  <2> DEFINE token == [type |-> type, from |-> from, to |-> c.position,
                       line |-> at.line, column |-> at.column]
  <2>1. tokens' = Append(tokens, token) /\ token.type = "EOF"
    BY <1>3 DEF Return, token_list_add
  <2> HIDE DEF token
  <2>2. tokens' # <<>> /\ tokens'[Len(tokens')] = token
    BY <1>1, <2>1
  <2> QED
    BY <2>1, <2>2 DEF Finishing
<1> QED
  BY <1>2, <1>3

LEMMA ScannerFinishes ==
  ASSUME LInv, scan.in \in Functions \ {"done"}, NEW c, NEW function \in Functions \ {"done"},
         \/ Move(c, [scan EXCEPT !.in = function])
         \/ Move(c, scan)
         \/ Move(c, Idle)
         \/ \E type : ReturnScanned(type, c)
  PROVE  Finishing'
<1>1. [scan EXCEPT !.in = function].in = function
  BY DEF LInv, Scans, Scanners
<1>2. Idle.in # "done"
  BY DEF Idle
<1> DEFINE next == [scan EXCEPT !.in = function]
<1>3. Move(c, next) => Finishing'
  <2>1. next.in # "done"
    BY <1>1
  <2> HIDE DEF next
  <2> QED
    BY <2>1, GoingOn
<1>4. Move(c, scan) \/ Move(c, Idle) => Finishing'
  BY <1>2, GoingOn
<1>5. (\E type : ReturnScanned(type, c)) => Finishing'
  BY ReturnFinishes DEF ReturnScanned
<1> QED
  BY <1>3, <1>4, <1>5

LEMMA FinishingNext ==
  ASSUME LInv, Finishing, [Next]_vars
  PROVE  Finishing'
<1>1. ASSUME NEW n \in Functions \ {"done"}, In(n), NEW c,
             \/ \E function \in Functions \ {"done"} : Move(c, [scan EXCEPT !.in = function])
             \/ Move(c, scan) \/ Move(c, Idle) \/ \E type : ReturnScanned(type, c)
      PROVE  Finishing'
  BY <1>1, ScannerFinishes DEF In, Functions
<1>2. ASSUME NEW function \in Functions \ {"done"}, NEW c, Scanning(function, c) PROVE Finishing'
  <2> DEFINE next == [in |-> function, start |-> lexer.position, column |-> lexer.column,
                      quote |-> current]
  <2>1. Move(c, next) /\ next.in # "done"
    BY <1>2 DEF Scanning
  <2> HIDE DEF next
  <2> QED
    BY <2>1, GoingOn
<1>3. CASE skip_whitespace \/ skip_line_comment
  BY <1>1, <1>3 DEF skip_whitespace, skip_line_comment, Continue, Enter, Functions
<1>4. CASE skip_block_comment
  <2>1. CASE In("lex") /\ Move(lexer_advance(lexer), [in |-> "block_comment", nesting |-> 1])
    <3> DEFINE next == [in |-> "block_comment", nesting |-> 1]
    <3>1. next.in # "done" /\ Move(lexer_advance(lexer), next)
      BY <2>1
    <3> HIDE DEF next
    <3> QED
      BY <3>1, GoingOn
  <2>2. CASE In("block_comment")
    <3>1. scan \in [in : {"block_comment"}, nesting : Int]
      BY <2>2 DEF LInv, Scans, In, Scanners
    <3>2. ASSUME NEW c, NEW d, Move(c, [scan EXCEPT !.nesting = d]) PROVE Finishing'
      <4> DEFINE next == [scan EXCEPT !.nesting = d]
      <4>1. next.in # "done" /\ Move(c, next)
        BY <3>1, <3>2
      <4> HIDE DEF next
      <4> QED
        BY <4>1, GoingOn
    <3>3. \/ Move(lexer, Idle) \/ Continue
          \/ \E c, d : Move(c, [scan EXCEPT !.nesting = d])
      BY <1>4, <2>2, <3>1, Zenon DEF skip_block_comment, In
    <3> QED
      BY <1>1, <2>2, <3>2, <3>3 DEF Continue, Functions
  <2> QED
    BY <1>4, <2>1, <2>2 DEF skip_block_comment
<1>5. CASE lex_number
  <2>1. CASE In("lex") /\ Scanning("digits", lexer)
    BY <1>2, <2>1 DEF Functions
  <2>2. CASE /\ In("digits")
             /\ \/ Continue \/ ReturnScanned("INTEGER", lexer)
                \/ Move(lexer_advance(lexer), [scan EXCEPT !.in = "point"])
                \/ Move(lexer_advance(lexer), [scan EXCEPT !.in = "exponent"])
    BY <1>1, <2>2 DEF Functions, Continue
  <2>3. CASE In("point") /\ (Enter("fraction") \/ ReturnScanned("ERROR", lexer))
    BY <1>1, <2>3 DEF Functions, Enter
  <2>4. CASE /\ In("fraction")
             /\ \/ Continue \/ ReturnScanned("FLOAT", lexer)
                \/ Move(lexer_advance(lexer), [scan EXCEPT !.in = "exponent"])
    BY <1>1, <2>4 DEF Functions, Continue
  <2>5. CASE /\ In("exponent")
             /\ \E c \in {lexer, lexer_advance(lexer)} :
                  Move(c, [scan EXCEPT !.in = "power"]) \/ ReturnScanned("ERROR", c)
    BY <1>1, <2>5 DEF Functions
  <2>6. CASE In("power") /\ (Continue \/ ReturnScanned("FLOAT", lexer))
    BY <1>1, <2>6 DEF Functions, Continue
  <2> QED
    BY <1>5, <2>1, <2>2, <2>3, <2>4, <2>5, <2>6, Zenon DEF lex_number
<1>6. CASE lex_string \/ lex_identifier_or_keyword
  <2>1. CASE In("lex") /\ (Scanning("string", lexer_advance(lexer)) \/ Scanning("word", lexer))
    BY <1>2, <2>1 DEF Functions
  <2>2. CASE In("string") /\ (Continue \/ ReturnScanned("STRING", lexer_advance(lexer)))
    BY <1>1, <2>2 DEF Functions, Continue
  <2>3. CASE /\ In("word")
             /\ Continue \/ ReturnScanned(WordType(Text(scan.start, lexer.position)), lexer)
    BY <1>1, <2>3 DEF Functions, Continue
  <2> QED
    BY <1>6, <2>1, <2>2, <2>3 DEF lex_string, lex_identifier_or_keyword
<1>7. CASE lex_symbol \/ lex_end
  <2>1. \E type, c : Return(type, lexer.position, lexer, c)
    BY <1>7, Zenon DEF lex_symbol, lex_end
  <2> QED
    BY <2>1, ReturnFinishes
<1>8. CASE UNCHANGED vars
  BY <1>8 DEF vars, Finishing, In
<1> QED
  BY <1>3, <1>4, <1>5, <1>6, <1>7, <1>8 DEF Next, lex

-----------------------------------------------------------------------------
(* A token begins here: nothing is to be skipped. *)
LEMMA BeginsHere ==
  ASSUME LInv, Skipping, ~ClosedIn(source), In("lex"), current \notin Blanks, ~Comment
  PROVE  Expected = lexer.position
<1>1. /\ ~BeginsIn(source, lexer.position, <<"/", "/">>)
      /\ ~BeginsIn(source, lexer.position, <<"/", "*">>)
  BY CharsHere DEF Comment
<1>2. SkippedIn(source)[lexer.position] = lexer.position
  BY <1>1, CharsHere, SkipsNothing
<1> QED
  BY <1>2 DEF Skipping, Remains, In

\* Neither letters, nor digits, nor quotes, nor the end begin a comment.
LEMMA NoComment ==
  ASSUME LInv, current \in Letters \union Digits \union Quotes \union {NUL}
  PROVE  current \notin Blanks /\ ~Comment
<1>1. "/" \in DOMAIN Single
  BY DEF Single
<1>2. current \notin Blanks /\ current # "/"
  BY <1>1, AlphabetAssumption DEF Quotes, Blanks, NUL
<1>3. current = CharIn(source, lexer.position) /\ lexer.position \in Int
  BY CharsHere
<1> QED
  BY <1>2, <1>3, CharsHere, BeginsChars DEF Comment

LEMMA ScanningSkips ==
  ASSUME LInv, Skipping, In("lex"), current \in Letters \union Digits \union Quotes,
         NEW function \in Scanners, NEW c, Scanning(function, c)
  PROVE  Skipping'
<1> DEFINE next == [in |-> function, start |-> lexer.position, column |-> lexer.column,
                    quote |-> current]
<1>1. Move(c, next)
  BY DEF Scanning
<1>2. next.in = function /\ next.start = lexer.position
  OBVIOUS
<1> HIDE DEF next
<1>3. ~ClosedIn(source) => Expected = lexer.position
  BY NoComment, BeginsHere
<1>4. ~ClosedIn(source) => Remains(source, c, next, Expected)
  BY <1>2, <1>3 DEF Remains, Scanners
<1> QED
  BY <1>1, <1>4, MoveSkips

LEMMA ScannerSkips ==
  ASSUME LInv, Skipping, scan.in \in Scanners, NEW c, NEW function \in Scanners,
         \/ Move(c, [scan EXCEPT !.in = function])
         \/ Move(c, scan)
         \/ \E type : ReturnScanned(type, c)
  PROVE  Skipping'
<1>1. scan \in [in : Scanners, start : 1 .. End, column : 1 .. End, quote : Read]
  BY DEF LInv, Scans, Scanners
<1>2. ~ClosedIn(source) => Expected = scan.start
  BY DEF Skipping, Remains
<1>3. ASSUME NEW next, Move(c, next), next.in \in Scanners, next.start = scan.start
      PROVE  Skipping'
  <2>1. ~ClosedIn(source) => Remains(source, c, next, Expected)
    BY <1>2, <1>3 DEF Remains, Scanners
  <2> QED
    BY <1>3, <2>1, MoveSkips
<1>4. CASE Move(c, [scan EXCEPT !.in = function])
  <2> DEFINE next == [scan EXCEPT !.in = function]
  <2>1. next.in \in Scanners /\ next.start = scan.start /\ Move(c, next)
    BY <1>1, <1>4
  <2> HIDE DEF next
  <2> QED
    BY <1>3, <2>1
<1>5. CASE Move(c, scan)
  BY <1>3, <1>5
<1>6. CASE \E type : ReturnScanned(type, c)
  BY <1>2, <1>6, ReturnSkips DEF ReturnScanned
<1> QED
  BY <1>4, <1>5, <1>6

LEMMA NumbersSkip ==
  ASSUME LInv, Skipping, lex_number
  PROVE  Skipping'
<1>1. CASE In("lex") /\ current \in Digits /\ Scanning("digits", lexer)
  BY <1>1, ScanningSkips DEF Scanners
<1>2. ASSUME scan.in \in Scanners, NEW c,
             \/ Move(c, scan) \/ \E type : ReturnScanned(type, c)
             \/ \E function \in Scanners : Move(c, [scan EXCEPT !.in = function])
      PROVE  Skipping'
  BY <1>2, ScannerSkips
<1>3. CASE /\ In("digits")
           /\ \/ Continue \/ ReturnScanned("INTEGER", lexer)
              \/ Move(lexer_advance(lexer), [scan EXCEPT !.in = "point"])
              \/ Move(lexer_advance(lexer), [scan EXCEPT !.in = "exponent"])
  BY <1>2, <1>3 DEF In, Scanners, Continue
<1>4. CASE In("point") /\ (Enter("fraction") \/ ReturnScanned("ERROR", lexer))
  BY <1>2, <1>4 DEF In, Scanners, Enter
<1>5. CASE /\ In("fraction")
           /\ \/ Continue \/ ReturnScanned("FLOAT", lexer)
              \/ Move(lexer_advance(lexer), [scan EXCEPT !.in = "exponent"])
  BY <1>2, <1>5 DEF In, Scanners, Continue
<1>6. CASE /\ In("exponent")
           /\ \E c \in {lexer, lexer_advance(lexer)} :
                Move(c, [scan EXCEPT !.in = "power"]) \/ ReturnScanned("ERROR", c)
  BY <1>2, <1>6 DEF In, Scanners
<1>7. CASE In("power") /\ (Continue \/ ReturnScanned("FLOAT", lexer))
  BY <1>2, <1>7 DEF In, Scanners, Continue
<1> QED
  BY <1>1, <1>3, <1>4, <1>5, <1>6, <1>7, Zenon DEF lex_number

LEMMA StringsAndWordsSkip ==
  ASSUME LInv, Skipping, lex_string \/ lex_identifier_or_keyword
  PROVE  Skipping'
<1>1. CASE In("lex") /\ current \in Quotes /\ Scanning("string", lexer_advance(lexer))
  BY <1>1, ScanningSkips DEF Scanners
<1>2. CASE In("lex") /\ current \in Letters /\ Scanning("word", lexer)
  BY <1>2, ScanningSkips DEF Scanners
<1>3. CASE In("string") /\ ReturnScanned("STRING", lexer_advance(lexer))
  BY <1>3, ScannerSkips DEF In, Scanners
<1>4. CASE In("word") /\ ReturnScanned(WordType(Text(scan.start, lexer.position)), lexer)
  BY <1>4, ScannerSkips DEF In, Scanners
<1>5. CASE (In("string") \/ In("word")) /\ Continue
  BY <1>5, ScannerSkips DEF In, Scanners, Continue
<1> QED
  BY <1>1, <1>2, <1>3, <1>4, <1>5 DEF lex_string, lex_identifier_or_keyword

LEMMA SymbolsSkip ==
  ASSUME LInv, Skipping, lex_symbol \/ lex_end
  PROVE  Skipping'
<1>1. CASE lex_end
  <2>1. In("lex") /\ current = NUL /\ Return("EOF", lexer.position, lexer, lexer)
    BY <1>1 DEF lex_end
  <2>2. ~ClosedIn(source) => Expected = lexer.position
    BY <2>1, NoComment, BeginsHere
  <2> QED
    BY <2>1, <2>2, ReturnSkips
<1>2. CASE lex_symbol
  <2>1. In("lex") /\ ~Comment /\ current \notin Blanks
    BY <1>2, Zenon DEF lex_symbol
  <2>2. \E type, c : Return(type, lexer.position, lexer, c)
    BY <1>2, Zenon DEF lex_symbol
  <2>3. ~ClosedIn(source) => Expected = lexer.position
    BY <2>1, BeginsHere
  <2> QED
    BY <2>2, <2>3, ReturnSkips
<1> QED
  BY <1>1, <1>2

-----------------------------------------------------------------------------
LEMMA InitSkips == Init => Skipping
<1> SUFFICES ASSUME Init PROVE Skipping
  OBVIOUS
<1>1. source \in Seq(STRING \ {NUL})
  BY SourcesAssumption DEF Init
<1>2. \A p \in DOMAIN source : source[p] # NUL
  BY <1>1
<1>3. tokens = <<>> /\ scan.in = "lex" /\ lexer.position = 1 /\ DOMAIN tokens = {}
  BY DEF Init, Idle
<1> QED
  BY <1>2, <1>3 DEF Skipping, Follow, Remains, Expected, Ended, Scanners

LEMMA NextSkips == LInv /\ Skipping /\ [Next]_vars => Skipping'
<1> SUFFICES ASSUME LInv, Skipping, [Next]_vars PROVE Skipping'
  OBVIOUS
<1>1. CASE Next
  BY <1>1, BlanksSkip, LineCommentsSkip, BlockCommentsSkip, NumbersSkip, StringsAndWordsSkip,
     SymbolsSkip DEF Next, lex
<1>2. CASE UNCHANGED vars
  BY <1>2 DEF vars, Skipping, Expected
<1> QED
  BY <1>1, <1>2

(* Whatever the source, between two tokens there is nothing but blanks and
   comments, which nest; and the last token is the end of the source, or made from
   the character that cut it short. *)
THEOREM LexerSkipsNothing == Spec => []NothingSkipped
<1>1. LInv /\ Finishing /\ Skipping => NothingSkipped
  <2> SUFFICES ASSUME LInv, Finishing, Skipping, ~ClosedAtOnce
               PROVE  /\ \A k \in DOMAIN tokens :
                           tokens[k].from = Skipped[IF k = 1 THEN 1 ELSE tokens[k - 1].to]
                      /\ In("done") =>
                           /\ Last(tokens).type = "EOF"
                           /\ (Last(tokens).from = End \/ Unknown(Last(tokens)))
                           /\ \A k \in DOMAIN tokens : tokens[k].type = "EOF" => k = Len(tokens)
    BY DEF NothingSkipped
  <2>1. ~ClosedIn(source)
    BY CharsHere DEF ClosedIn, ClosedAtOnce
  <2>2. \A k \in DOMAIN tokens : tokens[k].from = Skipped[IF k = 1 THEN 1 ELSE tokens[k - 1].to]
    BY <2>1, SameSkipped DEF Skipping, Follow
  <2>3. ASSUME In("done")
        PROVE  Last(tokens).type = "EOF" /\ (Last(tokens).from = End \/ Unknown(Last(tokens)))
    <3>1. tokens # <<>> /\ tokens \in Seq(Token) /\ Last(tokens) = tokens[Len(tokens)]
          /\ Last(tokens).type = "EOF"
      BY <2>3 DEF Finishing, LInv, Last
    <3>2. Last(tokens) \in Token
      BY <3>1
    <3>3. Last(tokens).from \in 1 .. End /\ End \in Nat
      BY <3>2, EndIsNat DEF Token, LInv
    <3> QED
      BY <3>1, <3>3 DEF Unknown
  <2>4. \A k \in DOMAIN tokens : tokens[k].type = "EOF" => k = Len(tokens)
    BY DEF LInv, TokensInOrder
  <2> QED
    BY <2>2, <2>3, <2>4
<1>2. Init => Finishing
  BY DEF Init, Finishing, Idle, In
<1>3. LInv /\ Finishing /\ [Next]_vars => Finishing'
  <2> SUFFICES ASSUME LInv, Finishing, [Next]_vars PROVE Finishing'
    OBVIOUS
  <2> QED
    BY FinishingNext
<1>4. Spec => [](LInv /\ Finishing /\ Skipping)
  <2>1. Init => LInv /\ Finishing /\ Skipping
    BY <1>2, InitInvariant, InitSkips
  <2>2. LInv /\ Finishing /\ Skipping /\ [Next]_vars => (LInv /\ Finishing /\ Skipping)'
    BY <1>3, NextInvariant, NextSkips
  <2> QED
    BY <2>1, <2>2, PTL DEF Spec
<1> QED
  BY <1>1, <1>4, PTL

-----------------------------------------------------------------------------
(* The parts of numbers, by the places a and b where they begin and end. *)
DigitsIn(s, a, b) == a < b /\ \A i \in a .. b - 1 : CharIn(s, i) \in Digits
DecimalIn(s, a, b) == \E k \in a + 1 .. b - 2 :
  DigitsIn(s, a, k) /\ CharIn(s, k) = "." /\ DigitsIn(s, k + 1, b)
PointIn(s, a, b) == DigitsIn(s, a, b - 1) /\ CharIn(s, b - 1) = "."
ExponentIn(s, a, b) ==
  (DigitsIn(s, a, b - 1) \/ DecimalIn(s, a, b - 1)) /\ CharIn(s, b - 1) \in Exponents
SignIn(s, a, b) == ExponentIn(s, a, b - 1) /\ CharIn(s, b - 1) \in Signs
PowerIn(s, a, b) == \E k \in a + 1 .. b - 1 :
  (ExponentIn(s, a, k) \/ SignIn(s, a, k)) /\ DigitsIn(s, k, b)

NumberIn(s, a, b) == DigitsIn(s, a, b) \/ DecimalIn(s, a, b) \/ PowerIn(s, a, b)

\* A number, or what can be continued to one.
PartIn(s, a, b) ==
  NumberIn(s, a, b) \/ PointIn(s, a, b) \/ ExponentIn(s, a, b) \/ SignIn(s, a, b)

LEMMA NumberChars ==
  /\ \A c \in Digits : c # "." /\ c \notin Exponents /\ c \notin Signs
  /\ \A c \in Exponents : c # "." /\ c \notin Signs
  /\ \A c \in Signs : c # "."
<1>1. \A c \in Digits : c \notin DOMAIN Single /\ c \notin Exponents
  BY AlphabetAssumption
<1>2. "." \in DOMAIN Single /\ Signs \subseteq DOMAIN Single
  BY DEF Single, Signs
<1> QED
  BY <1>1, <1>2 DEF Exponents, Signs

\* What is left of a number when its end is cut off can be continued to one.
LEMMA PartsOfParts ==
  ASSUME NEW s, NEW a \in Int, NEW b \in Int, NEW c \in Int, a < c, c <= b, PartIn(s, a, b)
  PROVE  PartIn(s, a, c)
<1>1. ASSUME NEW e \in Int, c <= e, DigitsIn(s, a, e) PROVE PartIn(s, a, c)
  <2>1. DigitsIn(s, a, c)
    BY <1>1 DEF DigitsIn
  <2> QED
    BY <2>1 DEF PartIn, NumberIn
<1>2. ASSUME NEW e \in Int, c <= e, PointIn(s, a, e) PROVE PartIn(s, a, c)
  <2>1. CASE c = e
    BY <1>2, <2>1 DEF PartIn
  <2>2. CASE c <= e - 1
    BY <1>1, <1>2, <2>2 DEF PointIn
  <2> QED
    BY <1>2, <2>1, <2>2
<1>3. ASSUME NEW e \in Int, c <= e, DecimalIn(s, a, e) PROVE PartIn(s, a, c)
  <2>1. PICK k \in a + 1 .. e - 2 : DigitsIn(s, a, k) /\ CharIn(s, k) = "." /\ DigitsIn(s, k + 1, e)
    BY <1>3 DEF DecimalIn
  <2>2. CASE c <= k
    BY <1>1, <2>1, <2>2
  <2>3. CASE c = k + 1
    <3>1. c - 1 = k
      BY <2>1, <2>3
    <3> QED
      BY <2>1, <3>1 DEF PartIn, PointIn
  <2>4. CASE k + 1 < c
    <3>1. DigitsIn(s, k + 1, c) /\ k \in a + 1 .. c - 2
      BY <1>3, <2>1, <2>4 DEF DigitsIn
    <3> QED
      BY <2>1, <3>1 DEF PartIn, NumberIn, DecimalIn
  <2> QED
    BY <2>1, <2>2, <2>3, <2>4
<1>4. ASSUME NEW e \in Int, c <= e, ExponentIn(s, a, e) PROVE PartIn(s, a, c)
  <2>1. CASE c = e
    BY <1>4, <2>1 DEF PartIn
  <2>2. CASE c <= e - 1
    BY <1>1, <1>3, <1>4, <2>2 DEF ExponentIn
  <2> QED
    BY <1>4, <2>1, <2>2
<1>5. ASSUME NEW e \in Int, c <= e, SignIn(s, a, e) PROVE PartIn(s, a, c)
  <2>1. CASE c = e
    BY <1>5, <2>1 DEF PartIn
  <2>2. CASE c <= e - 1
    BY <1>4, <1>5, <2>2 DEF SignIn
  <2> QED
    BY <1>5, <2>1, <2>2
<1>6. ASSUME PowerIn(s, a, b) PROVE PartIn(s, a, c)
  <2>1. PICK k \in a + 1 .. b - 1 : (ExponentIn(s, a, k) \/ SignIn(s, a, k)) /\ DigitsIn(s, k, b)
    BY <1>6 DEF PowerIn
  <2>2. CASE c <= k
    BY <1>4, <1>5, <2>1, <2>2
  <2>3. CASE k < c
    <3>1. DigitsIn(s, k, c) /\ k \in a + 1 .. c - 1
      BY <2>1, <2>3 DEF DigitsIn
    <3> QED
      BY <2>1, <3>1 DEF PartIn, NumberIn, PowerIn
  <2> QED
    BY <2>1, <2>2, <2>3
<1> QED
  BY <1>1, <1>2, <1>3, <1>4, <1>5, <1>6 DEF PartIn, NumberIn

\* What can follow each part of a number.
LEMMA PartsContinue ==
  ASSUME NEW s, NEW a \in Int, NEW b \in Int, a < b, PartIn(s, a, b + 1)
  PROVE  \/ DigitsIn(s, a, b) /\ CharIn(s, b) \in Digits \union Exponents \union {"."}
         \/ PointIn(s, a, b) /\ CharIn(s, b) \in Digits
         \/ DecimalIn(s, a, b) /\ CharIn(s, b) \in Digits \union Exponents
         \/ ExponentIn(s, a, b) /\ CharIn(s, b) \in Digits \union Signs
         \/ SignIn(s, a, b) /\ CharIn(s, b) \in Digits
         \/ PowerIn(s, a, b) /\ CharIn(s, b) \in Digits
<1>1. b + 1 - 1 = b
  OBVIOUS
<1>2. CASE DigitsIn(s, a, b + 1)
  <2>1. DigitsIn(s, a, b) /\ CharIn(s, b) \in Digits
    BY <1>2 DEF DigitsIn
  <2> QED
    BY <2>1
<1>3. CASE DecimalIn(s, a, b + 1)
  <2>1. PICK k \in a + 1 .. b - 1 :
          DigitsIn(s, a, k) /\ CharIn(s, k) = "." /\ DigitsIn(s, k + 1, b + 1)
    BY <1>3 DEF DecimalIn
  <2>2. CharIn(s, b) \in Digits
    BY <2>1 DEF DigitsIn
  <2>3. CASE k + 1 = b
    <3>1. b - 1 = k
      BY <2>1, <2>3
    <3> QED
      BY <2>1, <2>2, <3>1 DEF PointIn
  <2>4. CASE k + 1 < b
    <3>1. DigitsIn(s, k + 1, b) /\ k \in a + 1 .. b - 2
      BY <2>1, <2>4 DEF DigitsIn
    <3> QED
      BY <2>1, <2>2, <3>1 DEF DecimalIn
  <2> QED
    BY <2>1, <2>3, <2>4
<1>4. CASE PowerIn(s, a, b + 1)
  <2>1. PICK k \in a + 1 .. b : (ExponentIn(s, a, k) \/ SignIn(s, a, k)) /\ DigitsIn(s, k, b + 1)
    BY <1>4 DEF PowerIn
  <2>2. CharIn(s, b) \in Digits
    BY <2>1 DEF DigitsIn
  <2>3. CASE k = b
    BY <2>1, <2>2, <2>3
  <2>4. CASE k < b
    <3>1. DigitsIn(s, k, b) /\ k \in a + 1 .. b - 1
      BY <2>1, <2>4 DEF DigitsIn
    <3> QED
      BY <2>1, <2>2, <3>1 DEF PowerIn
  <2> QED
    BY <2>1, <2>3, <2>4
<1>5. CASE PointIn(s, a, b + 1) \/ ExponentIn(s, a, b + 1) \/ SignIn(s, a, b + 1)
  BY <1>1, <1>5 DEF PointIn, ExponentIn, SignIn
<1> QED
  BY <1>2, <1>3, <1>4, <1>5 DEF PartIn, NumberIn

\* The characters of the parts of a number tell them apart.
LEMMA PartsApart ==
  ASSUME NEW s, NEW a \in Int, NEW b \in Int
  PROVE  /\ DigitsIn(s, a, b) => \A i \in a .. b - 1 : CharIn(s, i) \in Digits
         /\ PointIn(s, a, b) => CharIn(s, b - 1) = "."
         /\ DecimalIn(s, a, b) =>
              /\ \E i \in a .. b - 1 : CharIn(s, i) = "."
              /\ \A i \in a .. b - 1 : CharIn(s, i) \in Digits \union {"."}
              /\ CharIn(s, b - 1) \in Digits
         /\ ExponentIn(s, a, b) => CharIn(s, b - 1) \in Exponents
         /\ SignIn(s, a, b) => CharIn(s, b - 1) \in Signs
         /\ PowerIn(s, a, b) =>
              /\ \E i \in a .. b - 1 : CharIn(s, i) \in Exponents
              /\ CharIn(s, b - 1) \in Digits
<1>1. DecimalIn(s, a, b) =>
              /\ \E i \in a .. b - 1 : CharIn(s, i) = "."
              /\ \A i \in a .. b - 1 : CharIn(s, i) \in Digits \union {"."}
              /\ CharIn(s, b - 1) \in Digits
  BY DEF DecimalIn, DigitsIn
<1>2. PowerIn(s, a, b) =>
              /\ \E i \in a .. b - 1 : CharIn(s, i) \in Exponents
              /\ CharIn(s, b - 1) \in Digits
  <2> SUFFICES ASSUME PowerIn(s, a, b)
               PROVE  /\ \E i \in a .. b - 1 : CharIn(s, i) \in Exponents
                      /\ CharIn(s, b - 1) \in Digits
    OBVIOUS
  <2>1. PICK k \in a + 1 .. b - 1 : (ExponentIn(s, a, k) \/ SignIn(s, a, k)) /\ DigitsIn(s, k, b)
    BY DEF PowerIn
  <2>2. CharIn(s, b - 1) \in Digits
    BY <2>1 DEF DigitsIn
  <2>3. CASE ExponentIn(s, a, k)
    <3>1. CharIn(s, k - 1) \in Exponents /\ k - 1 \in a .. b - 1
      BY <2>1, <2>3 DEF ExponentIn
    <3> QED
      BY <2>2, <3>1
  <2>4. CASE SignIn(s, a, k)
    <3>1. CharIn(s, k - 2) \in Exponents /\ k - 2 \in a .. b - 1
      <4>1. ExponentIn(s, a, k - 1) /\ k - 1 - 1 = k - 2
        BY <2>1, <2>4 DEF SignIn
      <4>2. CharIn(s, k - 2) \in Exponents
        BY <4>1 DEF ExponentIn
      <4>3. a < k - 2
        BY <2>1, <4>1 DEF ExponentIn, DecimalIn, DigitsIn
      <4> QED
        BY <2>1, <4>2, <4>3
    <3> QED
      BY <2>2, <3>1
  <2> QED
    BY <2>1, <2>3, <2>4
<1> QED
  BY <1>1, <1>2 DEF DigitsIn, PointIn, ExponentIn, SignIn

LEMMA PartsBefore ==
  ASSUME NEW s, NEW a \in Int, NEW b \in Int, NEW e \in Int, a < b, b < e, PartIn(s, a, e)
  PROVE  /\ DigitsIn(s, a, b) => CharIn(s, b) \in Digits \union Exponents \union {"."}
         /\ PointIn(s, a, b) => CharIn(s, b) \in Digits
         /\ DecimalIn(s, a, b) => CharIn(s, b) \in Digits \union Exponents
         /\ ExponentIn(s, a, b) => CharIn(s, b) \in Digits \union Signs
         /\ SignIn(s, a, b) => CharIn(s, b) \in Digits
         /\ PowerIn(s, a, b) => CharIn(s, b) \in Digits
<1>1. PartIn(s, a, b + 1)
  BY PartsOfParts
<1> DEFINE c == CharIn(s, b)
           last == CharIn(s, b - 1)
<1>2. b - 1 \in a .. b - 1
  OBVIOUS
<1>3. /\ DigitsIn(s, a, b) => last \in Digits
      /\ PointIn(s, a, b) => last = "."
      /\ DecimalIn(s, a, b) => last \in Digits /\ ~DigitsIn(s, a, b)
      /\ ExponentIn(s, a, b) => last \in Exponents
      /\ SignIn(s, a, b) => last \in Signs
      /\ PowerIn(s, a, b) => last \in Digits /\ ~DigitsIn(s, a, b) /\ ~DecimalIn(s, a, b)
  BY <1>2, PartsApart, NumberChars
<1>4. \/ DigitsIn(s, a, b) /\ c \in Digits \union Exponents \union {"."}
      \/ PointIn(s, a, b) /\ c \in Digits
      \/ DecimalIn(s, a, b) /\ c \in Digits \union Exponents
      \/ ExponentIn(s, a, b) /\ c \in Digits \union Signs
      \/ SignIn(s, a, b) /\ c \in Digits
      \/ PowerIn(s, a, b) /\ c \in Digits
  BY <1>1, PartsContinue
<1> HIDE DEF last, c
<1>5. /\ DigitsIn(s, a, b) => c \in Digits \union Exponents \union {"."}
      /\ PointIn(s, a, b) => c \in Digits
      /\ DecimalIn(s, a, b) => c \in Digits \union Exponents
      /\ ExponentIn(s, a, b) => c \in Digits \union Signs
      /\ SignIn(s, a, b) => c \in Digits
      /\ PowerIn(s, a, b) => c \in Digits
  BY ONLY <1>3, <1>4, NumberChars
<1> QED
  BY <1>5 DEF c

\* The dots of a range belong to no number.
LEMMA LongestInteger ==
  ASSUME NEW s, NEW a \in Int, NEW b \in Int, NEW e \in Int, b < e, DigitsIn(s, a, b),
         CharIn(s, b) \notin Digits \union Exponents, CharIn(s, b) = "." => CharIn(s, b + 1) = "."
  PROVE  ~NumberIn(s, a, e)
<1> SUFFICES ASSUME NumberIn(s, a, e) PROVE FALSE
  OBVIOUS
<1>1. a < b /\ PartIn(s, a, e)
  BY DEF DigitsIn, PartIn
<1>2. CharIn(s, b) = "." /\ CharIn(s, b + 1) = "."
  BY <1>1, PartsBefore
<1>3. PointIn(s, a, b + 1)
  BY <1>2 DEF PointIn
<1>4. CASE e = b + 1
  <2>1. CharIn(s, e - 1) = "." /\ e - 1 \in a .. e - 1
    BY <1>1, <1>2, <1>4
  <2>2. CharIn(s, e - 1) \in Digits
    BY <2>1, PartsApart DEF NumberIn
  <2> QED
    BY <2>1, <2>2, NumberChars
<1>5. CASE b + 1 < e
  <2>1. CharIn(s, b + 1) \in Digits
    BY <1>1, <1>3, <1>5, PartsBefore
  <2> QED
    BY <1>2, <2>1, NumberChars
<1> QED
  BY <1>4, <1>5

LEMMA LongestPart ==
  ASSUME NEW s, NEW a \in Int, NEW b \in Int, NEW e \in Int, a < b, b < e,
         \/ PointIn(s, a, b) /\ CharIn(s, b) \notin Digits
         \/ DecimalIn(s, a, b) /\ CharIn(s, b) \notin Digits \union Exponents
         \/ ExponentIn(s, a, b) /\ CharIn(s, b) \notin Digits \union Signs
         \/ SignIn(s, a, b) /\ CharIn(s, b) \notin Digits
         \/ PowerIn(s, a, b) /\ CharIn(s, b) \notin Digits
  PROVE  ~NumberIn(s, a, e)
  BY PartsBefore DEF PartIn

-----------------------------------------------------------------------------
(* Texts, by the places where they begin and end. *)
TextIn(s, a, b) == SubSeq(s, a, b - 1)

LEMMA TextChars ==
  ASSUME NEW s \in Seq(STRING), NEW a \in 1 .. LastIn(s), NEW b \in a .. LastIn(s)
  PROVE  /\ TextIn(s, a, b) \in Seq(STRING) /\ Len(TextIn(s, a, b)) = b - a
         /\ DOMAIN TextIn(s, a, b) = 1 .. b - a
         /\ \A i \in 1 .. b - a : TextIn(s, a, b)[i] = CharIn(s, a + i - 1)
         /\ TextIn(s, a, b) = <<>> <=> a = b
<1>1. LastIn(s) \in Nat /\ DOMAIN s = 1 .. Len(s) /\ Len(s) \in Nat /\ LastIn(s) = Len(s) + 1
  BY LastIsNat DEF LastIn
<1>2. a \in Int /\ b \in Int /\ a \in 1 .. Len(s) + 1 /\ b - 1 \in 0 .. Len(s) /\ a <= b
  BY <1>1
<1>3. /\ SubSeq(s, a, b - 1) \in Seq(STRING) /\ Len(SubSeq(s, a, b - 1)) = b - a
      /\ \A i \in 1 .. b - a : SubSeq(s, a, b - 1)[i] = s[a + i - 1]
  BY <1>1, <1>2
<1>4. \A i \in 1 .. b - a : a + i - 1 \in DOMAIN s
  BY <1>1, <1>2
<1>5. DOMAIN SubSeq(s, a, b - 1) = 1 .. b - a
  BY <1>3
<1>6. SubSeq(s, a, b - 1) = <<>> <=> Len(SubSeq(s, a, b - 1)) = 0
  BY <1>3, EmptySeq
<1> QED
  BY <1>2, <1>3, <1>4, <1>5, <1>6, SMTT(30) DEF TextIn, CharIn

\* The beginning and the end of a text are texts.
LEMMA TextParts ==
  ASSUME NEW s \in Seq(STRING), NEW a \in 1 .. LastIn(s), NEW b \in a .. LastIn(s),
         NEW k \in 0 .. b - a
  PROVE  /\ Prefix(TextIn(s, a, b), k) = TextIn(s, a, a + k)
         /\ Suffix(TextIn(s, a, b), k) = TextIn(s, a + k, b)
<1> DEFINE t == TextIn(s, a, b)
           p == Prefix(t, k)
           q == Suffix(t, k)
           u == TextIn(s, a, a + k)
           v == TextIn(s, a + k, b)
<1>1. LastIn(s) \in Nat
  BY LastIsNat
<1>2. a \in Nat /\ b \in Nat /\ k \in Nat /\ a + k \in a .. LastIn(s) /\ a + k \in 1 .. LastIn(s)
      /\ b \in a + k .. LastIn(s)
  BY <1>1
<1>3. /\ t \in Seq(STRING) /\ Len(t) = b - a /\ \A i \in 1 .. b - a : t[i] = CharIn(s, a + i - 1)
  BY TextChars
<1>4. /\ u \in Seq(STRING) /\ Len(u) = k /\ \A i \in 1 .. k : u[i] = CharIn(s, a + i - 1)
  <2>1. a + k - a = k
    BY <1>2
  <2> QED
    BY <1>2, <2>1, TextChars
<1>5. /\ v \in Seq(STRING) /\ Len(v) = b - a - k
      /\ \A i \in 1 .. b - a - k : v[i] = CharIn(s, a + k + i - 1)
  <2>1. b - (a + k) = b - a - k
    BY <1>2
  <2> QED
    BY <1>2, <2>1, TextChars
<1> HIDE DEF t, u, v
<1>6. p \in Seq(STRING) /\ Len(p) = k /\ \A i \in 1 .. k : p[i] = t[i]
  BY <1>2, <1>3 DEF Prefix
<1>7. q \in Seq(STRING) /\ Len(q) = b - a - k /\ \A i \in 1 .. b - a - k : q[i] = t[k + i]
  BY <1>2, <1>3 DEF Suffix
<1> HIDE DEF p, q
<1>8. \A i \in 1 .. k : p[i] = u[i]
  BY <1>2, <1>3, <1>4, <1>6
<1>9. \A i \in 1 .. b - a - k : q[i] = v[i]
  <2> SUFFICES ASSUME NEW i \in 1 .. b - a - k PROVE q[i] = v[i]
    OBVIOUS
  <2>1. k + i \in 1 .. b - a /\ a + (k + i) - 1 = a + k + i - 1
    BY <1>2
  <2> QED
    BY <1>3, <1>5, <1>7, <2>1
<1>10. p = u
  BY <1>2, <1>4, <1>6, <1>8, SeqEqual
<1>11. q = v
  BY <1>2, <1>5, <1>7, <1>9, SeqEqual
<1> QED
  BY <1>10, <1>11 DEF p, q, t, u, v

LEMMA NumberText ==
  ASSUME NEW s \in Seq(STRING), NEW a \in 1 .. LastIn(s), NEW b \in a .. LastIn(s)
  PROVE  Number(TextIn(s, a, b)) <=> DigitsIn(s, a, b)
<1>1. a \in Nat /\ b \in Nat /\ a <= b
  BY LastIsNat
<1> DEFINE t == TextIn(s, a, b)
<1>2. /\ DOMAIN t = 1 .. b - a /\ \A i \in 1 .. b - a : t[i] = CharIn(s, a + i - 1)
      /\ t = <<>> <=> a = b
  BY TextChars
<1> HIDE DEF t
<1>3. Number(t) <=> a < b /\ \A i \in 1 .. b - a : CharIn(s, a + i - 1) \in Digits
  <2>1. t # <<>> <=> a < b
    BY <1>1, <1>2
  <2>2. AllIn(t, Digits) <=> \A i \in 1 .. b - a : CharIn(s, a + i - 1) \in Digits
    BY ONLY <1>2 DEF AllIn
  <2> QED
    BY <2>1, <2>2 DEF Number
<1>4. ASSUME \A i \in 1 .. b - a : CharIn(s, a + i - 1) \in Digits, NEW j \in a .. b - 1
      PROVE  CharIn(s, j) \in Digits
  <2>1. j - a + 1 \in 1 .. b - a /\ a + (j - a + 1) - 1 = j
    BY <1>1
  <2> QED
    BY <1>4, <2>1
<1>5. ASSUME \A j \in a .. b - 1 : CharIn(s, j) \in Digits, NEW i \in 1 .. b - a
      PROVE  CharIn(s, a + i - 1) \in Digits
  BY <1>1, <1>5
<1> QED
  BY <1>3, <1>4, <1>5 DEF DigitsIn, t

LEMMA DecimalText ==
  ASSUME NEW s \in Seq(STRING), NEW a \in 1 .. LastIn(s), NEW b \in a .. LastIn(s)
  PROVE  Decimal(TextIn(s, a, b)) <=> DecimalIn(s, a, b)
<1>1. LastIn(s) \in Nat /\ a \in Nat /\ b \in Nat /\ a <= b /\ b <= LastIn(s)
  BY LastIsNat
<1> DEFINE t == TextIn(s, a, b)
<1>2. DOMAIN t = 1 .. b - a /\ \A i \in 1 .. b - a : t[i] = CharIn(s, a + i - 1)
  BY TextChars
<1>3. ASSUME NEW i \in 1 .. b - a
      PROVE  /\ Number(Prefix(t, i - 1)) <=> DigitsIn(s, a, a + i - 1)
             /\ Number(Suffix(t, i)) <=> DigitsIn(s, a + i, b)
  <2>1. /\ i - 1 \in 0 .. b - a /\ i \in 0 .. b - a /\ a + (i - 1) = a + i - 1
        /\ a + i - 1 \in a .. LastIn(s) /\ a + i \in 1 .. LastIn(s) /\ b \in a + i .. LastIn(s)
    BY <1>1
  <2>2. Prefix(t, i - 1) = TextIn(s, a, a + i - 1) /\ Suffix(t, i) = TextIn(s, a + i, b)
    BY <2>1, TextParts
  <2> QED
    BY <2>1, <2>2, NumberText
<1> HIDE DEF t
<1>4. ASSUME Decimal(t) PROVE DecimalIn(s, a, b)
  <2>1. PICK i \in 1 .. b - a :
          t[i] = "." /\ Number(Prefix(t, i - 1)) /\ Number(Suffix(t, i))
    BY <1>2, <1>4 DEF Decimal
  <2>2. CharIn(s, a + i - 1) = "." /\ DigitsIn(s, a, a + i - 1) /\ DigitsIn(s, a + i, b)
    BY <1>2, <1>3, <2>1
  <2>3. a + i - 1 \in a + 1 .. b - 2 /\ (a + i - 1) + 1 = a + i
    BY <1>1, <2>2 DEF DigitsIn
  <2> QED
    BY <2>2, <2>3 DEF DecimalIn
<1>5. ASSUME DecimalIn(s, a, b) PROVE Decimal(t)
  <2>1. PICK k \in a + 1 .. b - 2 :
          DigitsIn(s, a, k) /\ CharIn(s, k) = "." /\ DigitsIn(s, k + 1, b)
    BY <1>5 DEF DecimalIn
  <2>2. k - a + 1 \in 1 .. b - a /\ a + (k - a + 1) - 1 = k /\ a + (k - a + 1) = k + 1
    BY <1>1
  <2>3. PICK i \in 1 .. b - a : i = k - a + 1
    BY <2>2
  <2>4. a + i - 1 = k /\ a + i = k + 1
    BY <2>2, <2>3
  <2>5. t[i] = "." /\ Number(Prefix(t, i - 1)) /\ Number(Suffix(t, i))
    BY <1>2, <1>3, <2>1, <2>4
  <2> QED
    BY <1>2, <2>5 DEF Decimal
<1> QED
  BY <1>4, <1>5 DEF t

\* An exponent with its sign and its digits.
LEMMA PowerText ==
  ASSUME NEW s \in Seq(STRING), NEW a \in 1 .. LastIn(s), NEW b \in a .. LastIn(s)
  PROVE  Power(TextIn(s, a, b)) <=>
           /\ CharIn(s, a) \in Exponents
           /\ \/ DigitsIn(s, a + 1, b)
              \/ CharIn(s, a + 1) \in Signs /\ DigitsIn(s, a + 2, b)
<1>1. LastIn(s) \in Nat /\ a \in Nat /\ b \in Nat /\ a <= b /\ b <= LastIn(s)
  BY LastIsNat
<1> DEFINE t == TextIn(s, a, b)
<1>2. Len(t) = b - a /\ \A i \in 1 .. b - a : t[i] = CharIn(s, a + i - 1)
  BY TextChars
<1>3. b - a > 1 =>
        /\ t[1] = CharIn(s, a) /\ t[2] = CharIn(s, a + 1)
        /\ Number(Suffix(t, 1)) <=> DigitsIn(s, a + 1, b)
        /\ Number(Suffix(t, 2)) <=> DigitsIn(s, a + 2, b)
  <2> SUFFICES ASSUME b - a > 1
               PROVE  /\ t[1] = CharIn(s, a) /\ t[2] = CharIn(s, a + 1)
                      /\ Number(Suffix(t, 1)) <=> DigitsIn(s, a + 1, b)
                      /\ Number(Suffix(t, 2)) <=> DigitsIn(s, a + 2, b)
    OBVIOUS
  <2>1. 1 \in 1 .. b - a /\ 2 \in 1 .. b - a /\ a + 1 - 1 = a /\ a + 2 - 1 = a + 1
    BY <1>1
  <2>2. t[1] = CharIn(s, a) /\ t[2] = CharIn(s, a + 1)
    BY <1>2, <2>1
  <2>3. /\ 1 \in 0 .. b - a /\ 2 \in 0 .. b - a
        /\ a + 1 \in 1 .. LastIn(s) /\ b \in a + 1 .. LastIn(s)
        /\ a + 2 \in 1 .. LastIn(s) /\ b \in a + 2 .. LastIn(s)
    BY <1>1
  <2>4. Suffix(t, 1) = TextIn(s, a + 1, b) /\ Suffix(t, 2) = TextIn(s, a + 2, b)
    BY <2>3, TextParts
  <2> QED
    BY <2>2, <2>3, <2>4, NumberText
<1>4. DigitsIn(s, a + 1, b) \/ DigitsIn(s, a + 2, b) => b - a > 1
  BY <1>1 DEF DigitsIn
<1> HIDE DEF t
<1> QED
  BY <1>1, <1>2, <1>3, <1>4 DEF Power, t

LEMMA FloatText ==
  ASSUME NEW s \in Seq(STRING), NEW a \in 1 .. LastIn(s), NEW b \in a .. LastIn(s)
  PROVE  Float(TextIn(s, a, b)) <=> DecimalIn(s, a, b) \/ PowerIn(s, a, b)
<1>1. LastIn(s) \in Nat /\ a \in Nat /\ b \in Nat /\ a <= b /\ b <= LastIn(s)
  BY LastIsNat
<1> DEFINE t == TextIn(s, a, b)
           mantissa(k) == DigitsIn(s, a, k) \/ DecimalIn(s, a, k)
<1>2. DOMAIN t = 1 .. b - a
  BY TextChars
<1>3. ASSUME NEW i \in 1 .. b - a
      PROVE  /\ Number(Prefix(t, i)) \/ Decimal(Prefix(t, i)) <=> mantissa(a + i)
             /\ Power(Suffix(t, i)) <=>
                  /\ CharIn(s, a + i) \in Exponents
                  /\ \/ DigitsIn(s, a + i + 1, b)
                     \/ CharIn(s, a + i + 1) \in Signs /\ DigitsIn(s, a + i + 2, b)
  <2>1. i \in 0 .. b - a /\ a + i \in a .. LastIn(s) /\ a + i \in 1 .. LastIn(s) /\ b \in a + i .. LastIn(s)
    BY <1>1
  <2>2. Prefix(t, i) = TextIn(s, a, a + i) /\ Suffix(t, i) = TextIn(s, a + i, b)
    BY <2>1, TextParts
  <2> QED
    BY <2>1, <2>2, NumberText, DecimalText, PowerText
<1>4. ASSUME NEW i \in 1 .. b - a, mantissa(a + i), CharIn(s, a + i) \in Exponents,
             \/ DigitsIn(s, a + i + 1, b)
             \/ CharIn(s, a + i + 1) \in Signs /\ DigitsIn(s, a + i + 2, b)
      PROVE  PowerIn(s, a, b)
  <2>1. ExponentIn(s, a, a + i + 1)
    <3>1. a + i + 1 - 1 = a + i
      BY <1>1
    <3> QED
      BY <1>4, <3>1 DEF ExponentIn
  <2>2. CASE DigitsIn(s, a + i + 1, b)
    <3>1. a + i + 1 \in a + 1 .. b - 1
      BY <1>1, <2>2 DEF DigitsIn
    <3> QED
      BY <2>1, <2>2, <3>1 DEF PowerIn
  <2>3. CASE CharIn(s, a + i + 1) \in Signs /\ DigitsIn(s, a + i + 2, b)
    <3>1. a + i + 2 - 1 = a + i + 1
      BY <1>1
    <3>2. SignIn(s, a, a + i + 2)
      BY <2>1, <2>3, <3>1 DEF SignIn
    <3>3. a + i + 2 \in a + 1 .. b - 1
      BY <1>1, <2>3 DEF DigitsIn
    <3> QED
      BY <2>3, <3>2, <3>3 DEF PowerIn
  <2> QED
    BY <1>4, <2>2, <2>3
<1>5. ASSUME NEW k \in a + 1 .. b - 1, DigitsIn(s, k, b), ExponentIn(s, a, k) \/ SignIn(s, a, k)
      PROVE  \E i \in 1 .. b - a :
               /\ mantissa(a + i) /\ CharIn(s, a + i) \in Exponents
               /\ \/ DigitsIn(s, a + i + 1, b)
                  \/ CharIn(s, a + i + 1) \in Signs /\ DigitsIn(s, a + i + 2, b)
  <2>1. k \in Int
    BY <1>1
  <2>2. CASE ExponentIn(s, a, k)
    <3>1. mantissa(k - 1) /\ CharIn(s, k - 1) \in Exponents
      BY <2>2 DEF ExponentIn
    <3>2. k - 1 > a
      BY <1>1, <2>1, <3>1 DEF DigitsIn, DecimalIn
    <3>3. k - 1 - a \in 1 .. b - a /\ a + (k - 1 - a) = k - 1 /\ k - 1 + 1 = k
      BY <1>1, <2>1, <3>2
    <3> QED
      BY <1>5, <3>1, <3>3
  <2>3. CASE SignIn(s, a, k)
    <3>1. ExponentIn(s, a, k - 1) /\ CharIn(s, k - 1) \in Signs
      BY <2>3 DEF SignIn
    <3>2. k - 1 - 1 = k - 2
      BY <2>1
    <3>3. mantissa(k - 2) /\ CharIn(s, k - 2) \in Exponents
      BY <3>1, <3>2 DEF ExponentIn
    <3>4. k - 2 > a
      BY <1>1, <2>1, <3>3 DEF DigitsIn, DecimalIn
    <3>5. k - 2 - a \in 1 .. b - a /\ a + (k - 2 - a) = k - 2 /\ k - 2 + 1 = k - 1 /\ k - 2 + 2 = k
      BY <1>1, <2>1, <3>4
    <3> QED
      BY <1>5, <3>1, <3>3, <3>5
  <2> QED
    BY <1>5, <2>2, <2>3
<1>6. Decimal(t) <=> DecimalIn(s, a, b)
  BY DecimalText
<1> HIDE DEF t, mantissa
<1>7. Float(t) <=> \/ DecimalIn(s, a, b)
                   \/ \E i \in 1 .. b - a :
                        /\ mantissa(a + i) /\ CharIn(s, a + i) \in Exponents
                        /\ \/ DigitsIn(s, a + i + 1, b)
                           \/ CharIn(s, a + i + 1) \in Signs /\ DigitsIn(s, a + i + 2, b)
  BY <1>2, <1>3, <1>6 DEF Float
<1> QED
  BY <1>4, <1>5, <1>7 DEF PowerIn, t

\* A part that no number begins with.
LEMMA BrokenText ==
  ASSUME NEW s \in Seq(STRING), NEW a \in 1 .. LastIn(s), NEW b \in a .. LastIn(s),
         PointIn(s, a, b) \/ ExponentIn(s, a, b) \/ SignIn(s, a, b)
  PROVE  Len(TextIn(s, a, b)) > 1 /\ Broken(TextIn(s, a, b))
<1>1. LastIn(s) \in Nat /\ a \in Nat /\ b \in Nat /\ a <= b /\ b <= LastIn(s)
  BY LastIsNat
<1> DEFINE t == TextIn(s, a, b)
           mantissa(k) == DigitsIn(s, a, k) \/ DecimalIn(s, a, k)
<1>2. \A k \in Int : mantissa(k) => a < k
  BY <1>1 DEF DigitsIn, DecimalIn
<1>3. /\ PointIn(s, a, b) => DigitsIn(s, a, b - 1) /\ CharIn(s, b - 1) = "."
      /\ ExponentIn(s, a, b) => mantissa(b - 1) /\ CharIn(s, b - 1) \in Exponents
  BY DEF PointIn, ExponentIn
<1>4. SignIn(s, a, b) =>
        mantissa(b - 2) /\ CharIn(s, b - 2) \in Exponents /\ CharIn(s, b - 1) \in Signs
  <2>1. b - 1 - 1 = b - 2
    BY <1>1
  <2> QED
    BY <2>1 DEF SignIn, ExponentIn
<1>5. b - a > 1 /\ (SignIn(s, a, b) => b - a > 2)
  <2>1. CASE SignIn(s, a, b)
    BY <1>1, <1>2, <1>4, <2>1
  <2>2. CASE PointIn(s, a, b) \/ ExponentIn(s, a, b)
    <3>1. mantissa(b - 1)
      BY <1>3, <2>2
    <3>2. a < b - 1
      BY <1>1, <1>2, <3>1
    <3>3. SignIn(s, a, b) => a < b - 2
      BY <1>1, <1>2, <1>4
    <3> QED
      BY <1>1, <3>2, <3>3
  <2> QED
    BY <2>1, <2>2
<1>6. Len(t) = b - a /\ \A i \in 1 .. b - a : t[i] = CharIn(s, a + i - 1)
  BY TextChars
<1>7. t[Len(t)] = CharIn(s, b - 1) /\ t[Len(t) - 1] = CharIn(s, b - 2)
  <2>1. b - a \in 1 .. b - a /\ b - a - 1 \in 1 .. b - a
        /\ a + (b - a) - 1 = b - 1 /\ a + (b - a - 1) - 1 = b - 2
    BY <1>1, <1>5
  <2> QED
    BY <1>6, <2>1
<1>8. ASSUME NEW k \in {b - 1, b - 2}, a < k
      PROVE  /\ Number(Prefix(t, k - a)) <=> DigitsIn(s, a, k)
             /\ Decimal(Prefix(t, k - a)) <=> DecimalIn(s, a, k)
  <2>1. k - a \in 0 .. b - a /\ k \in a .. LastIn(s) /\ a + (k - a) = k
    BY <1>1, <1>8
  <2>2. Prefix(t, k - a) = TextIn(s, a, k)
    BY <2>1, TextParts
  <2> QED
    BY <2>1, <2>2, NumberText, DecimalText
<1>9. Front(t) = Prefix(t, b - 1 - a)
  <2>1. Len(t) - 1 = b - 1 - a
    BY <1>1, <1>6
  <2> QED
    BY <2>1 DEF Front, Prefix
<1>10. Len(t) - 2 = b - 2 - a
  BY <1>1, <1>6
<1> HIDE DEF t
<1>11. CASE PointIn(s, a, b)
  <2>1. Number(Front(t))
    BY <1>2, <1>3, <1>1, <1>8, <1>9, <1>11
  <2>2. Last(t) = "."
    BY <1>3, <1>7, <1>11 DEF Last
  <2> QED
    BY <1>5, <1>6, <2>1, <2>2 DEF Broken, t
<1>12. CASE ExponentIn(s, a, b)
  <2>1. Number(Front(t)) \/ Decimal(Front(t))
    BY <1>2, <1>3, <1>1, <1>8, <1>9, <1>12
  <2>2. Last(t) \in Exponents
    BY <1>3, <1>7, <1>12 DEF Last
  <2> QED
    BY <1>5, <1>6, <2>1, <2>2 DEF Broken, t
<1>13. CASE SignIn(s, a, b)
  <2>1. Number(Prefix(t, Len(t) - 2)) \/ Decimal(Prefix(t, Len(t) - 2))
    BY <1>2, <1>4, <1>1, <1>8, <1>10, <1>13
  <2>2. Last(t) \in Signs /\ t[Len(t) - 1] \in Exponents
    BY <1>4, <1>7, <1>13 DEF Last
  <2> QED
    BY <1>5, <1>6, <1>13, <2>1, <2>2 DEF Broken, t
<1> QED
  BY <1>11, <1>12, <1>13

WordIn(s, a, b) ==
  a < b /\ CharIn(s, a) \in Letters /\ \A i \in a .. b - 1 : CharIn(s, i) \in Letters \union Digits

StringIn(s, a, b) ==
  /\ a < b - 1 /\ CharIn(s, a) \in Quotes /\ CharIn(s, b - 1) = CharIn(s, a)
  /\ \A i \in a + 1 .. b - 2 : CharIn(s, i) # CharIn(s, a)

LEMMA WordText ==
  ASSUME NEW s \in Seq(STRING), NEW a \in 1 .. LastIn(s), NEW b \in a .. LastIn(s)
  PROVE  Word(TextIn(s, a, b)) <=> WordIn(s, a, b)
<1>1. a \in Nat /\ b \in Nat /\ a <= b
  BY LastIsNat
<1> DEFINE t == TextIn(s, a, b)
           chars == Letters \union Digits
<1>2. /\ DOMAIN t = 1 .. b - a /\ \A i \in 1 .. b - a : t[i] = CharIn(s, a + i - 1)
      /\ t = <<>> <=> a = b
  BY TextChars
<1> HIDE DEF t, chars
<1>3. a < b => t[1] = CharIn(s, a)
  BY <1>1, <1>2
<1>4. t # <<>> <=> a < b
  BY <1>1, <1>2
<1>5. AllIn(t, chars) <=> \A i \in 1 .. b - a : CharIn(s, a + i - 1) \in chars
  BY ONLY <1>2 DEF AllIn
<1>6. ASSUME \A i \in 1 .. b - a : CharIn(s, a + i - 1) \in chars, NEW j \in a .. b - 1
      PROVE  CharIn(s, j) \in chars
  <2>1. j - a + 1 \in 1 .. b - a /\ a + (j - a + 1) - 1 = j
    BY <1>1
  <2> QED
    BY <1>6, <2>1
<1>7. ASSUME \A j \in a .. b - 1 : CharIn(s, j) \in chars, NEW i \in 1 .. b - a
      PROVE  CharIn(s, a + i - 1) \in chars
  BY <1>1, <1>7
<1> QED
  BY <1>3, <1>4, <1>5, <1>6, <1>7 DEF Word, WordIn, t, chars

LEMMA StringText ==
  ASSUME NEW s \in Seq(STRING), NEW a \in 1 .. LastIn(s), NEW b \in a .. LastIn(s)
  PROVE  String(TextIn(s, a, b)) <=> StringIn(s, a, b)
<1>1. a \in Nat /\ b \in Nat /\ a <= b
  BY LastIsNat
<1> DEFINE t == TextIn(s, a, b)
<1>2. /\ Len(t) = b - a /\ \A i \in 1 .. b - a : t[i] = CharIn(s, a + i - 1)
      /\ t = <<>> <=> a = b
  BY TextChars
<1> HIDE DEF t
<1>3. a < b - 1 => t[1] = CharIn(s, a) /\ Last(t) = CharIn(s, b - 1)
  <2> SUFFICES ASSUME a < b - 1 PROVE t[1] = CharIn(s, a) /\ Last(t) = CharIn(s, b - 1)
    OBVIOUS
  <2>1. 1 \in 1 .. b - a /\ b - a \in 1 .. b - a /\ a + 1 - 1 = a /\ a + (b - a) - 1 = b - 1
    BY <1>1
  <2> QED
    BY <1>2, <2>1 DEF Last
<1>4. Len(t) > 1 <=> a < b - 1
  BY <1>1, <1>2
<1>5. \A k \in 2 .. Len(t) - 1 : t[k] = CharIn(s, a + k - 1)
  BY <1>1, <1>2
<1>6. ASSUME NEW c, \A k \in 2 .. b - a - 1 : CharIn(s, a + k - 1) # c, NEW j \in a + 1 .. b - 2
      PROVE  CharIn(s, j) # c
  <2>1. j - a + 1 \in 2 .. b - a - 1 /\ a + (j - a + 1) - 1 = j
    BY <1>1
  <2> QED
    BY <1>6, <2>1
<1>7. ASSUME NEW c, \A j \in a + 1 .. b - 2 : CharIn(s, j) # c, NEW k \in 2 .. b - a - 1
      PROVE  CharIn(s, a + k - 1) # c
  BY <1>1, <1>7
<1>8. (\A k \in 2 .. Len(t) - 1 : t[k] # CharIn(s, a)) <=>
        \A k \in 2 .. b - a - 1 : CharIn(s, a + k - 1) # CharIn(s, a)
  BY <1>2, <1>5
<1> QED
  BY <1>3, <1>4, <1>6, <1>7, <1>8 DEF String, StringIn, t

-----------------------------------------------------------------------------
SingleIn(s, a, b) == b = a + 1 /\ CharIn(s, a) \in DOMAIN Single
DoubleIn(s, a, b) == b = a + 2 /\ <<CharIn(s, a), CharIn(s, a + 1)>> \in DOMAIN Double

LEMMA Doubles ==
  \A p \in DOMAIN Double :
    /\ p[1] \in {":", ".", "|", "&", "=", ">", "<", "!"} /\ p[2] \in {":", ".", "|", "&", "="}
    /\ p = <<p[1], p[2]>> /\ Len(p) = 2
<1>1. DOMAIN Double = {<<":", ":">>, <<".", ".">>, <<"|", "|">>, <<"&", "&">>,
                       <<"=", "=">>, <<">", "=">>, <<"<", "=">>, <<"!", "=">>}
  BY DEF Double
<1> QED
  BY <1>1

\* A text of some type other than ERROR.
TokenIn(s, a, b) ==
  NumberIn(s, a, b) \/ WordIn(s, a, b) \/ StringIn(s, a, b) \/ SingleIn(s, a, b) \/ DoubleIn(s, a, b)

LEMMA TypedText ==
  ASSUME NEW s \in Seq(STRING), NEW a \in 1 .. LastIn(s), NEW b \in a .. LastIn(s), a < b,
         NEW type \in TypesOf(TextIn(s, a, b)), type # "ERROR"
  PROVE  TokenIn(s, a, b)
<1>1. a \in Nat /\ b \in Nat /\ a <= b
  BY LastIsNat
<1> DEFINE t == TextIn(s, a, b)
<1>2. /\ t \in Seq(STRING) /\ Len(t) = b - a /\ \A i \in 1 .. b - a : t[i] = CharIn(s, a + i - 1)
      /\ t # <<>>
  BY <1>1, TextChars
<1>3. /\ Number(t) <=> DigitsIn(s, a, b)
      /\ Float(t) <=> DecimalIn(s, a, b) \/ PowerIn(s, a, b)
      /\ Word(t) <=> WordIn(s, a, b)
      /\ String(t) <=> StringIn(s, a, b)
  BY NumberText, FloatText, WordText, StringText
<1>4. type \in TypesOf(t)
  OBVIOUS
<1> HIDE DEF t
<1>5. \/ Number(t) \/ Float(t) \/ String(t) \/ Word(t)
      \/ Len(t) = 1 /\ t[1] \in DOMAIN Single
      \/ t \in DOMAIN Double \/ t \in DOMAIN Keywords
  BY <1>2, <1>4, Zenon DEF TypesOf
<1>6. CASE Len(t) = 1 /\ t[1] \in DOMAIN Single
  <2>1. b = a + 1 /\ 1 \in 1 .. b - a /\ a + 1 - 1 = a
    <3>1. b - a = 1
      BY <1>2, <1>6
    <3> QED
      BY ONLY <1>1, <3>1
  <2>2. t[1] = CharIn(s, a)
    BY <1>2, <2>1
  <2> QED
    BY <1>6, <2>1, <2>2 DEF TokenIn, SingleIn
<1>7. CASE t \in DOMAIN Double
  <2>1. Len(t) = 2 /\ t = <<t[1], t[2]>>
    BY <1>7, Doubles
  <2>2. b = a + 2 /\ 1 \in 1 .. b - a /\ 2 \in 1 .. b - a /\ a + 1 - 1 = a /\ a + 2 - 1 = a + 1
    <3>1. b - a = 2
      BY <1>2, <2>1
    <3> QED
      BY ONLY <1>1, <3>1
  <2>3. t[1] = CharIn(s, a) /\ t[2] = CharIn(s, a + 1)
    BY <1>2, <2>2
  <2> QED
    BY <1>7, <2>1, <2>2, <2>3 DEF TokenIn, DoubleIn
<1>8. CASE t \in DOMAIN Keywords
  <2>1. t \in Seq(Letters \union Digits) /\ t[1] \in Letters
    BY <1>8, KeywordsAssumption
  <2>2. Word(t)
    BY <1>2, <2>1 DEF Word, AllIn
  <2> QED
    BY <1>3, <2>2 DEF TokenIn
<1> QED
  BY <1>3, <1>5, <1>6, <1>7, <1>8 DEF TokenIn, NumberIn

LEMMA NumberBegins ==
  ASSUME NEW s, NEW a \in Int, NEW b \in Int, NumberIn(s, a, b)
  PROVE  CharIn(s, a) \in Digits
<1>1. \A k \in Int : DigitsIn(s, a, k) => CharIn(s, a) \in Digits
  BY DEF DigitsIn
<1>2. \A k \in Int : DecimalIn(s, a, k) => CharIn(s, a) \in Digits
  BY <1>1 DEF DecimalIn
<1>3. \A k \in Int : ExponentIn(s, a, k) => CharIn(s, a) \in Digits
  BY <1>1, <1>2 DEF ExponentIn
<1>4. \A k \in Int : SignIn(s, a, k) => CharIn(s, a) \in Digits
  BY <1>3 DEF SignIn
<1>5. PowerIn(s, a, b) => CharIn(s, a) \in Digits
  BY <1>3, <1>4 DEF PowerIn
<1> QED
  BY <1>1, <1>2, <1>5 DEF NumberIn

\* The first character of a token says what kind it is of.
LEMMA FirstCharacter ==
  ASSUME NEW s, NEW a \in Int, NEW b \in Int, TokenIn(s, a, b)
  PROVE  /\ CharIn(s, a) \in Digits => NumberIn(s, a, b)
         /\ CharIn(s, a) \in Letters => WordIn(s, a, b)
         /\ CharIn(s, a) \in Quotes => StringIn(s, a, b)
         /\ CharIn(s, a) \notin Digits \union Letters \union Quotes =>
              SingleIn(s, a, b) \/ DoubleIn(s, a, b)
<1> DEFINE c == CharIn(s, a)
<1>1. /\ NumberIn(s, a, b) => c \in Digits
      /\ WordIn(s, a, b) => c \in Letters
      /\ StringIn(s, a, b) => c \in Quotes
  BY NumberBegins DEF WordIn, StringIn
<1>2. SingleIn(s, a, b) => c \in DOMAIN Single
  BY DEF SingleIn
<1>3. DoubleIn(s, a, b) => c \in {p[1] : p \in DOMAIN Double}
  <2> SUFFICES ASSUME DoubleIn(s, a, b) PROVE \E p \in DOMAIN Double : c = p[1]
    OBVIOUS
  <2>1. <<c, CharIn(s, a + 1)>> \in DOMAIN Double /\ <<c, CharIn(s, a + 1)>>[1] = c
    BY DEF DoubleIn
  <2> QED
    BY <2>1
<1>4. /\ Letters \intersect Digits = {}
      /\ \A d \in Letters \union Digits :
           d \notin Quotes \union DOMAIN Single \union {p[1] : p \in DOMAIN Double}
  BY AlphabetAssumption
<1>5. \A q \in Quotes : q \notin DOMAIN Single
  BY DEF Quotes, Single
<1>6. \A q \in Quotes : q \notin {p[1] : p \in DOMAIN Double}
  <2>1. \A p \in DOMAIN Double : p[1] \in {":", ".", "|", "&", "=", ">", "<", "!"}
    BY Doubles
  <2> QED
    BY <2>1 DEF Quotes
<1> HIDE DEF c
<1>7. TokenIn(s, a, b) => NumberIn(s, a, b) \/ WordIn(s, a, b) \/ StringIn(s, a, b)
                            \/ SingleIn(s, a, b) \/ DoubleIn(s, a, b)
  BY DEF TokenIn
<1>8. /\ c \in Digits => NumberIn(s, a, b)
      /\ c \in Letters => WordIn(s, a, b)
      /\ c \in Quotes => StringIn(s, a, b)
      /\ c \notin Digits \union Letters \union Quotes => SingleIn(s, a, b) \/ DoubleIn(s, a, b)
  BY <1>1, <1>2, <1>3, <1>4, <1>5, <1>6, <1>7
<1> QED
  BY <1>8 DEF c

-----------------------------------------------------------------------------
(* LongestTokens says this of each token. *)
Longer(s, t) == {p \in t.to + 1 .. LastIn(s) : TypesOf(TextIn(s, t.from, p)) \ {"ERROR"} # {}}

OpenIn(s, t) ==
  /\ t.type = "STRING" /\ t.to = LastIn(s) /\ CharIn(s, t.from) \in Quotes
  /\ \A p \in t.from + 1 .. LastIn(s) - 1 : CharIn(s, p) # CharIn(s, t.from)

WithNextIn(s, t) ==
  /\ CharIn(s, t.from) = "!" /\ CharIn(s, t.from + 1) # "="
  /\ t.to = IF t.from + 1 < LastIn(s) THEN t.from + 2 ELSE LastIn(s)

LongestIn(s, t) ==
  CASE t.type = "BANG" -> WithNextIn(s, t)
    [] t.type = "EOF" /\ t.from < LastIn(s) -> TypesOf(TextIn(s, t.from, t.from + 1)) = {}
    [] t.type = "ERROR" /\ BeginsIn(s, t.to - 1, <<".", ".">>) -> FALSE
    [] OTHER -> /\ t.type \in TypesOf(TextIn(s, t.from, t.to)) \/ OpenIn(s, t)
                /\ Longer(s, t) = {}

LEMMA SameLongest ==
  LongestTokens <=> \A k \in DOMAIN tokens : LongestIn(source, tokens[k])
<1>1. End = LastIn(source)
  BY DEF End, LastIn
<1>2. \A p : Char(p) = CharIn(source, p)
  BY DEF Char, CharIn
<1>3. \A p, t : Begins(p, t) <=> BeginsIn(source, p, t)
  BY <1>2 DEF Begins, BeginsIn
<1>4. \A p, q : Text(p, q) = TextIn(source, p, q)
  BY DEF Text, TextIn
<1> QED
  BY <1>1, <1>2, <1>3, <1>4, ZenonT(60)
  DEF LongestTokens, LongestIn, Longer, Unknown, LeftOpen, OpenIn, WithTheNext, WithNextIn

\* No token is longer than t.
LEMMA NothingLonger ==
  ASSUME NEW s \in Seq(STRING), NEW t, t.from \in 1 .. LastIn(s), t.to \in t.from .. LastIn(s),
         \A p \in t.to + 1 .. LastIn(s) : ~TokenIn(s, t.from, p)
  PROVE  Longer(s, t) = {}
<1> SUFFICES ASSUME NEW p \in t.to + 1 .. LastIn(s), NEW type \in TypesOf(TextIn(s, t.from, p)),
                    type # "ERROR"
             PROVE  FALSE
  BY DEF Longer
<1>1. p \in t.from .. LastIn(s) /\ t.from < p
  BY LastIsNat
<1> QED
  BY <1>1, TypedText

LEMMA OrdinaryToken ==
  ASSUME NEW s, NEW t, t.type \notin {"BANG", "EOF", "ERROR"},
         t.type \in TypesOf(TextIn(s, t.from, t.to)) \/ OpenIn(s, t), Longer(s, t) = {}
  PROVE  LongestIn(s, t)
  BY Zenon DEF LongestIn

LEMMA ErrorToken ==
  ASSUME NEW s, NEW t, t.type = "ERROR", ~BeginsIn(s, t.to - 1, <<".", ".">>),
         "ERROR" \in TypesOf(TextIn(s, t.from, t.to)), Longer(s, t) = {}
  PROVE  LongestIn(s, t)
<1>1. t.type # "BANG" /\ t.type # "EOF"
  OBVIOUS
<1> QED
  BY <1>1, Zenon DEF LongestIn

(* A number that the lexer returns, with the character it stopped at. *)
NumberEnds(s, t) ==
  LET c == CharIn(s, t.to) IN
    \/ /\ t.type = "INTEGER" /\ DigitsIn(s, t.from, t.to) /\ c \notin Digits \union Exponents
       /\ c = "." => CharIn(s, t.to + 1) = "."
    \/ /\ t.type = "FLOAT"
       /\ \/ DecimalIn(s, t.from, t.to) /\ c \notin Digits \union Exponents
          \/ PowerIn(s, t.from, t.to) /\ c \notin Digits
    \/ /\ t.type = "ERROR"
       /\ \/ PointIn(s, t.from, t.to) /\ c \notin Digits \union {"."}
          \/ ExponentIn(s, t.from, t.to) /\ c \notin Digits \union Signs
          \/ SignIn(s, t.from, t.to) /\ c \notin Digits

LEMMA NumberToken ==
  ASSUME NEW s \in Seq(STRING), NEW t, t.from \in 1 .. LastIn(s), t.to \in t.from .. LastIn(s),
         NumberEnds(s, t)
  PROVE  LongestIn(s, t)
<1> DEFINE a == t.from
           b == t.to
           c == CharIn(s, b)
<1>1. LastIn(s) \in Nat /\ a \in Nat /\ b \in Nat /\ a <= b /\ a \in 1 .. LastIn(s) /\ b \in a .. LastIn(s)
  BY LastIsNat
<1>2. PartIn(s, a, b)
  BY DEF NumberEnds, PartIn, NumberIn
<1>3. CharIn(s, a) \in Digits
  <2>1. ~NumberIn(s, a, b) => PointIn(s, a, b) \/ ExponentIn(s, a, b) \/ SignIn(s, a, b)
    BY <1>2 DEF PartIn
  <2>2. \A k \in Int : ExponentIn(s, a, k) => NumberIn(s, a, k - 1)
    BY DEF ExponentIn, NumberIn
  <2>3. SignIn(s, a, b) => NumberIn(s, a, b - 1 - 1)
    BY <1>1, <2>2 DEF SignIn
  <2>4. PointIn(s, a, b) => NumberIn(s, a, b - 1)
    BY DEF PointIn, NumberIn
  <2>5. ExponentIn(s, a, b) => NumberIn(s, a, b - 1)
    BY <1>1, <2>2
  <2>6. PICK k \in Int : NumberIn(s, a, k)
    BY <1>1, <2>1, <2>3, <2>4, <2>5
  <2> QED
    BY <1>1, <2>6, NumberBegins
<1>4. a < b
  BY <1>1 DEF NumberEnds, DigitsIn, DecimalIn, PowerIn, PointIn, ExponentIn, SignIn
<1>5. ASSUME NEW e \in b + 1 .. LastIn(s) PROVE ~NumberIn(s, a, e)
  <2>1. e \in Int /\ b < e
    BY <1>1
  <2>2. CASE t.type = "INTEGER"
    BY <1>1, <2>1, <2>2, LongestInteger DEF NumberEnds
  <2>3. CASE t.type # "INTEGER"
    <3>1. \/ PointIn(s, a, b) /\ c \notin Digits
          \/ DecimalIn(s, a, b) /\ c \notin Digits \union Exponents
          \/ ExponentIn(s, a, b) /\ c \notin Digits \union Signs
          \/ SignIn(s, a, b) /\ c \notin Digits
          \/ PowerIn(s, a, b) /\ c \notin Digits
      BY <2>3 DEF NumberEnds
    <3>2. a \in Int /\ b \in Int
      BY <1>1
    <3> HIDE DEF a, b
    <3> QED
      BY <1>4, <2>1, <3>1, <3>2, LongestPart DEF c
  <2> QED
    BY <2>2, <2>3
<1>6. Longer(s, t) = {}
  <2>1. ASSUME NEW e \in b + 1 .. LastIn(s), TokenIn(s, a, e) PROVE FALSE
    <3>1. e \in Int
      BY <1>1
    <3>2. NumberIn(s, a, e)
      BY <1>1, <1>3, <2>1, <3>1, FirstCharacter
    <3> QED
      BY <1>5, <3>2
  <2> QED
    BY <2>1, NothingLonger
<1>7. CASE t.type = "INTEGER"
  <2>1. Number(TextIn(s, a, b))
    BY <1>1, <1>7, NumberText DEF NumberEnds
  <2>2. "INTEGER" \in TypesOf(TextIn(s, a, b))
    BY <2>1, TypesOfScanned, Zenon DEF TypesOf
  <2> QED
    BY <1>6, <1>7, <2>2, OrdinaryToken
<1>8. CASE t.type = "FLOAT"
  <2>1. Float(TextIn(s, a, b))
    BY <1>1, <1>8, FloatText DEF NumberEnds
  <2>2. "FLOAT" \in TypesOf(TextIn(s, a, b))
    BY <2>1, TypesOfScanned, Zenon DEF TypesOf
  <2> QED
    BY <1>6, <1>8, <2>2, OrdinaryToken
<1>9. CASE t.type = "ERROR"
  <2>1. PointIn(s, a, b) \/ ExponentIn(s, a, b) \/ SignIn(s, a, b)
    BY <1>9 DEF NumberEnds
  <2>2. Len(TextIn(s, a, b)) > 1 /\ Broken(TextIn(s, a, b))
    BY <1>1, <2>1, BrokenText
  <2>3. "ERROR" \in TypesOf(TextIn(s, a, b))
    BY <2>2, TypesOfScanned, Zenon DEF TypesOf
  <2>4. ~BeginsIn(s, b - 1, <<".", ".">>)
    <3> SUFFICES ASSUME BeginsIn(s, b - 1, <<".", ".">>) PROVE FALSE
      OBVIOUS
    <3>1. CharIn(s, b - 1) = "." /\ CharIn(s, b) = "."
      <4>1. b - 1 + 1 = b /\ b - 1 \in Int
        BY <1>1
      <4> QED
        BY <4>1, BeginsChars
    <3>2. ExponentIn(s, a, b) => CharIn(s, b - 1) \in Exponents
      BY DEF ExponentIn
    <3>3. SignIn(s, a, b) => CharIn(s, b - 1) \in Signs
      BY DEF SignIn
    <3>4. PointIn(s, a, b) /\ c # "."
      BY <1>9, <3>1, <3>2, <3>3, NumberChars DEF NumberEnds
    <3> QED
      BY <3>1, <3>4
  <2> QED
    BY <1>6, <1>9, <2>3, <2>4, ErrorToken
<1> QED
  BY <1>7, <1>8, <1>9 DEF NumberEnds

LEMMA WordToken ==
  ASSUME NEW s \in Seq(STRING), NEW t, t.from \in 1 .. LastIn(s), t.to \in t.from .. LastIn(s),
         WordIn(s, t.from, t.to), CharIn(s, t.to) \notin Letters \union Digits,
         t.type = WordType(TextIn(s, t.from, t.to))
  PROVE  LongestIn(s, t)
<1> DEFINE a == t.from
           b == t.to
           word == TextIn(s, a, b)
<1>1. LastIn(s) \in Nat /\ a \in Nat /\ b \in Nat /\ a \in 1 .. LastIn(s) /\ b \in a .. LastIn(s)
  BY LastIsNat
<1>2. Word(word)
  BY <1>1, WordText
<1>3. Longer(s, t) = {}
  <2>1. ASSUME NEW e \in b + 1 .. LastIn(s), TokenIn(s, a, e) PROVE FALSE
    <3>1. e \in Int
      BY <1>1
    <3>2. CharIn(s, a) \in Letters
      BY DEF WordIn
    <3>3. WordIn(s, a, e)
      BY <1>1, <2>1, <3>1, <3>2, FirstCharacter
    <3>4. b \in a .. e - 1
      BY <1>1
    <3> QED
      BY <3>3, <3>4 DEF WordIn
  <2> QED
    BY <2>1, NothingLonger
<1>4. t.type \in TokenTypes
  BY TypesOfScanned
<1>5. CASE word \notin DOMAIN Keywords
  <2>1. t.type = "IDENTIFIER"
    BY <1>5 DEF WordType
  <2>2. "IDENTIFIER" \in TypesOf(word)
    BY <1>2, <1>4, <1>5, <2>1, Zenon DEF TypesOf
  <2> QED
    BY <1>3, <2>1, <2>2, OrdinaryToken
<1>6. CASE word \in DOMAIN Keywords
  <2>1. t.type = IF Keywords[word] = "FALSE" THEN "TRUE" ELSE Keywords[word]
    BY <1>6 DEF WordType
  <2>2. Keywords[word] \notin {"IDENTIFIER", "INTEGER", "FLOAT", "STRING", "BANG", "ERROR", "EOF"}
    BY <1>6, KeywordsAssumption
  <2>3. /\ t.type # "IDENTIFIER" /\ t.type # "INTEGER" /\ t.type # "FLOAT" /\ t.type # "STRING"
        /\ t.type # "BANG" /\ t.type # "ERROR" /\ t.type # "EOF"
    BY <2>1, <2>2
  <2> HIDE DEF word
  <2>4. t.type \in TypesOf(word)
    BY <1>4, <1>6, <2>1, <2>3, Zenon DEF TypesOf
  <2> QED
    BY <1>3, <2>3, <2>4, OrdinaryToken DEF word
<1> QED
  BY <1>5, <1>6

\* A string ends at its second quote, or where the source does.
LEMMA StringToken ==
  ASSUME NEW s \in Seq(STRING), NEW t, t.from \in 1 .. LastIn(s), t.to \in t.from .. LastIn(s),
         t.type = "STRING", StringIn(s, t.from, t.to) \/ OpenIn(s, t)
  PROVE  LongestIn(s, t)
<1> DEFINE a == t.from
           b == t.to
<1>1. LastIn(s) \in Nat /\ a \in Nat /\ b \in Nat /\ a \in 1 .. LastIn(s) /\ b \in a .. LastIn(s)
  BY LastIsNat
<1>2. "STRING" \in TypesOf(TextIn(s, a, b)) \/ OpenIn(s, t)
  <2> SUFFICES ASSUME StringIn(s, a, b) PROVE "STRING" \in TypesOf(TextIn(s, a, b))
    OBVIOUS
  <2>1. String(TextIn(s, a, b))
    BY <1>1, StringText
  <2> QED
    BY <2>1, TypesOfScanned, Zenon DEF TypesOf
<1>3. Longer(s, t) = {}
  <2>1. ASSUME NEW e \in b + 1 .. LastIn(s), TokenIn(s, a, e) PROVE FALSE
    <3>1. e \in Int /\ b < LastIn(s) /\ b < e
      BY <1>1
    <3>2. StringIn(s, a, b)
      BY <3>1 DEF OpenIn
    <3>3. CharIn(s, a) \in Quotes
      BY <3>2 DEF StringIn
    <3>4. StringIn(s, a, e)
      BY <1>1, <2>1, <3>1, <3>3, FirstCharacter
    <3>5. b - 1 \in a + 1 .. e - 2 /\ CharIn(s, b - 1) = CharIn(s, a)
      BY <1>1, <3>1, <3>2 DEF StringIn
    <3> QED
      BY <3>4, <3>5 DEF StringIn
  <2> QED
    BY <2>1, NothingLonger
<1> QED
  BY <1>2, <1>3, OrdinaryToken

LEMMA SymbolTypesApart ==
  LET others == {"EOF", "ERROR", "INTEGER", "FLOAT", "STRING", "IDENTIFIER"} IN
  /\ \A p \in DOMAIN Double : Double[p] \notin others \union {"BANG"}
  /\ \A c \in DOMAIN Single : Single[c] \notin others /\ (Single[c] = "BANG" <=> c = "!")
<1>1. \A p \in DOMAIN Double :
        Double[p] \in {"SCOPE", "DOTDOT", "OR", "AND", "EQ", "GTE", "LTE", "NEQ"}
  BY DEF Double
<1>2. \A c \in DOMAIN Single :
        Single[c] \notin {"EOF", "ERROR", "INTEGER", "FLOAT", "STRING", "IDENTIFIER"}
  BY ZenonT(40) DEF Single
<1>3. \A c \in DOMAIN Single : Single[c] = "BANG" <=> c = "!"
  BY ZenonT(40) DEF Single
<1> QED
  BY <1>1, <1>2, <1>3

(* A symbol of one or of two characters, and a character that is none. *)
LEMMA SymbolToken ==
  ASSUME NEW s \in Seq(STRING), NEW t, t.from \in 1 .. LastIn(s) - 1, t.to \in t.from .. LastIn(s),
         CharIn(s, t.from) \notin Letters \union Digits \union Quotes,
         LET c    == CharIn(s, t.from)
             pair == <<c, CharIn(s, t.from + 1)>>
         IN \/ pair \in DOMAIN Double /\ t.type = Double[pair] /\ t.to = t.from + 2
            \/ /\ pair \notin DOMAIN Double /\ c \in DOMAIN Single /\ t.type = Single[c]
               /\ c # "!" => t.to = t.from + 1
               /\ c = "!" => t.to = IF t.from + 1 < LastIn(s) THEN t.from + 2 ELSE LastIn(s)
            \/ pair \notin DOMAIN Double /\ c \notin DOMAIN Single /\ t.type = "EOF"
  PROVE  LongestIn(s, t)
<1> DEFINE a == t.from
           b == t.to
           c == CharIn(s, a)
           d == CharIn(s, a + 1)
<1>1. LastIn(s) \in Nat /\ a \in Nat /\ b \in Nat /\ a \in 1 .. LastIn(s) /\ b \in a .. LastIn(s)
      /\ a < LastIn(s) /\ a <= b
  BY LastIsNat
<1>2. ASSUME NEW e \in a .. LastIn(s), TokenIn(s, a, e) PROVE SingleIn(s, a, e) \/ DoubleIn(s, a, e)
  BY <1>1, <1>2, FirstCharacter
<1>3. ASSUME NEW e \in a .. LastIn(s)
      PROVE  /\ TextIn(s, a, e) \in Seq(STRING) /\ Len(TextIn(s, a, e)) = e - a
             /\ \A i \in 1 .. e - a : TextIn(s, a, e)[i] = CharIn(s, a + i - 1)
  <2> HIDE DEF a
  <2> QED
    BY <1>1, TextChars
<1>4. CASE <<c, d>> \in DOMAIN Double /\ t.type = Double[<<c, d>>] /\ b = a + 2
  <2> DEFINE pair == TextIn(s, a, b)
  <2>1. pair = <<c, d>>
    <3>1. b - a = 2 /\ 1 \in 1 .. b - a /\ 2 \in 1 .. b - a /\ a + 1 - 1 = a /\ a + 2 - 1 = a + 1
      BY <1>1, <1>4
    <3>2. pair \in Seq(STRING) /\ Len(pair) = b - a /\ \A i \in 1 .. b - a : pair[i] = CharIn(s, a + i - 1)
      BY <1>1, <1>3
    <3> HIDE DEF pair
    <3>3. Len(pair) = 2 /\ pair[1] = c /\ pair[2] = d
      BY <3>1, <3>2
    <3> HIDE DEF c, d
    <3>4. c \in STRING /\ d \in STRING
      <4>1. 1 \in 1 .. Len(pair) /\ 2 \in 1 .. Len(pair)
        BY ONLY <3>3
      <4>2. pair \in Seq(STRING)
        BY <3>2
      <4>3. pair[1] \in STRING /\ pair[2] \in STRING
        BY ONLY <4>1, <4>2, ElementOfSeq
      <4> QED
        BY <3>3, <4>3
    <3>5. <<c, d>> \in Seq(STRING) /\ Len(<<c, d>>) = 2 /\ <<c, d>>[1] = c /\ <<c, d>>[2] = d
      BY <3>4
    <3>6. pair \in Seq(STRING) /\ \A i \in 1 .. 2 : pair[i] = <<c, d>>[i]
      BY <3>2, <3>3, <3>5
    <3>7. \A i \in 1 .. Len(pair) : pair[i] = <<c, d>>[i]
      BY <3>3, <3>6
    <3> QED
      BY ONLY <3>3, <3>5, <3>6, <3>7, SeqEqual
  <2>2. /\ t.type # "IDENTIFIER" /\ t.type # "INTEGER" /\ t.type # "FLOAT" /\ t.type # "STRING"
        /\ t.type # "BANG" /\ t.type # "ERROR" /\ t.type # "EOF"
    BY <1>4, SymbolTypesApart
  <2>3. pair \in DOMAIN Double /\ t.type = Double[pair] /\ t.type \in TokenTypes
    BY <1>4, <2>1, TypesOfScanned
  <2>4. Longer(s, t) = {}
    <3>1. \A e \in b + 1 .. LastIn(s) : ~SingleIn(s, a, e) /\ ~DoubleIn(s, a, e) /\ e \in a .. LastIn(s)
      BY <1>1, <1>4 DEF SingleIn, DoubleIn
    <3> QED
      BY <1>1, <1>2, <3>1, NothingLonger
  <2> HIDE DEF pair
  <2>5. t.type \in TypesOf(pair)
    BY <2>2, <2>3, Zenon DEF TypesOf
  <2> QED
    BY <2>2, <2>4, <2>5, OrdinaryToken DEF pair
<1>5. CASE /\ <<c, d>> \notin DOMAIN Double /\ c \in DOMAIN Single /\ t.type = Single[c]
           /\ c # "!" => b = a + 1
           /\ c = "!" => b = IF a + 1 < LastIn(s) THEN a + 2 ELSE LastIn(s)
  <2>1. CASE c = "!"
    <3>1. t.type = "BANG"
      BY <1>5, <2>1, SymbolTypesApart
    <3>2. d # "="
      BY <1>5, <2>1 DEF Double
    <3> QED
      BY <1>5, <2>1, <3>1, <3>2, Zenon DEF LongestIn, WithNextIn
  <2>2. CASE c # "!"
    <3> DEFINE word == TextIn(s, a, b)
    <3>1. Len(word) = 1 /\ word[1] = c
      <4>1. b - a = 1 /\ 1 \in 1 .. b - a /\ a + 1 - 1 = a
        BY <1>1, <1>5, <2>2
      <4>2. Len(word) = b - a /\ \A i \in 1 .. b - a : word[i] = CharIn(s, a + i - 1)
        BY <1>1, <1>3
      <4> HIDE DEF word
      <4> QED
        BY <4>1, <4>2
    <3>2. /\ t.type # "IDENTIFIER" /\ t.type # "INTEGER" /\ t.type # "FLOAT" /\ t.type # "STRING"
          /\ t.type # "BANG" /\ t.type # "ERROR" /\ t.type # "EOF"
      BY <1>5, <2>2, SymbolTypesApart
    <3>3. word[1] \in DOMAIN Single /\ t.type = Single[word[1]] /\ t.type \in TokenTypes
      BY <1>5, <3>1, TypesOfScanned
    <3>4. Longer(s, t) = {}
      <4>1. \A e \in b + 1 .. LastIn(s) : ~SingleIn(s, a, e) /\ ~DoubleIn(s, a, e) /\ e \in a .. LastIn(s)
        BY <1>1, <1>5, <2>2 DEF SingleIn, DoubleIn
      <4> QED
        BY <1>1, <1>2, <4>1, NothingLonger
    <3> HIDE DEF word
    <3>5. t.type \in TypesOf(word)
      BY <3>1, <3>2, <3>3, Zenon DEF TypesOf
    <3> QED
      BY <3>2, <3>4, <3>5, OrdinaryToken DEF word
  <2> QED
    BY <2>1, <2>2
<1>6. CASE <<c, d>> \notin DOMAIN Double /\ c \notin DOMAIN Single /\ t.type = "EOF"
  <2> DEFINE word == TextIn(s, a, a + 1)
  <2>1. a + 1 \in a .. LastIn(s) /\ a + 1 - a = 1 /\ a < a + 1
    BY <1>1
  <2>2. Len(word) = 1
    <3>1. Len(word) = a + 1 - a
      BY <2>1, <1>3
    <3> QED
      BY <2>1, <3>1
  <2>3. ~TokenIn(s, a, a + 1)
    <3>1. ~SingleIn(s, a, a + 1) /\ ~DoubleIn(s, a, a + 1)
      BY <1>1, <1>6 DEF SingleIn, DoubleIn
    <3> QED
      BY <1>2, <2>1, <3>1
  <2>4. ASSUME NEW type \in TypesOf(word) PROVE FALSE
    <3>1. CASE type = "ERROR"
      <4> HIDE DEF word
      <4>1. Len(word) > 1
        BY <2>4, <3>1, Zenon DEF TypesOf
      <4> QED
        BY <2>2, <4>1
    <3>2. CASE type # "ERROR"
      BY <1>1, <2>1, <2>3, <2>4, <3>2, TypedText
    <3> QED
      BY <3>1, <3>2
  <2>5. t.type # "BANG" /\ t.type # "ERROR" /\ t.type = "EOF" /\ t.from < LastIn(s)
    BY <1>1, <1>6
  <2> QED
    BY <2>4, <2>5, Zenon DEF LongestIn
<1> QED
  BY <1>4, <1>5, <1>6

LEMMA EndToken ==
  ASSUME NEW s \in Seq(STRING), NEW t, t.from = LastIn(s), t.to = LastIn(s), t.type = "EOF"
  PROVE  LongestIn(s, t)
<1>1. LastIn(s) \in Nat /\ LastIn(s) \in 1 .. LastIn(s) /\ LastIn(s) \in LastIn(s) .. LastIn(s)
      /\ ~(LastIn(s) < LastIn(s))
  BY LastIsNat DEF LastIn
<1>2. TextIn(s, t.from, t.to) = <<>>
  BY <1>1, TextChars
<1>3. "EOF" \in TypesOf(<<>>)
  BY TypesOfScanned, Zenon DEF TypesOf
<1>4. t.to + 1 .. LastIn(s) = {}
  BY <1>1
<1>5. Longer(s, t) = {}
  BY <1>4 DEF Longer
<1>6. t.type # "BANG" /\ t.type # "ERROR" /\ ~(t.from < LastIn(s))
  BY <1>1
<1> QED
  BY <1>2, <1>3, <1>5, <1>6, Zenon DEF LongestIn

-----------------------------------------------------------------------------
(* What the scanning functions have read so far.  The first digit of a fraction and
   of an exponent is seen before it is read. *)
RunIn(s, a, p) == CharIn(s, a) \in Digits /\ \A i \in a .. p - 1 : CharIn(s, i) \in Digits
FractionIn(s, a, p) == \E k \in a + 1 .. p - 1 :
  DigitsIn(s, a, k) /\ CharIn(s, k) = "." /\ RunIn(s, k + 1, p)
ExponentRunIn(s, a, p) == \E k \in a + 1 .. p :
  (ExponentIn(s, a, k) \/ SignIn(s, a, k)) /\ RunIn(s, k, p)

Scanned(s, p, n) ==
  /\ n.in = "digits"   => RunIn(s, n.start, p)
  /\ n.in = "point"    => PointIn(s, n.start, p) /\ CharIn(s, p) # "."
  /\ n.in = "fraction" => FractionIn(s, n.start, p)
  /\ n.in = "exponent" => ExponentIn(s, n.start, p)
  /\ n.in = "power"    => ExponentRunIn(s, n.start, p)
  /\ n.in = "word"     => /\ CharIn(s, n.start) \in Letters
                          /\ \A i \in n.start .. p - 1 : CharIn(s, i) \in Letters \union Digits
  /\ n.in = "string"   => /\ n.start < p /\ n.quote = CharIn(s, n.start) /\ n.quote \in Quotes
                          /\ \A i \in n.start + 1 .. p - 1 : CharIn(s, i) # n.quote

AllLongest == \A k \in DOMAIN tokens : LongestIn(source, tokens[k])

\* The inductive invariant of LongestTokens, beside LInv and what Skipping says of NUL.
Longest == AllLongest /\ Scanned(source, lexer.position, scan)

LEMMA RunsGrow ==
  ASSUME NEW s, NEW a \in Int, NEW p \in Int, a <= p, CharIn(s, p) \in Digits
  PROVE  /\ RunIn(s, a, p) => RunIn(s, a, p + 1)
         /\ FractionIn(s, a, p) => FractionIn(s, a, p + 1)
         /\ ExponentRunIn(s, a, p) => ExponentRunIn(s, a, p + 1)
<1>1. ASSUME NEW k \in Int, RunIn(s, k, p) PROVE RunIn(s, k, p + 1)
  BY <1>1 DEF RunIn
<1>2. RunIn(s, a, p) => RunIn(s, a, p + 1)
  BY <1>1
<1>3. ASSUME FractionIn(s, a, p) PROVE FractionIn(s, a, p + 1)
  <2>1. PICK k \in a + 1 .. p - 1 : DigitsIn(s, a, k) /\ CharIn(s, k) = "." /\ RunIn(s, k + 1, p)
    BY <1>3 DEF FractionIn
  <2>2. k + 1 \in Int /\ k \in a + 1 .. p + 1 - 1
    OBVIOUS
  <2> QED
    BY <1>1, <2>1, <2>2 DEF FractionIn
<1>4. ASSUME ExponentRunIn(s, a, p) PROVE ExponentRunIn(s, a, p + 1)
  <2>1. PICK k \in a + 1 .. p : (ExponentIn(s, a, k) \/ SignIn(s, a, k)) /\ RunIn(s, k, p)
    BY <1>4 DEF ExponentRunIn
  <2>2. k \in Int /\ k \in a + 1 .. p + 1
    OBVIOUS
  <2> QED
    BY <1>1, <2>1, <2>2 DEF ExponentRunIn
<1> QED
  BY <1>2, <1>3, <1>4

LEMMA RunsEnd ==
  ASSUME NEW s, NEW a \in Int, NEW p \in Int, a <= p, CharIn(s, p) \notin Digits
  PROVE  /\ RunIn(s, a, p) => DigitsIn(s, a, p)
         /\ FractionIn(s, a, p) => DecimalIn(s, a, p)
         /\ ExponentRunIn(s, a, p) => PowerIn(s, a, p)
<1>1. ASSUME NEW k \in Int, k <= p, RunIn(s, k, p) PROVE DigitsIn(s, k, p) /\ k < p
  <2>1. k # p
    BY <1>1 DEF RunIn
  <2> QED
    BY <1>1, <2>1 DEF RunIn, DigitsIn
<1>2. RunIn(s, a, p) => DigitsIn(s, a, p)
  BY <1>1
<1>3. ASSUME FractionIn(s, a, p) PROVE DecimalIn(s, a, p)
  <2>1. PICK k \in a + 1 .. p - 1 : DigitsIn(s, a, k) /\ CharIn(s, k) = "." /\ RunIn(s, k + 1, p)
    BY <1>3 DEF FractionIn
  <2>2. DigitsIn(s, k + 1, p) /\ k + 1 < p
    BY <1>1, <2>1
  <2>3. k \in a + 1 .. p - 2
    BY <2>2
  <2> QED
    BY <2>1, <2>2, <2>3 DEF DecimalIn
<1>4. ASSUME ExponentRunIn(s, a, p) PROVE PowerIn(s, a, p)
  <2>1. PICK k \in a + 1 .. p : (ExponentIn(s, a, k) \/ SignIn(s, a, k)) /\ RunIn(s, k, p)
    BY <1>4 DEF ExponentRunIn
  <2>2. DigitsIn(s, k, p) /\ k < p
    BY <1>1, <2>1
  <2>3. k \in a + 1 .. p - 1
    BY <2>2
  <2> QED
    BY <2>1, <2>2, <2>3 DEF PowerIn
<1> QED
  BY <1>2, <1>3, <1>4

-----------------------------------------------------------------------------
LEMMA MoveLongest ==
  ASSUME Longest, NEW c, NEW next, Move(c, next), Scanned(source, c.position, next)
  PROVE  Longest'
<1>1. source' = source /\ tokens' = tokens /\ lexer' = c /\ scan' = next
  BY DEF Move
<1> QED
  BY <1>1 DEF Longest, AllLongest

LEMMA ReturnLongest ==
  ASSUME LInv, Longest, NEW type, NEW from, NEW at, NEW c, Return(type, from, at, c),
         \A t : t.type = type /\ t.from = from /\ t.to = c.position => LongestIn(source, t)
  PROVE  Longest'
<1> DEFINE token == [type |-> type, from |-> from, to |-> c.position,
                     line |-> at.line, column |-> at.column]
<1>1. source' = source /\ lexer' = c /\ tokens' = Append(tokens, token)
  BY DEF Return, token_list_add
<1>2. scan'.in \in {"lex", "done"}
  BY DEF Return, Idle
<1>3. LongestIn(source, token)
  <2>1. token.type = type /\ token.from = from /\ token.to = c.position
    OBVIOUS
  <2> HIDE DEF token
  <2> QED
    BY <2>1
<1>4. tokens \in Seq(Token)
  BY DEF LInv
<1> HIDE DEF token
<1>5. /\ DOMAIN tokens' = 1 .. Len(tokens) + 1 /\ DOMAIN tokens = 1 .. Len(tokens)
      /\ tokens'[Len(tokens) + 1] = token /\ Len(tokens) \in Nat
      /\ \A k \in DOMAIN tokens : tokens'[k] = tokens[k]
  BY <1>1, <1>4
<1>6. \A k \in DOMAIN tokens' : LongestIn(source, tokens'[k])
  <2> SUFFICES ASSUME NEW k \in DOMAIN tokens' PROVE LongestIn(source, tokens'[k])
    OBVIOUS
  <2>1. CASE k \in DOMAIN tokens
    BY <1>5, <2>1 DEF Longest, AllLongest
  <2>2. CASE k = Len(tokens) + 1
    BY <1>3, <1>5, <2>2
  <2> QED
    BY <1>5, <2>1, <2>2
<1>7. Scanned(source, c.position, scan')
  BY <1>2 DEF Scanned
<1> QED
  BY <1>1, <1>6, <1>7 DEF Longest, AllLongest

\* A character that is there is passed.
LEMMA PassingOne ==
  ASSUME LInv, current # NUL
  PROVE  /\ lexer_advance(lexer).position = lexer.position + 1
         /\ lexer.position + 1 \in 1 .. LastIn(source) /\ lexer.position < LastIn(source)
<1>1. lexer.position \in 1 .. LastIn(source) /\ LastIn(source) \in Nat /\ current = CharIn(source, lexer.position)
  BY CharsHere
<1>2. lexer.position \in DOMAIN source
  BY <1>1 DEF CharIn
<1>3. lexer.position < LastIn(source)
  BY <1>1, <1>2, LastIsNat DEF LInv
<1> QED
  BY <1>1, <1>3, AdvancedPosition

\* The place where the token that is scanned begins.
LEMMA ScanPlace ==
  ASSUME LInv, scan.in \in Scanners
  PROVE  /\ scan \in [in : Scanners, start : 1 .. End, column : 1 .. End, quote : Read]
         /\ scan.start \in 1 .. LastIn(source) /\ scan.start \in Nat /\ scan.start <= lexer.position
<1>1. scan \in [in : Scanners, start : 1 .. End, column : 1 .. End, quote : Read]
  BY DEF LInv, Scans, Scanners
<1>2. End = LastIn(source) /\ LastIn(source) \in Nat
  BY LastIsNat DEF End, LastIn, LInv
<1> QED
  BY <1>1, <1>2 DEF LInv

\* Digits, letters, quotes and signs are not the end of the source.
LEMMA NotTheEnd ==
  \A c \in Letters \union Digits \union Quotes \union Signs \union Exponents \union {"."} : c # NUL
<1>1. \A c \in Letters \union Digits : c # NUL
  BY AlphabetAssumption
<1> QED
  BY <1>1 DEF Quotes, Signs, Exponents, NUL

LEMMA IdleLongest ==
  ASSUME Longest, NEW c, NEW next, Move(c, next), next.in \notin Scanners
  PROVE  Longest'
<1>1. Scanned(source, c.position, next)
  BY DEF Scanned, Scanners
<1> QED
  BY <1>1, MoveLongest

\* A token that is returned by a scanning function.
LEMMA ScannedLongest ==
  ASSUME LInv, Longest, NEW type, NEW c, ReturnScanned(type, c),
         \A t : t.type = type /\ t.from = scan.start /\ t.to = c.position => LongestIn(source, t)
  PROVE  Longest'
  BY ReturnLongest DEF ReturnScanned

LEMMA NumbersLongest ==
  ASSUME LInv, Longest, lex_number
  PROVE  Longest'
<1> DEFINE s == source
           p == lexer.position
           a == scan.start
<1>1. /\ s \in Seq(STRING) /\ LastIn(s) \in Nat /\ p \in 1 .. LastIn(s) /\ p \in Nat
      /\ current = CharIn(s, p) /\ \A q : Char(q) = CharIn(s, q)
  BY CharsHere
<1>2. current # NUL => lexer_advance(lexer).position = p + 1 /\ p + 1 \in 1 .. LastIn(s)
  BY PassingOne
<1>3. scan.in \in Scanners => a \in 1 .. LastIn(s) /\ a \in Nat /\ a <= p
  BY ScanPlace
<1>4. ASSUME scan.in \in Scanners, NEW function \in Scanners, NEW c,
             Move(c, [scan EXCEPT !.in = function]),
             \A n : n.in = function /\ n.start = a => Scanned(s, c.position, n)
      PROVE  Longest'
  <2> DEFINE next == [scan EXCEPT !.in = function]
  <2>1. next.in = function /\ next.start = a /\ Move(c, next)
    BY <1>4, ScanPlace
  <2> HIDE DEF next
  <2> QED
    BY <1>4, <2>1, MoveLongest
<1>5. ASSUME scan.in \in Scanners, NEW type, NEW c, ReturnScanned(type, c), c.position \in p .. LastIn(s),
             \A t : t.type = type /\ t.from = a /\ t.to = c.position => NumberEnds(s, t)
      PROVE  Longest'
  <2>1. ASSUME NEW t, t.type = type, t.from = a, t.to = c.position PROVE LongestIn(s, t)
    <3>1. t.from \in 1 .. LastIn(s) /\ t.to \in t.from .. LastIn(s) /\ NumberEnds(s, t)
      BY <1>1, <1>3, <1>5, <2>1
    <3> QED
      BY <1>1, <3>1, NumberToken
  <2> QED
    BY <1>5, <2>1, ScannedLongest
<1>6. p \in p .. LastIn(s)
  BY <1>1
<1> HIDE DEF s, p, a
<1>7. CASE In("lex") /\ current \in Digits /\ Scanning("digits", lexer)
  <2> DEFINE next == [in |-> "digits", start |-> lexer.position, column |-> lexer.column, quote |-> current]
  <2>1. Move(lexer, next) /\ next.in = "digits" /\ next.start = p
    BY <1>7 DEF Scanning, p
  <2> HIDE DEF next
  <2>2. RunIn(s, p, p)
    BY <1>1, <1>7 DEF RunIn
  <2>3. Scanned(s, p, next)
    BY <2>1, <2>2 DEF Scanned
  <2> QED
    BY <2>1, <2>3, MoveLongest DEF s, p
<1>8. CASE In("digits") /\ Continue /\ current \in Digits
  <2>1. scan.in \in Scanners /\ RunIn(s, a, p)
    BY <1>8 DEF In, Scanners, Longest, Scanned, s, a, p
  <2>2. RunIn(s, a, p + 1) /\ lexer_advance(lexer).position = p + 1
    BY <1>1, <1>2, <1>3, <1>8, <2>1, RunsGrow, NotTheEnd
  <2>3. Scanned(s, p + 1, scan)
    BY <1>8, <2>2 DEF Scanned, In, a
  <2> QED
    BY <1>8, <2>2, <2>3, MoveLongest DEF Continue, s
<1>9. CASE /\ In("digits") /\ current \notin Digits
           /\ \/ Point /\ Move(lexer_advance(lexer), [scan EXCEPT !.in = "point"])
              \/ current \in Exponents /\ Move(lexer_advance(lexer), [scan EXCEPT !.in = "exponent"])
              \/ ~Point /\ current \notin Exponents /\ ReturnScanned("INTEGER", lexer)
  <2>1. scan.in \in Scanners /\ DigitsIn(s, a, p)
    <3>1. scan.in \in Scanners /\ RunIn(s, a, p)
      BY <1>9 DEF In, Scanners, Longest, Scanned, s, a, p
    <3> QED
      BY <1>1, <1>3, <1>9, <3>1, RunsEnd
  <2>2. CASE Point /\ Move(lexer_advance(lexer), [scan EXCEPT !.in = "point"])
    <3>1. current = "." /\ CharIn(s, p + 1) # "."
      BY <1>1, <2>2 DEF Point, lexer_peek, p
    <3>2. lexer_advance(lexer).position = p + 1 /\ (p + 1) - 1 = p
      BY <1>1, <1>2, <3>1, NotTheEnd
    <3>3. PointIn(s, a, p + 1)
      <4>1. CharIn(s, p) = "."
        BY <1>1, <3>1
      <4> QED
        BY ONLY <2>1, <3>2, <4>1 DEF PointIn
    <3>4. \A n : n.in = "point" /\ n.start = a => Scanned(s, p + 1, n)
      BY <3>1, <3>3 DEF Scanned
    <3> QED
      BY <1>4, <2>1, <2>2, <3>2, <3>4 DEF Scanners
  <2>3. CASE current \in Exponents /\ Move(lexer_advance(lexer), [scan EXCEPT !.in = "exponent"])
    <3>1. lexer_advance(lexer).position = p + 1 /\ (p + 1) - 1 = p
      BY <1>1, <1>2, <2>3, NotTheEnd
    <3>2. ExponentIn(s, a, p + 1)
      BY <1>1, <2>1, <2>3, <3>1 DEF ExponentIn
    <3>3. \A n : n.in = "exponent" /\ n.start = a => Scanned(s, p + 1, n)
      BY <3>2 DEF Scanned
    <3> QED
      BY <1>4, <2>1, <2>3, <3>1, <3>3 DEF Scanners
  <2>4. CASE ~Point /\ current \notin Exponents /\ ReturnScanned("INTEGER", lexer)
    <3>1. CharIn(s, p) = "." => CharIn(s, p + 1) = "."
      BY <1>1, <2>4 DEF Point, lexer_peek, p
    <3>2. \A t : t.type = "INTEGER" /\ t.from = a /\ t.to = p => NumberEnds(s, t)
      BY <1>1, <1>9, <2>1, <2>4, <3>1 DEF NumberEnds
    <3> QED
      BY <1>5, <1>6, <2>1, <2>4, <3>2 DEF p
  <2> QED
    BY <1>9, <2>2, <2>3, <2>4
<1>10. CASE /\ In("point")
            /\ \/ current \in Digits /\ Enter("fraction")
               \/ current \notin Digits /\ ReturnScanned("ERROR", lexer)
  <2>1. scan.in \in Scanners /\ PointIn(s, a, p) /\ CharIn(s, p) # "."
    BY <1>10 DEF In, Scanners, Longest, Scanned, s, a, p
  <2>2. CASE current \in Digits /\ Enter("fraction")
    <3>1. FractionIn(s, a, p)
      <4>1. DigitsIn(s, a, p - 1) /\ CharIn(s, p - 1) = "." /\ p - 1 + 1 = p
        BY <1>1, <2>1 DEF PointIn
      <4>2. p - 1 \in a + 1 .. p - 1
        BY <1>1, <1>3, <2>1, <4>1 DEF DigitsIn
      <4>3. RunIn(s, p, p)
        BY <1>1, <2>2 DEF RunIn
      <4> QED
        BY <4>1, <4>2, <4>3 DEF FractionIn
    <3>2. \A n : n.in = "fraction" /\ n.start = a => Scanned(s, p, n)
      BY <3>1 DEF Scanned
    <3> QED
      BY <1>4, <2>1, <2>2, <3>2 DEF Scanners, Enter, p
  <2>3. CASE current \notin Digits /\ ReturnScanned("ERROR", lexer)
    <3>1. \A t : t.type = "ERROR" /\ t.from = a /\ t.to = p => NumberEnds(s, t)
      BY <1>1, <2>1, <2>3 DEF NumberEnds
    <3> QED
      BY <1>5, <1>6, <2>1, <2>3, <3>1 DEF p
  <2> QED
    BY <1>10, <2>2, <2>3
<1>11. CASE In("fraction") /\ Continue /\ current \in Digits
  <2>1. scan.in \in Scanners /\ FractionIn(s, a, p)
    BY <1>11 DEF In, Scanners, Longest, Scanned, s, a, p
  <2>2. FractionIn(s, a, p + 1) /\ lexer_advance(lexer).position = p + 1
    BY <1>1, <1>2, <1>3, <1>11, <2>1, RunsGrow, NotTheEnd
  <2>3. Scanned(s, p + 1, scan)
    BY <1>11, <2>2 DEF Scanned, In, a
  <2> QED
    BY <1>11, <2>2, <2>3, MoveLongest DEF Continue, s
<1>12. CASE /\ In("fraction") /\ current \notin Digits
            /\ \/ current \in Exponents /\ Move(lexer_advance(lexer), [scan EXCEPT !.in = "exponent"])
               \/ current \notin Exponents /\ ReturnScanned("FLOAT", lexer)
  <2>1. scan.in \in Scanners /\ DecimalIn(s, a, p)
    <3>1. scan.in \in Scanners /\ FractionIn(s, a, p)
      BY <1>12 DEF In, Scanners, Longest, Scanned, s, a, p
    <3> QED
      BY <1>1, <1>3, <1>12, <3>1, RunsEnd
  <2>2. CASE current \in Exponents /\ Move(lexer_advance(lexer), [scan EXCEPT !.in = "exponent"])
    <3>1. lexer_advance(lexer).position = p + 1 /\ (p + 1) - 1 = p
      BY <1>1, <1>2, <2>2, NotTheEnd
    <3>2. ExponentIn(s, a, p + 1)
      BY <1>1, <2>1, <2>2, <3>1 DEF ExponentIn
    <3>3. \A n : n.in = "exponent" /\ n.start = a => Scanned(s, p + 1, n)
      BY <3>2 DEF Scanned
    <3> QED
      BY <1>4, <2>1, <2>2, <3>1, <3>3 DEF Scanners
  <2>3. CASE current \notin Exponents /\ ReturnScanned("FLOAT", lexer)
    <3>1. \A t : t.type = "FLOAT" /\ t.from = a /\ t.to = p => NumberEnds(s, t)
      BY <1>1, <1>12, <2>1, <2>3 DEF NumberEnds
    <3> QED
      BY <1>5, <1>6, <2>1, <2>3, <3>1 DEF p
  <2> QED
    BY <1>12, <2>2, <2>3
<1>13. CASE In("exponent") /\ LET c == IF current \in Signs THEN lexer_advance(lexer) ELSE lexer IN
                                IF Char(c.position) \in Digits THEN Move(c, [scan EXCEPT !.in = "power"])
                                                               ELSE ReturnScanned("ERROR", c)
  <2> DEFINE c == IF current \in Signs THEN lexer_advance(lexer) ELSE lexer
             q == c.position
  <2>1. scan.in \in Scanners /\ ExponentIn(s, a, p)
    BY <1>13 DEF In, Scanners, Longest, Scanned, s, a, p
  <2>2. /\ q \in p .. LastIn(s) /\ q \in Nat
        /\ \/ ExponentIn(s, a, q) /\ CharIn(s, q) \notin Signs
           \/ SignIn(s, a, q)
    <3>1. CASE current \in Signs
      <4>1. q = p + 1 /\ p + 1 \in 1 .. LastIn(s) /\ (p + 1) - 1 = p
        BY <1>1, <1>2, <3>1, NotTheEnd
      <4>2. SignIn(s, a, p + 1)
        BY <1>1, <2>1, <3>1, <4>1 DEF SignIn
      <4> HIDE DEF q
      <4> QED
        BY <1>1, <4>1, <4>2
    <3>2. CASE current \notin Signs
      BY <1>1, <1>6, <2>1, <3>2 DEF p
    <3> QED
      BY <3>1, <3>2
  <2>3. a < q
    BY <1>1, <1>3, <2>1, <2>2 DEF ExponentIn, SignIn, DigitsIn, DecimalIn
  <2>4. CASE Char(q) \in Digits /\ Move(c, [scan EXCEPT !.in = "power"])
    <3>1. q \in a + 1 .. q /\ RunIn(s, q, q)
      BY <1>1, <1>3, <2>1, <2>2, <2>3, <2>4 DEF RunIn
    <3>2. ExponentRunIn(s, a, q)
      BY <2>2, <3>1 DEF ExponentRunIn
    <3>3. \A n : n.in = "power" /\ n.start = a => Scanned(s, q, n)
      BY <3>2 DEF Scanned
    <3> HIDE DEF c
    <3> QED
      BY <1>4, <2>1, <2>4, <3>3 DEF Scanners
  <2>5. CASE Char(q) \notin Digits /\ ReturnScanned("ERROR", c)
    <3>1. \A t : t.type = "ERROR" /\ t.from = a /\ t.to = q => NumberEnds(s, t)
      BY <1>1, <2>2, <2>5 DEF NumberEnds
    <3> HIDE DEF c
    <3> QED
      BY <1>5, <2>1, <2>2, <2>5, <3>1
  <2>6. \/ Char(q) \in Digits /\ Move(c, [scan EXCEPT !.in = "power"])
        \/ Char(q) \notin Digits /\ ReturnScanned("ERROR", c)
    BY <1>13
  <2> QED
    BY <2>4, <2>5, <2>6
<1>14. CASE In("power") /\ current \in Digits /\ Continue
  <2>1. scan.in \in Scanners /\ ExponentRunIn(s, a, p)
    BY <1>14 DEF In, Scanners, Longest, Scanned, s, a, p
  <2>2. ExponentRunIn(s, a, p + 1) /\ lexer_advance(lexer).position = p + 1
    BY <1>1, <1>2, <1>3, <1>14, <2>1, RunsGrow, NotTheEnd
  <2>3. Scanned(s, p + 1, scan)
    BY <1>14, <2>2 DEF Scanned, In, a
  <2> QED
    BY <1>14, <2>2, <2>3, MoveLongest DEF Continue, s
<1>15. CASE In("power") /\ current \notin Digits /\ ReturnScanned("FLOAT", lexer)
  <2>1. scan.in \in Scanners /\ ExponentRunIn(s, a, p)
    BY <1>15 DEF In, Scanners, Longest, Scanned, s, a, p
  <2>2. PowerIn(s, a, p)
    BY <1>1, <1>3, <1>15, <2>1, RunsEnd
  <2>3. \A t : t.type = "FLOAT" /\ t.from = a /\ t.to = p => NumberEnds(s, t)
    BY <1>1, <1>15, <2>2 DEF NumberEnds
  <2> QED
    BY <1>5, <1>6, <1>15, <2>1, <2>3 DEF p
<1>16. CASE In("digits") /\ (CASE current \in Digits    -> Continue
              [] Point                 -> Move(lexer_advance(lexer), [scan EXCEPT !.in = "point"])
              [] current \in Exponents -> Move(lexer_advance(lexer), [scan EXCEPT !.in = "exponent"])
              [] OTHER                 -> ReturnScanned("INTEGER", lexer))
  <2>1. /\ current \in Digits => ~Point /\ current \notin Exponents
        /\ Point => current \notin Exponents
    BY NumberChars DEF Point
  <2> QED
    BY <1>8, <1>9, <1>16, <2>1, Zenon
<1>17. CASE In("fraction") /\ (CASE current \in Digits    -> Continue
              [] current \in Exponents -> Move(lexer_advance(lexer), [scan EXCEPT !.in = "exponent"])
              [] OTHER                 -> ReturnScanned("FLOAT", lexer))
  <2>1. current \in Digits => current \notin Exponents
    BY NumberChars
  <2> QED
    BY <1>11, <1>12, <1>17, <2>1, Zenon
<1> QED
  BY <1>7, <1>10, <1>13, <1>14, <1>15, <1>16, <1>17, Zenon DEF lex_number

LEMMA StringsAndWordsLongest ==
  ASSUME LInv, Skipping, Longest, lex_string \/ lex_identifier_or_keyword
  PROVE  Longest'
<1> DEFINE s == source
           p == lexer.position
           a == scan.start
           q == lexer_advance(lexer).position
<1>1. /\ s \in Seq(STRING) /\ LastIn(s) \in Nat /\ p \in 1 .. LastIn(s) /\ p \in Nat
      /\ current = CharIn(s, p)
  BY CharsHere
<1>2. current # NUL => q = p + 1 /\ p + 1 \in 1 .. LastIn(s)
  BY PassingOne
<1>3. scan.in \in Scanners => a \in 1 .. LastIn(s) /\ a \in Nat /\ a <= p
  BY ScanPlace
<1> HIDE DEF s, p, a, q
<1>4. CASE In("lex") /\ current \in Quotes /\ Scanning("string", lexer_advance(lexer))
  <2> DEFINE next == [in |-> "string", start |-> lexer.position, column |-> lexer.column, quote |-> current]
  <2>1. Move(lexer_advance(lexer), next) /\ next.in = "string" /\ next.start = p /\ next.quote = current
    BY <1>4 DEF Scanning, p
  <2> HIDE DEF next
  <2>2. q = p + 1
    BY <1>2, <1>4, NotTheEnd
  <2>3. Scanned(s, p + 1, next)
    BY <1>1, <1>4, <2>1 DEF Scanned
  <2> QED
    BY <2>1, <2>2, <2>3, MoveLongest DEF s, q
<1>5. CASE In("lex") /\ current \in Letters /\ Scanning("word", lexer)
  <2> DEFINE next == [in |-> "word", start |-> lexer.position, column |-> lexer.column, quote |-> current]
  <2>1. Move(lexer, next) /\ next.in = "word" /\ next.start = p
    BY <1>5 DEF Scanning, p
  <2> HIDE DEF next
  <2>2. Scanned(s, p, next)
    BY <1>1, <1>5, <2>1 DEF Scanned
  <2> QED
    BY <2>1, <2>2, MoveLongest DEF s, p
<1>6. ASSUME In("string")
      PROVE  /\ scan.in \in Scanners /\ a < p /\ scan.quote = CharIn(s, a) /\ scan.quote \in Quotes
             /\ \A i \in a + 1 .. p - 1 : CharIn(s, i) # scan.quote
  BY <1>6 DEF In, Scanners, Longest, Scanned, s, p, a
<1>7. CASE In("string") /\ current \notin {scan.quote, NUL} /\ Continue
  <2>1. \A i \in a + 1 .. (p + 1) - 1 : CharIn(s, i) # scan.quote
    BY <1>1, <1>3, <1>6, <1>7
  <2>2. Scanned(s, p + 1, scan)
    BY <1>1, <1>3, <1>6, <1>7, <2>1 DEF Scanned, In, a
  <2> QED
    BY <1>2, <1>7, <2>2, MoveLongest DEF Continue, s, q
<1>8. CASE In("string") /\ current \in {scan.quote, NUL} /\ ReturnScanned("STRING", lexer_advance(lexer))
  <2> DEFINE open == /\ q = LastIn(s) /\ CharIn(s, a) \in Quotes
                     /\ \A i \in a + 1 .. LastIn(s) - 1 : CharIn(s, i) # CharIn(s, a)
  <2>1. q \in p .. LastIn(s) /\ (StringIn(s, a, q) \/ open)
    <3>1. CASE current = NUL
      <4>1. p = LastIn(s)
        BY <1>1, <3>1, EndOfSource DEF s, p
      <4>2. q = p
        <5>1. lexer.position = LastIn(source)
          BY <4>1 DEF s, p
        <5> QED
          BY <1>1, <5>1, AdvancedPosition DEF s, p, q
      <4> QED
        BY <1>1, <1>6, <1>8, <4>1, <4>2
    <3>2. CASE current # NUL
      <4>1. current = scan.quote /\ q = p + 1
        BY <1>2, <1>8, <3>2
      <4>2. StringIn(s, a, p + 1)
        <5>1. a < p /\ scan.quote \in Quotes /\ CharIn(s, a) = scan.quote
              /\ \A i \in a + 1 .. p - 1 : CharIn(s, i) # CharIn(s, a)
          BY <1>6, <1>8
        <5>2. p \in Nat /\ a \in Nat /\ CharIn(s, p) = CharIn(s, a)
          BY <1>1, <1>3, <1>6, <1>8, <4>1, <5>1
        <5>3. (p + 1) - 1 = p /\ (p + 1) - 2 = p - 1 /\ a < (p + 1) - 1
          BY <5>1, <5>2
        <5> QED
          BY <5>1, <5>2, <5>3 DEF StringIn
      <4>3. p + 1 \in p .. LastIn(s)
        BY <1>1, <1>2, <3>2
      <4> QED
        BY <4>1, <4>2, <4>3
    <3> QED
      BY <3>1, <3>2
  <2>2. ASSUME NEW t, t.type = "STRING", t.from = a, t.to = q PROVE LongestIn(s, t)
    <3>1. scan.in \in Scanners
      BY <1>6, <1>8
    <3>2. t.from \in 1 .. LastIn(s) /\ t.to \in t.from .. LastIn(s)
      BY <1>1, <1>3, <2>1, <2>2, <3>1
    <3>3. StringIn(s, t.from, t.to) \/ OpenIn(s, t)
      BY <2>1, <2>2 DEF OpenIn
    <3> QED
      BY <1>1, <2>2, <3>2, <3>3, StringToken
  <2> QED
    BY <1>8, <2>2, ScannedLongest DEF s, a, q
<1>9. ASSUME In("word")
      PROVE  /\ scan.in \in Scanners /\ CharIn(s, a) \in Letters
             /\ \A i \in a .. p - 1 : CharIn(s, i) \in Letters \union Digits
  BY <1>9 DEF In, Scanners, Longest, Scanned, s, p, a
<1>10. CASE In("word") /\ current \in Letters \union Digits /\ Continue
  <2>1. \A i \in a .. (p + 1) - 1 : CharIn(s, i) \in Letters \union Digits
    BY <1>1, <1>3, <1>9, <1>10
  <2>2. Scanned(s, p + 1, scan)
    BY <1>9, <1>10, <2>1 DEF Scanned, In, a
  <2> QED
    BY <1>2, <1>10, <2>2, MoveLongest, NotTheEnd DEF Continue, s, q
<1>11. CASE /\ In("word") /\ current \notin Letters \union Digits
            /\ ReturnScanned(WordType(Text(scan.start, lexer.position)), lexer)
  <2>1. a < p
    <3>1. a # p
      BY <1>1, <1>9, <1>11
    <3> QED
      BY <1>1, <1>3, <1>9, <1>11, <3>1
  <2>2. WordIn(s, a, p)
    BY <1>9, <1>11, <2>1 DEF WordIn
  <2>3. Text(scan.start, lexer.position) = TextIn(s, a, p)
    BY DEF Text, TextIn, s, a, p
  <2>4. ASSUME NEW t, t.type = WordType(TextIn(s, a, p)), t.from = a, t.to = p PROVE LongestIn(s, t)
    <3>1. t.from \in 1 .. LastIn(s) /\ t.to \in t.from .. LastIn(s)
      BY <1>1, <1>3, <1>9, <1>11, <2>4
    <3> QED
      BY <1>1, <1>11, <2>2, <2>4, <3>1, WordToken
  <2> QED
    BY <1>11, <2>3, <2>4, ScannedLongest DEF s, a, p
<1> QED
  BY <1>4, <1>5, <1>7, <1>8, <1>10, <1>11, Zenon DEF lex_string, lex_identifier_or_keyword

LEMMA SymbolsLongest ==
  ASSUME LInv, Skipping, Longest, lex_symbol \/ lex_end
  PROVE  Longest'
<1> DEFINE s == source
           p == lexer.position
           c == CharIn(s, p)
           d == CharIn(s, p + 1)
           pair == <<c, d>>
           one == lexer_advance(lexer)
           two == lexer_advance(one)
<1>1. /\ s \in Seq(STRING) /\ LastIn(s) \in Nat /\ p \in 1 .. LastIn(s) /\ p \in Nat
      /\ current = c /\ lexer_peek = d /\ \A q : Char(q) = CharIn(s, q)
  BY CharsHere DEF lexer_peek
<1>2. CASE lex_end
  <2>1. current = NUL /\ Return("EOF", p, lexer, lexer)
    BY <1>2 DEF lex_end
  <2>2. p = LastIn(s)
    BY <1>1, <2>1, EndOfSource
  <2>3. \A t : t.type = "EOF" /\ t.from = p /\ t.to = p => LongestIn(s, t)
    BY <1>1, <2>2, EndToken
  <2> QED
    BY <2>1, <2>3, ReturnLongest
<1>3. CASE lex_symbol
  <2>1. c # NUL /\ c \notin Letters \union Digits \union Quotes
    BY <1>1, <1>3, Zenon DEF lex_symbol
  <2>2. p \in 1 .. LastIn(s) - 1 /\ one.position = p + 1 /\ p + 1 \in 1 .. LastIn(s)
    BY <1>1, <2>1, PassingOne
  <2>3. /\ two.position \in p .. LastIn(s) /\ one.position \in p .. LastIn(s)
        /\ d # NUL => two.position = p + 2
        /\ two.position = IF p + 1 < LastIn(s) THEN p + 2 ELSE LastIn(s)
    <3>1. two.position = IF one.position < LastIn(s) THEN one.position + 1 ELSE one.position
      <4> HIDE DEF one
      <4> QED
        BY <2>2, AdvancedPosition
    <3>2. d # NUL => p + 1 < LastIn(s)
      <4>1. d # NUL => p + 1 \in DOMAIN s
        BY DEF CharIn
      <4> QED
        BY <1>1, <4>1, LastIsNat
    <3> HIDE DEF one, two, d
    <3> QED
      BY <1>1, <2>2, <3>1, <3>2
  <2>4. pair \in DOMAIN Double => d # NUL
    <3>1. \A e \in DOMAIN Double : e[2] # NUL
      BY Doubles DEF NUL
    <3>2. pair[2] = d
      OBVIOUS
    <3> QED
      BY <3>1, <3>2
  <2> DEFINE symbol(t) ==
               \/ pair \in DOMAIN Double /\ t.type = Double[pair] /\ t.to = p + 2
               \/ /\ pair \notin DOMAIN Double /\ c \in DOMAIN Single /\ t.type = Single[c]
                  /\ c # "!" => t.to = p + 1
                  /\ c = "!" => t.to = IF p + 1 < LastIn(s) THEN p + 2 ELSE LastIn(s)
               \/ pair \notin DOMAIN Double /\ c \notin DOMAIN Single /\ t.type = "EOF"
  <2>5. ASSUME NEW t, t.from = p, t.to \in p .. LastIn(s), symbol(t) PROVE LongestIn(s, t)
    BY <1>1, <2>1, <2>2, <2>5, SymbolToken
  <2>6. ASSUME NEW type, NEW e \in {one, two}, Return(type, p, lexer, e),
               \A t : t.type = type /\ t.from = p /\ t.to = e.position => symbol(t)
        PROVE  Longest'
    <3>1. \A t : t.type = type /\ t.from = p /\ t.to = e.position => LongestIn(s, t)
      BY <2>3, <2>5, <2>6
    <3> QED
      BY <2>6, <3>1, ReturnLongest
  <2>7. \/ pair \in DOMAIN Double /\ Return(Double[pair], p, lexer, two)
        \/ /\ pair \notin DOMAIN Double /\ c \in DOMAIN Single
           /\ Return(Single[c], p, lexer, IF c = "!" THEN two ELSE one)
        \/ pair \notin DOMAIN Double /\ c \notin DOMAIN Single /\ Return("EOF", p, lexer, one)
    BY <1>1, <1>3, Zenon DEF lex_symbol
  <2> HIDE DEF s, p, c, d, pair, one, two
  <2>8. CASE pair \in DOMAIN Double /\ Return(Double[pair], p, lexer, two)
    BY <2>3, <2>4, <2>6, <2>8
  <2>9. CASE /\ pair \notin DOMAIN Double /\ c \in DOMAIN Single
             /\ Return(Single[c], p, lexer, IF c = "!" THEN two ELSE one)
    <3>1. CASE c = "!"
      BY <2>3, <2>6, <2>9, <3>1
    <3>2. CASE c # "!"
      BY <2>2, <2>6, <2>9, <3>2
    <3> QED
      BY <3>1, <3>2
  <2>10. CASE pair \notin DOMAIN Double /\ c \notin DOMAIN Single /\ Return("EOF", p, lexer, one)
    BY <2>6, <2>10
  <2> QED
    BY <2>7, <2>8, <2>9, <2>10
<1> QED
  BY <1>2, <1>3

LEMMA BlanksAndCommentsLongest ==
  ASSUME LInv, Longest, skip_whitespace \/ skip_line_comment \/ skip_block_comment
  PROVE  Longest'
<1>1. ASSUME scan.in \notin Scanners, Continue PROVE Longest'
  BY <1>1, IdleLongest DEF Continue
<1>2. ASSUME NEW c, Move(c, Idle) PROVE Longest'
  BY <1>2, IdleLongest DEF Idle, Scanners
<1>3. CASE skip_whitespace
  BY <1>1, <1>3 DEF skip_whitespace, In, Scanners
<1>4. CASE skip_line_comment
  <2>1. CASE In("lex") /\ Enter("line_comment")
    <3> DEFINE next == [scan EXCEPT !.in = "line_comment"]
    <3>1. scan \in [in : {"lex", "line_comment", "done"}]
      BY <2>1 DEF LInv, Scans, In, Scanners
    <3>2. next.in \notin Scanners /\ Move(lexer, next)
      BY <2>1, <3>1 DEF Enter, Scanners
    <3> HIDE DEF next
    <3> QED
      BY <3>2, IdleLongest
  <2> QED
    BY <1>1, <1>2, <1>4, <2>1 DEF skip_line_comment, In, Scanners
<1>5. CASE skip_block_comment
  <2>1. CASE In("lex") /\ Move(lexer_advance(lexer), [in |-> "block_comment", nesting |-> 1])
    <3> DEFINE next == [in |-> "block_comment", nesting |-> 1]
    <3>1. next.in \notin Scanners /\ Move(lexer_advance(lexer), next)
      BY <2>1 DEF Scanners
    <3> HIDE DEF next
    <3> QED
      BY <3>1, IdleLongest
  <2>2. ASSUME In("block_comment"), NEW c, NEW n, Move(c, [scan EXCEPT !.nesting = n]) PROVE Longest'
    <3> DEFINE next == [scan EXCEPT !.nesting = n]
    <3>1. scan \in [in : {"block_comment"}, nesting : Int]
      BY <2>2 DEF LInv, Scans, In, Scanners
    <3>2. next.in \notin Scanners /\ Move(c, next)
      BY <2>2, <3>1 DEF Scanners
    <3> HIDE DEF next
    <3> QED
      BY <3>2, IdleLongest
  <2>3. \/ In("lex") /\ Move(lexer_advance(lexer), [in |-> "block_comment", nesting |-> 1])
        \/ /\ In("block_comment")
           /\ \/ Move(lexer, Idle) \/ Continue
              \/ \E c, n : Move(c, [scan EXCEPT !.nesting = n])
    <3>1. CASE In("lex") /\ Move(lexer_advance(lexer), [in |-> "block_comment", nesting |-> 1])
      BY <3>1
    <3>2. CASE In("block_comment")
      <4>1. scan \in [in : {"block_comment"}, nesting : Int]
        BY <3>2 DEF LInv, Scans, In, Scanners
      <4> QED
        BY <1>5, <3>2, <4>1, Zenon DEF skip_block_comment, In
    <3> QED
      BY <1>5, <3>1, <3>2 DEF skip_block_comment
  <2>4. In("block_comment") => scan.in \notin Scanners
    BY DEF In, Scanners
  <2> QED
    BY <1>1, <1>2, <2>1, <2>2, <2>3, <2>4
<1> QED
  BY <1>3, <1>4, <1>5

LEMMA InitLongest == Init => Longest
<1> SUFFICES ASSUME Init PROVE Longest
  OBVIOUS
<1>1. tokens = <<>> /\ DOMAIN tokens = {} /\ scan.in = "lex"
  BY DEF Init, Idle
<1> QED
  BY <1>1 DEF Longest, AllLongest, Scanned

LEMMA NextLongest == LInv /\ Skipping /\ Longest /\ [Next]_vars => Longest'
<1> SUFFICES ASSUME LInv, Skipping, Longest, [Next]_vars PROVE Longest'
  OBVIOUS
<1>1. CASE Next
  BY <1>1, BlanksAndCommentsLongest, NumbersLongest, StringsAndWordsLongest, SymbolsLongest
     DEF Next, lex
<1>2. CASE UNCHANGED vars
  BY <1>2 DEF vars, Longest, AllLongest
<1> QED
  BY <1>1, <1>2

(* Whatever the source, the alphabet and the keywords: every token is one of the
   language and no token that begins at its place is longer. *)
THEOREM LexerTakesLongest == Spec => []LongestTokens
<1>1. Init => LInv /\ Skipping /\ Longest
  BY InitInvariant, InitSkips, InitLongest
<1>2. LInv /\ Skipping /\ Longest /\ [Next]_vars => (LInv /\ Skipping /\ Longest)'
  BY NextInvariant, NextSkips, NextLongest
<1>3. Longest => LongestTokens
  BY SameLongest DEF Longest, AllLongest
<1> QED
  BY <1>1, <1>2, <1>3, PTL DEF Spec
=================================================================================
