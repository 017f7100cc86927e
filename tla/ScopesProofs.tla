------------------------------ MODULE ScopesProofs ------------------------------
(***************************************************************************)
(* What the operations on a chain of scopes return, for every set of names *)
(* and width of the register counter: lemmas for the proofs about the      *)
(* symbol table (SymbolTableProofs) and the compiler (CompilerProofs).     *)
(***************************************************************************)
EXTENDS Scopes, SequenceTheorems, WellFoundedInduction, TLAPS

(* A 16-bit counter stays in range when it is incremented, and is an ordinary
   sum as long as it does not overflow. *)
LEMMA CounterIncrement ==
  ASSUME NEW c \in RegisterIndex
  PROVE  /\ (c + 1) % IndexRange \in RegisterIndex
         /\ c + 1 # IndexRange => (c + 1) % IndexRange = c + 1
<1>1. c \in Nat /\ c + 1 <= IndexRange
  BY IndexRangeAssumption DEF RegisterIndex
<1>2. CASE c + 1 = IndexRange
  BY <1>1, <1>2, IndexRangeAssumption DEF RegisterIndex
<1>3. CASE c + 1 < IndexRange
  BY <1>1, <1>3, IndexRangeAssumption DEF RegisterIndex
<1> QED
  BY <1>1, <1>2, <1>3, IndexRangeAssumption

LEMMA ScopeFields ==
  ASSUME NEW c \in Scope
  PROVE  /\ c.counter \in RegisterIndex /\ c.counter \in Nat
         /\ c.symbols \subseteq Symbol
         /\ \A y \in VariablesOf(c) :
              y \in c.symbols /\ y.index \in RegisterIndex /\ y.index \in Nat
<1>1. c.counter \in RegisterIndex /\ c.symbols \subseteq Symbol
  BY DEF Scope
<1>2. \A y \in Symbol : y.index \in RegisterIndex
  BY DEF Symbol
<1>3. \A x \in RegisterIndex : x \in Nat
  BY IndexRangeAssumption DEF RegisterIndex
<1> QED
  BY <1>1, <1>2, <1>3 DEF VariablesOf

LEMMA InnermostInDomain ==
  ASSUME NEW s \in Seq(Scope), s # <<>>
  PROVE  /\ Len(s) \in DOMAIN s /\ Len(s) \in Nat /\ Len(s) > 0
         /\ DOMAIN s = 1 .. Len(s)
         /\ Innermost(s) \in Scope
         /\ \A i \in DOMAIN s : s[i] \in Scope
  BY EmptySeq, LenProperties, ElementOfSeq DEF Innermost

(* A new scope is added on top and the others stay as they are. *)
LEMMA NewScopeOnTop ==
  ASSUME NEW s \in Seq(Scope), s # <<>>
  PROVE  LET t == WithNewScope(s) IN
         /\ t \in Seq(Scope) /\ Len(t) = Len(s) + 1
         /\ DOMAIN t = 1 .. Len(s) + 1
         /\ \A i \in 1 .. Len(s) : t[i] = s[i]
         /\ t[Len(s) + 1] = create_scope(Innermost(s))
<1> DEFINE c == create_scope(Innermost(s))
<1>1. c \in Scope
  BY InnermostInDomain, CounterIncrement DEF create_scope, Scope
<1> QED
  BY <1>1, InnermostInDomain, AppendProperties DEF WithNewScope

(* Leaving a scope keeps the others as they are. *)
LEMMA InnermostRemoved ==
  ASSUME NEW s \in Seq(Scope), Len(s) > 1
  PROVE  LET t == WithoutInnermost(s) IN
         /\ t \in Seq(Scope) /\ Len(t) = Len(s) - 1
         /\ DOMAIN t = 1 .. Len(s) - 1
         /\ \A i \in 1 .. Len(s) - 1 : t[i] = s[i]
<1>1. Len(s) \in Nat /\ 1 \in 1 .. Len(s) + 1 /\ Len(s) - 1 \in 0 .. Len(s)
  BY LenProperties
<1>2. DOMAIN s = 1 .. Len(s)
  BY LenProperties
<1>3. SubSeq(s, 1, Len(s) - 1) = [i \in 1 .. Len(s) - 1 |-> s[i]]
  BY <1>1, <1>2
<1>4. \A i \in 1 .. Len(s) - 1 : s[i] \in Scope
  BY <1>1, <1>2, ElementOfSeq
<1>5. [i \in 1 .. Len(s) - 1 |-> s[i]] \in Seq(Scope)
  BY <1>1, <1>4, IsASeq
<1> QED
  BY <1>1, <1>3, <1>5, LenProperties DEF WithoutInnermost

(* Declaring a variable touches the innermost scope only. *)
LEMMA VariableOnTop ==
  ASSUME NEW s \in Seq(Scope), s # <<>>, NEW n \in Names
  PROVE  LET t == WithVariable(s, n)
             c == Innermost(s)
         IN
         /\ t \in Seq(Scope) /\ Len(t) = Len(s) /\ DOMAIN t = DOMAIN s
         /\ \A i \in DOMAIN s : i # Len(s) => t[i] = s[i]
         /\ t[Len(s)].symbols = c.symbols \union
              {Variable(n, c.counter)}
         /\ t[Len(s)].counter = (c.counter + 1) % IndexRange
<1> DEFINE c == Innermost(s)
           v == Variable(n, c.counter)
           u == [symbols |-> c.symbols \union {v},
                 counter |-> (c.counter + 1) % IndexRange]
<1>1. c \in Scope /\ c = s[Len(s)] /\ Len(s) \in 1 .. Len(s)
  BY InnermostInDomain DEF Innermost
<1>2. v \in Symbol
  BY <1>1 DEF Symbol, Scope, Variable
<1>3. u \in Scope
  BY <1>1, <1>2, CounterIncrement DEF Scope
<1>4. WithVariable(s, n) = [s EXCEPT ![Len(s)] = u]
  BY <1>1 DEF WithVariable
<1>5. [s EXCEPT ![Len(s)] = u] \in Seq(Scope)
  BY <1>1, <1>3, ExceptSeq
<1> QED
  BY <1>1, <1>4, <1>5, InnermostInDomain, LenProperties

LEMMA UninitInRange ==
  ASSUME NEW e \in UninitIndex
  PROVE  e \in RegisterIndex
  BY UninitAssumption DEF RegisterIndex

(* Declaring a function touches the innermost scope only, and no variable. *)
LEMMA FunctionOnTop ==
  ASSUME NEW s \in Seq(Scope), s # <<>>,
         NEW n \in Names, NEW e \in RegisterIndex, NEW a \in Nat
  PROVE  LET t == WithFunction(s, n, e, a) IN
         /\ t \in Seq(Scope) /\ Len(t) = Len(s) /\ DOMAIN t = DOMAIN s
         /\ \A i \in DOMAIN s : i # Len(s) => t[i] = s[i]
         /\ t[Len(s)].symbols = Innermost(s).symbols \union
              {Function(n, e, a)}
         /\ t[Len(s)].counter = Innermost(s).counter
         /\ \A i \in DOMAIN s : VariablesOf(t[i]) = VariablesOf(s[i])
<1> DEFINE c == Innermost(s)
           v == Function(n, e, a)
           u == [symbols |-> c.symbols \union {v}, counter |-> c.counter]
           t == WithFunction(s, n, e, a)
<1>1. c \in Scope /\ c = s[Len(s)] /\ Len(s) \in 1 .. Len(s) /\ DOMAIN s = 1 .. Len(s)
  BY InnermostInDomain DEF Innermost
<1>2. v \in Symbol
  BY DEF Symbol, Function
<1>3. u \in Scope
  BY <1>1, <1>2 DEF Scope
<1>4. t = [s EXCEPT ![Len(s)] = u]
  BY <1>1 DEF WithFunction
<1>5. [s EXCEPT ![Len(s)] = u] \in Seq(Scope)
  BY <1>1, <1>3, ExceptSeq
<1>6. t[Len(s)] = u /\ \A i \in DOMAIN s : i # Len(s) => t[i] = s[i]
  BY <1>1, <1>4
<1>7. VariablesOf(u) = VariablesOf(c)
  BY DEF VariablesOf, Function
<1>8. \A i \in DOMAIN s : VariablesOf(t[i]) = VariablesOf(s[i])
  BY <1>1, <1>6, <1>7
<1>9. t \in Seq(Scope) /\ Len(t) = Len(s) /\ DOMAIN t = DOMAIN s
  BY <1>1, <1>4, <1>5, LenProperties
<1> HIDE DEF t
<1> QED
  BY <1>1, <1>6, <1>8, <1>9 DEF t

-----------------------------------------------------------------------------
(* A scope that declares the name is found, the innermost such. *)
LEMMA HomeExists ==
  ASSUME NEW s \in Seq(Scope), NEW n, Visible(s, n)
  PROVE  \E i \in DOMAIN s : /\ DeclaredIn(s[i], n)
                             /\ \A j \in DOMAIN s : j > i => ~DeclaredIn(s[j], n)
<1> DEFINE R == OpToRel(<, Nat)
           S == {k \in Nat : k < Len(s) /\ DeclaredIn(s[Len(s) - k], n)}
<1>1. IsWellFoundedOn(R, Nat)
  BY NatLessThanWellFounded
<1>2. \A x, y \in Nat : x < y => <<x, y>> \in R
  BY DEF OpToRel
<1> HIDE DEF R
<1>3. DOMAIN s = 1 .. Len(s) /\ Len(s) \in Nat
  BY LenProperties
<1>4. S # {}
  <2>1. PICK i \in DOMAIN s : DeclaredIn(s[i], n)
    BY DEF Visible
  <2>2. Len(s) - i \in Nat /\ Len(s) - i < Len(s) /\ Len(s) - (Len(s) - i) = i
    BY <1>3, <2>1
  <2> QED
    BY <2>1, <2>2
<1>5. PICK k \in S : \A m \in S : ~(<<m, k>> \in R)
  BY <1>1, <1>4, WFMin
<1>6. Len(s) - k \in DOMAIN s /\ DeclaredIn(s[Len(s) - k], n)
  BY <1>3, <1>5
<1>7. ASSUME NEW j \in DOMAIN s, j > Len(s) - k PROVE ~DeclaredIn(s[j], n)
  <2>1. Len(s) - j \in Nat /\ Len(s) - j < k /\ Len(s) - (Len(s) - j) = j /\ Len(s) - j < Len(s)
    BY <1>3, <1>5, <1>7
  <2>2. ~(Len(s) - j \in S)
    BY <1>2, <1>5, <2>1
  <2> QED
    BY <2>1, <2>2
<1> QED
  BY <1>6, <1>7

(* A lookup of a visible name returns a symbol. *)
LEMMA LookupFacts ==
  ASSUME NEW s \in Seq(Scope), NEW n, Visible(s, n)
  PROVE  /\ lookup_symbol(s, n) \in Symbol
         /\ lookup_symbol(s, n).index \in Nat /\ lookup_symbol(s, n).arity \in Nat
<1> DEFINE home == CHOOSE i \in DOMAIN s :
                /\ DeclaredIn(s[i], n)
                /\ \A j \in DOMAIN s : j > i => ~DeclaredIn(s[j], n)
           y == CHOOSE y \in s[home].symbols : y.name = n
<1>1. home \in DOMAIN s /\ DeclaredIn(s[home], n)
  BY HomeExists
<1>2. s[home] \in Scope
  BY <1>1, ElementOfSeq, LenProperties
<1>3. lookup_symbol(s, n) = y
  BY DEF lookup_symbol
<1> HIDE DEF home
<1>4. y \in s[home].symbols
  BY <1>1 DEF DeclaredIn
<1> HIDE DEF y
<1>5. y \in Symbol
  BY <1>2, <1>4 DEF Scope
<1>6. y.index \in Nat /\ y.arity \in Nat
  BY <1>5, IndexRangeAssumption DEF Symbol, RegisterIndex
<1> QED
  BY <1>3, <1>5, <1>6

-----------------------------------------------------------------------------
(* The scopes of s are still there in t, with the names they declared. *)
Grows(s, t) ==
  \A i \in DOMAIN s : /\ i \in DOMAIN t
                      /\ \A n \in Names : DeclaredIn(s[i], n) => DeclaredIn(t[i], n)

LEMMA GrowsReflexive ==
  ASSUME NEW s
  PROVE  Grows(s, s)
  BY DEF Grows

LEMMA GrowsTransitive ==
  ASSUME NEW s, NEW t, NEW u, Grows(s, t), Grows(t, u)
  PROVE  Grows(s, u)
  BY DEF Grows

LEMMA NewScopeGrows ==
  ASSUME NEW s \in Seq(Scope), s # <<>>
  PROVE  Grows(s, WithNewScope(s))
<1> DEFINE t == WithNewScope(s)
<1>1. DOMAIN s = 1 .. Len(s) /\ DOMAIN t = 1 .. Len(s) + 1 /\ Len(s) \in Nat
  BY NewScopeOnTop, InnermostInDomain
<1>2. \A i \in 1 .. Len(s) : t[i] = s[i]
  BY NewScopeOnTop
<1> HIDE DEF t
<1>3. Grows(s, t)
  BY <1>1, <1>2 DEF Grows
<1> QED
  BY <1>3 DEF t

LEMMA VariableGrows ==
  ASSUME NEW s \in Seq(Scope), s # <<>>, NEW n \in Names
  PROVE  LET t == WithVariable(s, n) IN
         Grows(s, t) /\ DeclaredIn(t[Len(s)], n)
<1> DEFINE t == WithVariable(s, n)
           v == Variable(n, Innermost(s).counter)
<1>1. DOMAIN t = DOMAIN s /\ \A i \in DOMAIN s : i # Len(s) => t[i] = s[i]
  BY VariableOnTop
<1>2. t[Len(s)].symbols = s[Len(s)].symbols \union {v} /\ v.name = n
  BY VariableOnTop DEF Innermost, Variable
<1> HIDE DEF t, v
<1>3. Grows(s, t) /\ DeclaredIn(t[Len(s)], n)
  BY <1>1, <1>2 DEF Grows, DeclaredIn
<1> QED
  BY <1>3 DEF t

LEMMA FunctionGrows ==
  ASSUME NEW s \in Seq(Scope), s # <<>>,
         NEW n \in Names, NEW e \in RegisterIndex, NEW a \in Nat
  PROVE  Grows(s, WithFunction(s, n, e, a))
<1> DEFINE t == WithFunction(s, n, e, a)
           v == Function(n, e, a)
<1>1. DOMAIN t = DOMAIN s /\ \A i \in DOMAIN s : i # Len(s) => t[i] = s[i]
  BY FunctionOnTop
<1>2. t[Len(s)].symbols = s[Len(s)].symbols \union {v}
  BY FunctionOnTop DEF Innermost
<1> HIDE DEF t, v
<1>3. Grows(s, t)
  BY <1>1, <1>2 DEF Grows, DeclaredIn
<1> QED
  BY <1>3 DEF t

(* What a scope declares is visible. *)
LEMMA DeclaredIsVisible ==
  ASSUME NEW s, NEW i \in DOMAIN s, NEW n, DeclaredIn(s[i], n)
  PROVE  Visible(s, n)
  BY DEF Visible
=============================================================================
