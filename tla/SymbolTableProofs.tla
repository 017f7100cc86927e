---------------------------- MODULE SymbolTableProofs ----------------------------
(***************************************************************************)
(* Proofs about SymbolTable, for every set of names, width of the register *)
(* counter and nesting bound: variables in scope hold distinct registers,  *)
(* lookups are determinate, enclosing scopes are frozen, and the table     *)
(* implements RegisterAllocation.                                          *)
(***************************************************************************)
EXTENDS SymbolTable, ScopesProofs

(* The registers of a scope lie below its counter, each held by one variable,
   and everything a nested scope hands out lies above its parent's counter. *)
Separated(s) ==
  /\ \A i \in DOMAIN s : \A y \in VariablesOf(s[i]) : y.index < s[i].counter
  /\ \A i \in DOMAIN s : \A y, z \in VariablesOf(s[i]) :
       y.index = z.index => y = z
  /\ \A i, j \in DOMAIN s : i < j =>
       /\ s[i].counter < s[j].counter
       /\ \A y \in VariablesOf(s[j]) : s[i].counter < y.index

OneSymbolPerName(s) ==
  \A i \in DOMAIN s : \A y, z \in s[i].symbols : y.name = z.name => y = z

\* The inductive invariant.
SInv == /\ TypeOK
        /\ OneSymbolPerName(scopes)
        /\ ~wrapped => Separated(scopes)

-----------------------------------------------------------------------------
(* The 8-bit nesting level stays in range. *)
LEMMA ModRange ==
  ASSUME NEW x \in Nat
  PROVE  x % LevelRange \in 0 .. LevelRange - 1
  BY LevelRangeAssumption

-----------------------------------------------------------------------------
(* Each operation keeps the scopes apart, unless a counter overflows. *)
LEMMA SeparatedNewScope ==
  ASSUME NEW s \in Seq(Scope), s # <<>>, Separated(s), ~Wraps(Innermost(s))
  PROVE  Separated(WithNewScope(s))
<1> DEFINE t == WithNewScope(s)
           k == Len(s)
<1>1. /\ DOMAIN s = 1 .. k /\ k \in Nat \ {0} /\ DOMAIN t = 1 .. k + 1
      /\ \A i \in 1 .. k : t[i] = s[i] /\ s[i] \in Scope
  BY InnermostInDomain, NewScopeOnTop
<1>2. t[k + 1].symbols = {} /\ t[k + 1].counter = s[k].counter + 1
  <2>1. Innermost(s) = s[k] /\ s[k].counter \in RegisterIndex
    BY <1>1, ScopeFields DEF Innermost
  <2>2. (s[k].counter + 1) % IndexRange = s[k].counter + 1
    BY <2>1, CounterIncrement DEF Wraps
  <2>3. t[k + 1] = create_scope(s[k])
    BY <2>1, NewScopeOnTop
  <2> QED
    BY <2>2, <2>3 DEF create_scope
<1>3. VariablesOf(t[k + 1]) = {}
  BY <1>2 DEF VariablesOf
<1>4. \A i \in 1 .. k : s[i].counter \in Nat /\ s[i].counter <= s[k].counter
  BY <1>1, ScopeFields, SMTT(30) DEF Separated
<1>5. \A i \in 1 .. k + 1 : i \in 1 .. k \/ i = k + 1
  BY <1>1
<1> HIDE DEF t, k
<1>6. \A i \in 1 .. k + 1 : \A y \in VariablesOf(t[i]) : y.index < t[i].counter
  BY <1>1, <1>3, <1>5 DEF Separated
<1>7. \A i \in 1 .. k + 1 : \A y, z \in VariablesOf(t[i]) : y.index = z.index => y = z
  BY <1>1, <1>3, <1>5 DEF Separated
<1>8. ASSUME NEW i \in 1 .. k + 1, NEW j \in 1 .. k + 1, i < j
      PROVE  /\ t[i].counter < t[j].counter
             /\ \A y \in VariablesOf(t[j]) : t[i].counter < y.index
  <2>1. i \in 1 .. k /\ t[i] = s[i]
    BY <1>1, <1>8
  <2>2. CASE j = k + 1
    <3>1. s[i].counter \in Nat /\ s[i].counter <= s[k].counter /\ s[k].counter \in Nat
      BY <1>1, <1>4, <2>1
    <3>2. t[j].counter = s[k].counter + 1 /\ VariablesOf(t[j]) = {}
      BY <1>2, <1>3, <2>2
    <3> QED
      BY <2>1, <3>1, <3>2
  <2>3. CASE j \in 1 .. k
    BY <1>1, <1>8, <2>1, <2>3 DEF Separated
  <2> QED
    BY <1>5, <2>2, <2>3
<1> QED
  BY <1>1, <1>6, <1>7, <1>8 DEF Separated, t

LEMMA SeparatedRemoval ==
  ASSUME NEW s \in Seq(Scope), Len(s) > 1, Separated(s)
  PROVE  Separated(WithoutInnermost(s))
<1> DEFINE t == WithoutInnermost(s)
<1>1. DOMAIN s = 1 .. Len(s) /\ Len(s) \in Nat
  BY LenProperties
<1>2. DOMAIN t = 1 .. Len(s) - 1 /\ \A i \in 1 .. Len(s) - 1 : t[i] = s[i]
  BY InnermostRemoved
<1> HIDE DEF t
<1>3. \A i \in DOMAIN t : i \in DOMAIN s /\ t[i] = s[i]
  BY <1>1, <1>2
<1>4. \A i, j \in DOMAIN t : i \in DOMAIN s /\ j \in DOMAIN s
  BY <1>3
<1>5. Separated(t)
  BY <1>3, <1>4 DEF Separated
<1> QED
  BY <1>5 DEF t

LEMMA SeparatedVariable ==
  ASSUME NEW s \in Seq(Scope), s # <<>>, Separated(s), ~Wraps(Innermost(s)),
         NEW n \in Names
  PROVE  Separated(WithVariable(s, n))
<1> DEFINE t == WithVariable(s, n)
           k == Len(s)
           v == Variable(n, s[k].counter)
<1>1. /\ DOMAIN s = 1 .. k /\ k \in 1 .. k /\ DOMAIN t = 1 .. k /\ k \in Nat
      /\ \A i \in 1 .. k : i # k => t[i] = s[i]
      /\ \A i \in 1 .. k : s[i] \in Scope
  BY InnermostInDomain, VariableOnTop
<1>2. /\ t[k].symbols = s[k].symbols \union {v}
      /\ t[k].counter = s[k].counter + 1
  BY <1>1, VariableOnTop, CounterIncrement, ScopeFields DEF Wraps, Innermost
<1>3. VariablesOf(t[k]) = VariablesOf(s[k]) \union {v}
  BY <1>2 DEF VariablesOf, Variable
<1>4. \A i \in 1 .. k : /\ s[i].counter \in Nat
                        /\ \A y \in VariablesOf(s[i]) : y.index \in Nat
  BY <1>1, ScopeFields
<1>5. v.index = s[k].counter
  BY DEF Variable
<1> HIDE DEF t, k, v
<1>6. \A i \in 1 .. k : \A y \in VariablesOf(t[i]) : y.index < t[i].counter
  BY <1>1, <1>2, <1>3, <1>4, <1>5 DEF Separated
<1>7. \A i \in 1 .. k : \A y, z \in VariablesOf(t[i]) : y.index = z.index => y = z
  BY <1>1, <1>3, <1>4, <1>5 DEF Separated
<1>8. \A i, j \in 1 .. k : i < j =>
        /\ t[i].counter < t[j].counter
        /\ \A y \in VariablesOf(t[j]) : t[i].counter < y.index
  <2> SUFFICES ASSUME NEW i \in 1 .. k, NEW j \in 1 .. k, i < j
               PROVE  /\ t[i].counter < t[j].counter
                      /\ \A y \in VariablesOf(t[j]) : t[i].counter < y.index
    OBVIOUS
  <2>1. /\ i # k /\ t[i] = s[i]
        /\ s[i].counter < s[j].counter
        /\ \A y \in VariablesOf(s[j]) : s[i].counter < y.index
    BY <1>1 DEF Separated
  <2>2. CASE j # k
    BY <1>1, <2>1, <2>2
  <2>3. CASE j = k
    <3>1. s[i].counter < v.index
      BY <1>5, <2>1, <2>3
    <3>2. t[i].counter < t[j].counter
      BY <1>1, <1>2, <1>4, <2>1, <2>3
    <3>3. \A y \in VariablesOf(t[j]) : s[i].counter < y.index
      BY <1>3, <2>1, <2>3, <3>1
    <3> QED
      BY <2>1, <3>2, <3>3
  <2> QED
    BY <2>2, <2>3
<1> QED
  BY <1>1, <1>6, <1>7, <1>8 DEF Separated, t

LEMMA SeparatedFunction ==
  ASSUME NEW s \in Seq(Scope), s # <<>>, Separated(s),
         NEW n \in Names, NEW e \in UninitIndex, NEW a \in Nat
  PROVE  Separated(WithFunction(s, n, e, a))
<1>1. \A i \in DOMAIN s : WithFunction(s, n, e, a)[i].counter = s[i].counter
  BY UninitInRange, FunctionOnTop DEF Innermost
<1> QED
  BY <1>1, UninitInRange, FunctionOnTop DEF Separated

-----------------------------------------------------------------------------
LEMMA InitSInv == Init => SInv
<1> SUFFICES ASSUME Init PROVE SInv
  OBVIOUS
<1>1. [symbols |-> {}, counter |-> 0] \in Scope
  BY IndexRangeAssumption DEF Scope, RegisterIndex
<1>2. scopes \in Seq(Scope) /\ Len(scopes) = 1 /\ DOMAIN scopes = {1}
      /\ scopes[1] = [symbols |-> {}, counter |-> 0]
  BY <1>1 DEF Init, create_symbol_table
<1>3. VariablesOf(scopes[1]) = {}
  BY <1>2 DEF VariablesOf
<1>4. TypeOK
  <2>1. level \in 0 .. LevelRange - 1
    BY LevelRangeAssumption DEF Init, create_symbol_table
  <2>2. wrapped \in BOOLEAN
    BY DEF Init, create_symbol_table
  <2> QED
    BY <1>2, <2>1, <2>2 DEF TypeOK
<1>5. OneSymbolPerName(scopes)
  BY <1>2 DEF OneSymbolPerName
<1>6. \A i \in DOMAIN scopes : i = 1
  BY <1>2
<1>7. \A i, j \in DOMAIN scopes : ~(i < j)
  BY <1>6
<1>8. \A i \in DOMAIN scopes : VariablesOf(scopes[i]) = {}
  BY <1>3, <1>6
<1>9. Separated(scopes)
  BY <1>7, <1>8 DEF Separated
<1> QED
  BY <1>4, <1>5, <1>9 DEF SInv

LEMMA NextSInv == SInv /\ [Next]_vars => SInv'
<1> SUFFICES ASSUME SInv, [Next]_vars PROVE SInv'
  OBVIOUS
<1> USE DEF SInv
<1>0. scopes \in Seq(Scope) /\ wrapped \in BOOLEAN /\ level \in 0 .. LevelRange - 1
  BY DEF TypeOK
<1>1. CASE enter_scope
  <2> DEFINE k == Len(scopes)
  <2>1. /\ scopes # <<>> /\ scopes' = WithNewScope(scopes)
        /\ level' = (level + 1) % LevelRange
        /\ wrapped' = (wrapped \/ Wraps(Innermost(scopes)))
    BY <1>1 DEF enter_scope
  <2>2. /\ k \in Nat \ {0} /\ Len(scopes') = k + 1
        /\ scopes' \in Seq(Scope) /\ DOMAIN scopes = 1 .. k /\ DOMAIN scopes' = 1 .. k + 1
        /\ \A i \in 1 .. k : scopes'[i] = scopes[i]
        /\ scopes'[k + 1].symbols = {}
    <3>1. create_scope(Innermost(scopes)).symbols = {}
      BY DEF create_scope
    <3>2. /\ scopes' \in Seq(Scope) /\ Len(scopes') = k + 1 /\ DOMAIN scopes' = 1 .. k + 1
          /\ \A i \in 1 .. k : scopes'[i] = scopes[i]
          /\ scopes'[k + 1] = create_scope(Innermost(scopes))
      BY <1>0, <2>1, NewScopeOnTop
    <3>3. k \in Nat \ {0} /\ DOMAIN scopes = 1 .. k
      BY <1>0, <2>1, InnermostInDomain
    <3> QED
      BY <3>1, <3>2, <3>3
  <2>3. level' \in 0 .. LevelRange - 1
    BY <1>0, <2>1, ModRange, LevelRangeAssumption
  <2>4. TypeOK'
    BY <1>0, <2>1, <2>2, <2>3 DEF TypeOK
  <2>5. OneSymbolPerName(scopes')
    <3>1. \A i \in 1 .. k + 1 : i \in 1 .. k \/ i = k + 1
      BY <2>2
    <3> QED
      BY <2>2, <3>1 DEF OneSymbolPerName
  <2>6. ~wrapped' => Separated(scopes')
    BY <1>0, <2>1, SeparatedNewScope
  <2> QED
    BY <2>4, <2>5, <2>6
<1>2. CASE exit_scope
  <2> DEFINE k == Len(scopes)
  <2>1. /\ k > 1 /\ scopes' = WithoutInnermost(scopes) /\ wrapped' = wrapped
        /\ level' = (level + LevelRange - 1) % LevelRange
    BY <1>2 DEF exit_scope
  <2>2. /\ k \in Nat /\ Len(scopes') = k - 1 /\ scopes # <<>>
        /\ scopes' \in Seq(Scope) /\ DOMAIN scopes = 1 .. k /\ DOMAIN scopes' = 1 .. k - 1
        /\ \A i \in 1 .. k - 1 : scopes'[i] = scopes[i]
    BY <1>0, <2>1, InnermostRemoved, LenProperties
  <2>3. level' \in 0 .. LevelRange - 1
    <3>1. level + LevelRange - 1 \in Nat
      BY <1>0, LevelRangeAssumption
    <3> QED
      BY <2>1, <3>1, ModRange
  <2>4. TypeOK'
    BY <1>0, <2>1, <2>2, <2>3 DEF TypeOK
  <2>5. OneSymbolPerName(scopes')
    BY <2>2 DEF OneSymbolPerName
  <2>6. ~wrapped' => Separated(scopes')
    BY <1>0, <2>1, SeparatedRemoval
  <2> QED
    BY <2>4, <2>5, <2>6
<1>3. ASSUME NEW n \in Names, add_symbol(n) PROVE SInv'
  <2> DEFINE k == Len(scopes)
  <2>1. /\ scopes # <<>> /\ scopes' = WithVariable(scopes, n) /\ level' = level
        /\ ~DeclaredIn(scopes[k], n)
        /\ wrapped' = (wrapped \/ Wraps(Innermost(scopes)))
    BY <1>3 DEF add_symbol, Innermost
  <2>2. /\ scopes' \in Seq(Scope) /\ Len(scopes') = k /\ DOMAIN scopes' = DOMAIN scopes
        /\ \A i \in DOMAIN scopes : i # k => scopes'[i] = scopes[i]
        /\ scopes'[k].symbols = scopes[k].symbols \union
             {Variable(n, scopes[k].counter)}
    BY <1>0, <2>1, VariableOnTop DEF Innermost
  <2>3. TypeOK'
    <3>1. scopes' # <<>>
      BY <1>0, <2>1, <2>2, EmptySeq
    <3> QED
      BY <1>0, <2>1, <2>2, <3>1 DEF TypeOK
  <2>4. OneSymbolPerName(scopes')
    BY <2>1, <2>2 DEF OneSymbolPerName, DeclaredIn, Variable
  <2>5. ~wrapped' => Separated(scopes')
    BY <1>0, <2>1, SeparatedVariable
  <2> QED
    BY <2>3, <2>4, <2>5
<1>4. ASSUME NEW n \in Names, NEW arity \in Arities, add_function_symbol(n, arity)
      PROVE  SInv'
  <2> DEFINE k == Len(scopes)
  <2>1. PICK e \in UninitIndex : scopes' = WithFunction(scopes, n, e, arity)
    BY <1>4 DEF add_function_symbol
  <2>2. /\ scopes # <<>> /\ level' = level /\ wrapped' = wrapped
        /\ ~DeclaredIn(scopes[k], n)
    BY <1>4 DEF add_function_symbol, Innermost
  <2>3. /\ scopes' \in Seq(Scope) /\ Len(scopes') = k /\ DOMAIN scopes' = DOMAIN scopes
        /\ \A i \in DOMAIN scopes : i # k => scopes'[i] = scopes[i]
        /\ scopes'[k].symbols = scopes[k].symbols \union
             {Function(n, e, arity)}
    BY <1>0, <2>1, <2>2, AritiesAssumption, UninitInRange, FunctionOnTop DEF Innermost
  <2>4. TypeOK'
    <3>1. scopes' # <<>>
      BY <1>0, <2>2, <2>3, EmptySeq
    <3> QED
      BY <1>0, <2>2, <2>3, <3>1 DEF TypeOK
  <2>5. OneSymbolPerName(scopes')
    BY <2>2, <2>3 DEF OneSymbolPerName, DeclaredIn, Function
  <2>6. ~wrapped' => Separated(scopes')
    BY <1>0, <2>1, <2>2, AritiesAssumption, SeparatedFunction
  <2> QED
    BY <2>4, <2>5, <2>6
<1>5. CASE destroy_symbol_table
  BY <1>0, <1>5 DEF destroy_symbol_table, TypeOK, OneSymbolPerName, Separated
<1>6. CASE UNCHANGED vars
  BY <1>6 DEF vars, TypeOK, OneSymbolPerName, Separated
<1> QED
  BY <1>1, <1>2, <1>3, <1>4, <1>5, <1>6 DEF Next

(* The inductive invariant holds in every reachable state. *)
THEOREM SymbolTableInvariant == Spec => []SInv
  BY InitSInv, NextSInv, PTL DEF Spec

(* Every counter, register index and nesting level keeps its width, for every
   program (TypeOK). *)
THEOREM SymbolTableTypeOK == Spec => []TypeOK
<1>1. SInv => TypeOK
  BY DEF SInv
<1> QED
  BY <1>1, SymbolTableInvariant, PTL

(* Two variables visible at the same time never share a register, unless a
   16-bit counter has overflowed. *)
THEOREM DistinctRegisters == Spec => []VisibleRegistersDistinct
<1>1. SInv => VisibleRegistersDistinct
  <2> SUFFICES ASSUME SInv, ~wrapped,
                      NEW i \in DOMAIN scopes, NEW j \in DOMAIN scopes,
                      NEW y \in VariablesOf(scopes[i]), NEW z \in VariablesOf(scopes[j]),
                      y.index = z.index
               PROVE  i = j /\ y = z
    BY DEF VisibleRegistersDistinct
  <2>1. Separated(scopes)
    BY DEF SInv
  <2>2. /\ i \in Nat /\ j \in Nat /\ scopes[i] \in Scope /\ scopes[j] \in Scope
    BY LenProperties, ElementOfSeq DEF SInv, TypeOK
  <2>3. y.index \in Nat /\ z.index \in Nat /\ scopes[i].counter \in Nat /\ scopes[j].counter \in Nat
    BY <2>2, ScopeFields
  <2>4. y.index < scopes[i].counter /\ z.index < scopes[j].counter
    BY <2>1 DEF Separated
  <2>5. ~(i < j)
    <3> SUFFICES ASSUME i < j PROVE FALSE
      OBVIOUS
    <3>1. scopes[i].counter < z.index
      BY <2>1 DEF Separated
    <3> QED
      BY <2>3, <2>4, <3>1
  <2>6. ~(j < i)
    <3> SUFFICES ASSUME j < i PROVE FALSE
      OBVIOUS
    <3>1. scopes[j].counter < y.index
      BY <2>1 DEF Separated
    <3> QED
      BY <2>3, <2>4, <3>1
  <2>7. i = j
    BY <2>2, <2>5, <2>6
  <2> QED
    BY <2>1, <2>7 DEF Separated
<1> QED
  BY <1>1, SymbolTableInvariant, PTL

(* A lookup never has two symbols of one scope to choose from. *)
THEOREM DeterminateLookup == Spec => []LookupIsDeterminate
<1>1. SInv => LookupIsDeterminate
  BY DEF SInv, OneSymbolPerName, LookupIsDeterminate
<1> QED
  BY <1>1, SymbolTableInvariant, PTL

(* Whatever happens inside a nested scope, the scopes around it come out of it
   unchanged. *)
THEOREM FrozenEnclosingScopes == Spec => EnclosingScopesFrozen
<1> DEFINE Frozen == \A i \in DOMAIN scopes : i < Len(scopes) /\ i \in DOMAIN scopes'
                       => scopes'[i] = scopes[i]
<1>1. SInv /\ [Next]_vars => [Frozen]_vars
  <2> SUFFICES ASSUME SInv, Next, NEW i \in DOMAIN scopes, i < Len(scopes),
                      i \in DOMAIN scopes'
               PROVE  scopes'[i] = scopes[i]
    BY DEF vars
  <2>0. scopes \in Seq(Scope) /\ i # Len(scopes) /\ i \in 1 .. Len(scopes) /\ Len(scopes) \in Nat
    BY LenProperties DEF SInv, TypeOK
  <2>1. CASE enter_scope
    BY <2>0, <2>1, NewScopeOnTop DEF enter_scope
  <2>2. CASE exit_scope
    BY <2>0, <2>2, InnermostRemoved DEF exit_scope
  <2>3. ASSUME NEW n \in Names, add_symbol(n) PROVE scopes'[i] = scopes[i]
    BY <2>0, <2>3, VariableOnTop DEF add_symbol
  <2>4. ASSUME NEW n \in Names, NEW arity \in Arities, add_function_symbol(n, arity)
        PROVE  scopes'[i] = scopes[i]
    BY <2>0, <2>4, AritiesAssumption, UninitInRange, FunctionOnTop DEF add_function_symbol
  <2>5. CASE destroy_symbol_table
    BY <2>5, EmptySeq DEF destroy_symbol_table
  <2> QED
    BY <2>1, <2>2, <2>3, <2>4, <2>5 DEF Next
<1> QED
  BY <1>1, SymbolTableInvariant, PTL DEF Spec, EnclosingScopesFrozen

-----------------------------------------------------------------------------
(* Refinement. *)
FramesOf(s) == [i \in DOMAIN s |-> IndexesOf(s[i])]

LEMMA FramesAreFrames ==
  ASSUME NEW s \in Seq(Scope)
  PROVE  /\ FramesOf(s) \in Seq(SUBSET RegisterIndex)
         /\ Len(FramesOf(s)) = Len(s) /\ Len(s) \in Nat
         /\ DOMAIN FramesOf(s) = 1 .. Len(s) /\ DOMAIN s = 1 .. Len(s)
<1>1. DOMAIN s = 1 .. Len(s) /\ Len(s) \in Nat
  BY LenProperties
<1>2. \A i \in 1 .. Len(s) : IndexesOf(s[i]) \in SUBSET RegisterIndex
  BY <1>1, ElementOfSeq, ScopeFields DEF IndexesOf
<1>3. FramesOf(s) = [i \in 1 .. Len(s) |-> IndexesOf(s[i])]
  BY <1>1 DEF FramesOf
<1>4. FramesOf(s) \in Seq(SUBSET RegisterIndex)
  BY <1>1, <1>2, <1>3, IsASeq
<1> QED
  BY <1>1, <1>3, <1>4, LenProperties

LEMMA FramesEqual ==
  ASSUME NEW s \in Seq(Scope), NEW g \in Seq(SUBSET RegisterIndex),
         Len(g) = Len(s), \A i \in 1 .. Len(s) : IndexesOf(s[i]) = g[i]
  PROVE  FramesOf(s) = g
<1>1. \A i \in 1 .. Len(s) : FramesOf(s)[i] = g[i]
  BY FramesAreFrames DEF FramesOf
<1> QED
  BY <1>1, FramesAreFrames, SeqEqual

(* Every step of the table is a step of the abstract allocator on the registers
   of the open scopes, or leaves them alone. *)
LEMMA StepImplementsAllocation ==
  ASSUME SInv, [Next]_vars
  PROVE  [Allocation!Next]_<<FramesOf(scopes), wrapped>>
<1> DEFINE k == Len(scopes)
           f == FramesOf(scopes)
<1>0. scopes \in Seq(Scope)
  BY DEF SInv, TypeOK
<1>b. wrapped \in BOOLEAN /\ wrapped' \in BOOLEAN
  BY NextSInv DEF SInv, TypeOK
<1>1. /\ f \in Seq(SUBSET RegisterIndex) /\ Len(f) = k /\ k \in Nat
      /\ DOMAIN f = 1 .. k /\ DOMAIN scopes = 1 .. k
      /\ \A i \in 1 .. k : f[i] = IndexesOf(scopes[i])
  BY <1>0, FramesAreFrames DEF FramesOf
<1>2. f' = FramesOf(scopes')
  BY DEF FramesOf
<1>e. scopes # <<>> => f # <<>> /\ k > 0
  BY <1>0, <1>1, EmptySeq, InnermostInDomain
<1>3. CASE enter_scope /\ ~wrapped'
  <2>1. scopes # <<>> /\ scopes' = WithNewScope(scopes) /\ ~wrapped
    BY <1>3 DEF enter_scope
  <2>2. /\ scopes' \in Seq(Scope) /\ Len(scopes') = k + 1
        /\ \A i \in 1 .. k : scopes'[i] = scopes[i]
        /\ IndexesOf(scopes'[k + 1]) = {}
    <3>1. IndexesOf(create_scope(Innermost(scopes))) = {}
      BY DEF create_scope, IndexesOf, VariablesOf
    <3> QED
      BY <1>0, <2>1, <3>1, NewScopeOnTop
  <2>3. /\ \A i \in 1 .. k : Append(f, {})[i] = f[i]
        /\ Append(f, {})[k + 1] = {} /\ Len(Append(f, {})) = k + 1
        /\ Append(f, {}) \in Seq(SUBSET RegisterIndex)
    BY <1>1, AppendProperties
  <2>4. FramesOf(scopes') = Append(f, {})
    <3>1. \A i \in 1 .. k + 1 : i \in 1 .. k \/ i = k + 1
      BY <1>1
    <3>2. \A i \in 1 .. k + 1 : IndexesOf(scopes'[i]) = Append(f, {})[i]
      BY <1>1, <2>2, <2>3, <3>1
    <3> QED
      BY <2>2, <2>3, <3>2, FramesEqual
  <2> HIDE DEF f
  <2>5. f # <<>>
    BY <1>e, <2>1
  <2>6. Allocation!Open
    BY <1>2, <2>4, <2>5 DEF Allocation!Open, f, FramesOf
  <2>7. UNCHANGED wrapped
    BY <1>b, <1>3, <2>1
  <2> QED
    BY <2>6, <2>7 DEF Allocation!Next
<1>4. CASE exit_scope
  <2>1. k > 1 /\ scopes' = WithoutInnermost(scopes) /\ UNCHANGED wrapped
    BY <1>4 DEF exit_scope
  <2>2. /\ scopes' \in Seq(Scope) /\ Len(scopes') = k - 1
        /\ \A i \in 1 .. k - 1 : scopes'[i] = scopes[i]
    BY <1>0, <2>1, InnermostRemoved
  <2>3. /\ SubSeq(f, 1, k - 1) \in Seq(SUBSET RegisterIndex)
        /\ Len(SubSeq(f, 1, k - 1)) = k - 1
        /\ \A i \in 1 .. k - 1 : SubSeq(f, 1, k - 1)[i] = f[i]
    <3>1. \A i \in 1 .. k - 1 : f[i] \in SUBSET RegisterIndex
      BY <1>1, ElementOfSeq
    <3>2. 1 \in Int /\ k - 1 \in Int /\ 1 <= k - 1 /\ k - 1 - 1 + 1 = k - 1
      BY <1>1, <2>1
    <3> HIDE DEF f
    <3>3. /\ SubSeq(f, 1, k - 1) \in Seq(SUBSET RegisterIndex)
          /\ Len(SubSeq(f, 1, k - 1)) = k - 1
          /\ \A i \in 1 .. k - 1 : SubSeq(f, 1, k - 1)[i] = f[1 + i - 1]
      BY <3>1, <3>2, SubSeqProperties
    <3>4. \A i \in 1 .. k - 1 : 1 + i - 1 = i
      BY <1>1
    <3> QED
      BY <3>3, <3>4
  <2>4. FramesOf(scopes') = SubSeq(f, 1, k - 1)
    <3>1. \A i \in 1 .. k - 1 : i \in 1 .. k
      BY <1>1
    <3>2. \A i \in 1 .. k - 1 : IndexesOf(scopes'[i]) = SubSeq(f, 1, k - 1)[i]
      BY <1>1, <2>2, <2>3, <3>1
    <3> QED
      BY <2>2, <2>3, <3>2, FramesEqual
  <2>5. Allocation!Close
    BY <1>1, <1>2, <2>1, <2>4 DEF Allocation!Close, FramesOf
  <2> QED
    BY <2>1, <2>5 DEF Allocation!Next
<1>5. ASSUME NEW n \in Names, add_symbol(n), ~wrapped'
      PROVE  Allocation!Declare /\ UNCHANGED wrapped
  <2> DEFINE r == scopes[k].counter
             g == [f EXCEPT ![k] = @ \union {r}]
  <2>1. /\ scopes # <<>> /\ scopes' = WithVariable(scopes, n)
        /\ ~Wraps(Innermost(scopes)) /\ ~wrapped
    BY <1>5 DEF add_symbol
  <2>2. k \in 1 .. k /\ scopes[k] \in Scope /\ r \in RegisterIndex /\ r \in Nat
    BY <1>0, <2>1, InnermostInDomain, ScopeFields
  <2>3. /\ scopes' \in Seq(Scope) /\ Len(scopes') = k
        /\ \A i \in 1 .. k : i # k => scopes'[i] = scopes[i]
        /\ scopes'[k].symbols = scopes[k].symbols \union
              {Variable(n, r)}
    BY <1>0, <1>1, <2>1, VariableOnTop DEF Innermost
  <2>4. IndexesOf(scopes'[k]) = IndexesOf(scopes[k]) \union {r}
    <3> DEFINE v == Variable(n, r)
    <3>1. VariablesOf(scopes'[k]) = VariablesOf(scopes[k]) \union {v}
      BY <2>3 DEF VariablesOf, Variable
    <3>2. v.index = r
      BY DEF Variable
    <3> HIDE DEF v, r
    <3> QED
      BY <3>1, <3>2 DEF IndexesOf
  <2>5. r \notin Allocation!Held
    <3> SUFFICES ASSUME NEW i \in 1 .. k, r \in IndexesOf(scopes[i])
                 PROVE  FALSE
      BY <1>1 DEF Allocation!Held, FramesOf
    <3>1. PICK y \in VariablesOf(scopes[i]) : y.index = r
      BY DEF IndexesOf
    <3>2. Separated(scopes)
      BY <2>1 DEF SInv
    <3>3. y.index < scopes[i].counter
      BY <1>1, <3>2 DEF Separated
    <3>4. i < k => scopes[i].counter < r
      BY <1>1, <2>2, <3>2 DEF Separated
    <3>5. scopes[i].counter \in Nat
      BY <1>0, <1>1, ElementOfSeq, ScopeFields
    <3> QED
      BY <1>1, <2>2, <3>1, <3>3, <3>4, <3>5
  <2>6. g \in Seq(SUBSET RegisterIndex) /\ Len(g) = k
        /\ \A i \in 1 .. k : g[i] = IF i = k THEN f[k] \union {r} ELSE f[i]
    <3>1. f[k] \union {r} \in SUBSET RegisterIndex
      BY <1>1, <2>2, ElementOfSeq
    <3>2. g = [f EXCEPT ![k] = f[k] \union {r}]
      OBVIOUS
    <3> HIDE DEF f, g
    <3> QED
      BY <1>1, <2>2, <3>1, <3>2, ExceptSeq
  <2>7. FramesOf(scopes') = g
    <3>1. \A i \in 1 .. k : IndexesOf(scopes'[i]) = g[i]
      BY <1>1, <2>3, <2>4, <2>6
    <3> HIDE DEF g
    <3> QED
      BY <2>3, <2>6, <3>1, FramesEqual
  <2>8. Allocation!Declare
    BY <1>1, <1>2, <1>e, <2>1, <2>2, <2>5, <2>7 DEF Allocation!Declare, FramesOf
  <2>9. UNCHANGED wrapped
    BY <1>b, <1>5, <2>1
  <2> QED
    BY <2>8, <2>9
<1>6. ASSUME NEW n \in Names, NEW arity \in Arities, add_function_symbol(n, arity)
      PROVE  UNCHANGED <<FramesOf(scopes), wrapped>>
  <2>1. PICK e \in UninitIndex : scopes' = WithFunction(scopes, n, e, arity)
    BY <1>6 DEF add_function_symbol
  <2>2. scopes # <<>>
    BY <1>6 DEF add_function_symbol
  <2>3. /\ DOMAIN scopes' = DOMAIN scopes
        /\ \A i \in DOMAIN scopes : VariablesOf(scopes'[i]) = VariablesOf(scopes[i])
    BY <1>0, <2>1, <2>2, AritiesAssumption, UninitInRange, FunctionOnTop
  <2>4. UNCHANGED FramesOf(scopes)
    BY <2>3 DEF FramesOf, IndexesOf
  <2>5. UNCHANGED wrapped
    BY <1>6 DEF add_function_symbol
  <2> QED
    BY <2>4, <2>5
<1>7. CASE destroy_symbol_table
  <2>1. /\ scopes' = <<>> /\ <<>> \in Seq(Scope) /\ Len(<<>>) = 0
        /\ UNCHANGED wrapped
    BY <1>7, EmptySeq DEF destroy_symbol_table
  <2>2. FramesOf(scopes') = <<>>
    BY <2>1, FramesAreFrames, EmptySeq
  <2> QED
    BY <1>2, <2>1, <2>2 DEF Allocation!Next, Allocation!Discard, FramesOf
<1>8. CASE UNCHANGED vars
  BY <1>8 DEF vars, FramesOf
<1>9. CASE wrapped'
  BY <1>b, <1>9 DEF Allocation!Next, Allocation!RunOut
<1> QED
  BY <1>3, <1>4, <1>5, <1>6, <1>7, <1>8, <1>9 DEF Next, Allocation!Next

(* The symbol table implements the abstract register allocator: as long as no
   counter overflows, every variable gets a register of its own. *)
THEOREM TableImplementsAllocation == Spec => ImplementsAllocation
<1>1. Init => Allocation!Init
  <2> SUFFICES ASSUME Init PROVE Allocation!Init
    OBVIOUS
  <2>1. scopes = << [symbols |-> {}, counter |-> 0] >>
    BY DEF Init, create_symbol_table
  <2>2. [i \in DOMAIN scopes |-> IndexesOf(scopes[i])] = << {} >>
    BY <2>1 DEF IndexesOf, VariablesOf
  <2> QED
    BY <2>2 DEF Allocation!Init, Init, create_symbol_table
<1>2. SInv /\ [Next]_vars
        => [Allocation!Next]_<<[i \in DOMAIN scopes |-> IndexesOf(scopes[i])], wrapped>>
  BY StepImplementsAllocation DEF FramesOf
<1>3. SInv /\ [Next]_vars => SInv'
  BY NextSInv
<1> QED
  BY <1>1, <1>2, <1>3, InitSInv, PTL
     DEF Spec, ImplementsAllocation, Allocation!Spec
=============================================================================
