------------------------------ MODULE CompilerProofs ------------------------------
(***************************************************************************)
(* What every step of the compiler preserves, for every program, chunk     *)
(* capacity and register range: the jumps that wait for their target are   *)
(* the ones the pending handlers know, scopes are closed as they were      *)
(* opened, and the buffer stays sound.                                     *)
(***************************************************************************)
EXTENDS Compiler, ScopesProofs, BytecodeChunksProofs

-----------------------------------------------------------------------------
(* The recursion over a list of instructions. *)
EmittedOneByOne(b, is, g) ==
  \E h : /\ h[0] = b
         /\ \A k \in 1 .. Len(is) : h[k] = Emitted(h[k - 1], is[k], g)
         /\ EmittedAll(b, is, g) = h[Len(is)]

LEMMA EmittedAllSteps ==
  ASSUME NEW b, NEW is, Len(is) \in Nat, NEW g
  PROVE  EmittedOneByOne(b, is, g)
<1> DEFINE S == {n \in Nat : \E f : f = [k \in 0 .. n |-> IF k = 0 THEN b
                                           ELSE Emitted(f[k - 1], is[k], g)]}
<1>1. 0 \in S
  <2> DEFINE f == [k \in 0 .. 0 |-> b]
  <2>1. f = [k \in 0 .. 0 |-> IF k = 0 THEN b ELSE Emitted(f[k - 1], is[k], g)]
    OBVIOUS
  <2> QED
    BY <2>1
<1>2. ASSUME NEW n \in S PROVE n + 1 \in S
  <2>1. PICK f : f = [k \in 0 .. n |-> IF k = 0 THEN b ELSE Emitted(f[k - 1], is[k], g)]
    OBVIOUS
  <2> DEFINE e == [k \in 0 .. n + 1 |-> IF k = n + 1 THEN Emitted(f[n], is[n + 1], g) ELSE f[k]]
  <2>2. \A k \in 0 .. n + 1 :
          e[k] = IF k = 0 THEN b ELSE Emitted(e[k - 1], is[k], g)
    <3> TAKE k \in 0 .. n + 1
    <3>1. n \in Nat /\ (k = n + 1 \/ k \in 0 .. n)
      OBVIOUS
    <3>2. CASE k = n + 1
      <4>1. k # 0 /\ k - 1 = n /\ k - 1 \in 0 .. n + 1 /\ k - 1 # n + 1
        BY <3>1, <3>2
      <4>2. e[k - 1] = f[n] /\ e[k] = Emitted(f[n], is[n + 1], g)
        BY <3>2, <4>1
      <4> QED
        BY <3>2, <4>1, <4>2
    <3>3. CASE k \in 0 .. n
      <4>1. e[k] = f[k] /\ f[k] = IF k = 0 THEN b ELSE Emitted(f[k - 1], is[k], g)
        BY <2>1, <3>1, <3>3
      <4>2. k # 0 => k - 1 \in 0 .. n + 1 /\ k - 1 # n + 1 /\ e[k - 1] = f[k - 1]
        BY <3>1, <3>3
      <4> QED
        BY <4>1, <4>2
    <3> QED
      BY <3>1, <3>2, <3>3
  <2>3. e = [k \in 0 .. n + 1 |-> e[k]]
    OBVIOUS
  <2> HIDE DEF e
  <2>4. e = [k \in 0 .. n + 1 |-> IF k = 0 THEN b ELSE Emitted(e[k - 1], is[k], g)]
    BY <2>2, <2>3
  <2>5. n + 1 \in Nat
    OBVIOUS
  <2>6. \E h : h = [k \in 0 .. n + 1 |-> IF k = 0 THEN b ELSE Emitted(h[k - 1], is[k], g)]
    <3> WITNESS e
    <3> QED
      BY <2>4
  <2> QED
    BY <2>5, <2>6
<1>3. S = Nat
  <2> HIDE DEF S
  <2>1. S \in SUBSET Nat
    BY DEF S
  <2> QED
    BY <1>1, <1>2, <2>1, SetInduction
<1>4. PICK f : f = [k \in 0 .. Len(is) |-> IF k = 0 THEN b ELSE Emitted(f[k - 1], is[k], g)]
  BY <1>3
<1> DEFINE h == CHOOSE h : h = [k \in 0 .. Len(is) |-> IF k = 0 THEN b
                                                    ELSE Emitted(h[k - 1], is[k], g)]
<1>5. h = [k \in 0 .. Len(is) |-> IF k = 0 THEN b ELSE Emitted(h[k - 1], is[k], g)]
  <2> HIDE DEF h
  <2> QED
    BY <1>4 DEF h
<1>6. EmittedAll(b, is, g) = h[Len(is)]
  BY DEF EmittedAll
<1> HIDE DEF h
<1>7. h[0] = b /\ \A k \in 1 .. Len(is) : h[k] = Emitted(h[k - 1], is[k], g)
  BY <1>5
<1> QED
  BY <1>6, <1>7 DEF EmittedOneByOne

(* The recursion over a list of parameters. *)
DeclaredOneByOne(s, names) ==
  \E h : /\ h[0] = s
         /\ \A k \in 1 .. Len(names) : h[k] = Declared(h[k - 1], names[k])
         /\ DeclaredAll(s, names) = h[Len(names)]

LEMMA DeclaredAllSteps ==
  ASSUME NEW s, NEW names, Len(names) \in Nat
  PROVE  DeclaredOneByOne(s, names)
<1> DEFINE S == {n \in Nat : \E f : f = [k \in 0 .. n |-> IF k = 0 THEN s
                                           ELSE Declared(f[k - 1], names[k])]}
<1>1. 0 \in S
  <2> DEFINE f == [k \in 0 .. 0 |-> s]
  <2>1. f = [k \in 0 .. 0 |-> IF k = 0 THEN s ELSE Declared(f[k - 1], names[k])]
    OBVIOUS
  <2> QED
    BY <2>1
<1>2. ASSUME NEW n \in S PROVE n + 1 \in S
  <2>1. PICK f : f = [k \in 0 .. n |-> IF k = 0 THEN s ELSE Declared(f[k - 1], names[k])]
    OBVIOUS
  <2> DEFINE e == [k \in 0 .. n + 1 |-> IF k = n + 1 THEN Declared(f[n], names[n + 1]) ELSE f[k]]
  <2>2. \A k \in 0 .. n + 1 :
          e[k] = IF k = 0 THEN s ELSE Declared(e[k - 1], names[k])
    <3> TAKE k \in 0 .. n + 1
    <3>1. n \in Nat /\ (k = n + 1 \/ k \in 0 .. n)
      OBVIOUS
    <3>2. CASE k = n + 1
      <4>1. k # 0 /\ k - 1 = n /\ k - 1 \in 0 .. n + 1 /\ k - 1 # n + 1
        BY <3>1, <3>2
      <4>2. e[k - 1] = f[n] /\ e[k] = Declared(f[n], names[n + 1])
        BY <3>2, <4>1
      <4> QED
        BY <3>2, <4>1, <4>2
    <3>3. CASE k \in 0 .. n
      <4>1. e[k] = f[k] /\ f[k] = IF k = 0 THEN s ELSE Declared(f[k - 1], names[k])
        BY <2>1, <3>1, <3>3
      <4>2. k # 0 => k - 1 \in 0 .. n + 1 /\ k - 1 # n + 1 /\ e[k - 1] = f[k - 1]
        BY <3>1, <3>3
      <4> QED
        BY <4>1, <4>2
    <3> QED
      BY <3>1, <3>2, <3>3
  <2>3. e = [k \in 0 .. n + 1 |-> e[k]]
    OBVIOUS
  <2> HIDE DEF e
  <2>4. e = [k \in 0 .. n + 1 |-> IF k = 0 THEN s ELSE Declared(e[k - 1], names[k])]
    BY <2>2, <2>3
  <2>5. n + 1 \in Nat
    OBVIOUS
  <2>6. \E h : h = [k \in 0 .. n + 1 |-> IF k = 0 THEN s ELSE Declared(h[k - 1], names[k])]
    <3> WITNESS e
    <3> QED
      BY <2>4
  <2> QED
    BY <2>5, <2>6
<1>3. S = Nat
  <2> HIDE DEF S
  <2>1. S \in SUBSET Nat
    BY DEF S
  <2> QED
    BY <1>1, <1>2, <2>1, SetInduction
<1>4. PICK f : f = [k \in 0 .. Len(names) |-> IF k = 0 THEN s ELSE Declared(f[k - 1], names[k])]
  BY <1>3
<1> DEFINE h == CHOOSE h : h = [k \in 0 .. Len(names) |-> IF k = 0 THEN s
                                                    ELSE Declared(h[k - 1], names[k])]
<1>5. h = [k \in 0 .. Len(names) |-> IF k = 0 THEN s ELSE Declared(h[k - 1], names[k])]
  <2> HIDE DEF h
  <2> QED
    BY <1>4 DEF h
<1>6. DeclaredAll(s, names) = h[Len(names)]
  BY DEF DeclaredAll
<1> HIDE DEF h
<1>7. h[0] = s /\ \A k \in 1 .. Len(names) : h[k] = Declared(h[k - 1], names[k])
  BY <1>5
<1> QED
  BY <1>6, <1>7 DEF DeclaredOneByOne

-----------------------------------------------------------------------------
\* What the compiler emits, and what of it is neither jump nor link.
Ops == Opcodes \union JumpOps \union {"OP_JMP_ADR"}
         \union (IF "minus" \in Constructs THEN {"int64"} ELSE {})

Plain(i) == i \in Instruction /\ i.op \in Ops \ (JumpOps \union {"OP_JMP_ADR"})

(* What the pending work says of the buffer and of the scopes: the jumps whose
   target it will set, the position it will jump back to, whether it ends with
   leaving a scope, and the names it will look up in that scope. *)
PlaceOf(t) == IF t.do = "false_expr" THEN {t.jump_to_false}
              ELSE IF t.do \in {"end_ternary", "end_if"} THEN {t.jump_to_end}
              ELSE IF t.do = "else_branch" THEN {t.jump_to_else}
              ELSE IF t.do = "end_for" THEN {t.exit_jump}
              ELSE {}

LabelOf(t) == IF t.do = "end_for" THEN {t.loop_start} ELSE {}

Closes(t) ==
  t.do \in {"then_branch", "else_branch", "end_if", "for_body", "end_for", "end_fn"}

InLoop(t) == t.do \in {"for_body", "end_for"}

LooksUp(t, scope) == InLoop(t) => DeclaredIn(scope, t.name) /\ DeclaredIn(scope, "__end")

Items(s)  == {s[k] : k \in DOMAIN s}
Open(s)   == UNION {PlaceOf(s[k]) : k \in DOMAIN s}
Labels(s) == UNION {LabelOf(s[k]) : k \in DOMAIN s}
InBody(s) == \E k \in DOMAIN s : s[k].do = "end_fn"

GoodItem(t) ==
  /\ t.do = "emit" => Plain(t.instruction)
  /\ t.do = "assign" => t.name \in UserNames
  /\ InLoop(t) => t.name \in Variables

\* The program is the outermost work, and functions are declared in nothing else.
Queue(s) ==
  /\ s \in Seq(Items(s))
  /\ \A k \in DOMAIN s : /\ GoodItem(s[k])
                         /\ s[k].do = "program" <=> k = Len(s)
                         /\ s[k].do = "end_fn" => k = Len(s) - 1

(* The number of scopes that are open when the work is resumed: handlers that
   leave a scope do so in the order opposite to the one they entered it in. *)
Nested(s, c, depth) ==
  \A k \in DOMAIN s : Closes(s[k]) =>
    /\ depth[k] \in 2 .. Len(c)
    /\ LooksUp(s[k], c[depth[k]])
    /\ \A j \in DOMAIN s : k < j /\ Closes(s[j]) => depth[j] < depth[k]

Scoped(s, c) ==
  /\ c \in Seq(Scope) /\ c # <<>>
  /\ \E depth \in [DOMAIN s -> Nat] : Nested(s, c, depth)

\* print has no code.
Registered(f, b) == \A n \in DOMAIN f : n # "print" => f[n].chunk \in DOMAIN b.chunks

Compiling(c, b, f, s) ==
  /\ Queue(s) /\ Scoped(s, c)
  /\ InBody(s) <=> InFunction(b)
  /\ Sound(b, Open(s), Labels(s)) /\ OpsIn(b, Ops) /\ Registered(f, b)

Compiled(b, f) == Sound(b, {}, {}) /\ OpsIn(b, Ops) /\ Registered(f, b)

\* The inductive invariant of the compiler.
CInv ==
  \/ outcome = "compiling" /\ Compiling(symbols, buffer, functions, todo)
  \/ outcome = "compiled"  /\ Compiled(buffer, functions)
  \/ outcome = "rejected"  /\ Typed(buffer)

-----------------------------------------------------------------------------
(* The work that follows when the first item is replaced by others. *)
LEMMA Replaced ==
  ASSUME NEW s, s \in Seq(Items(s)), s # <<>>, NEW is, is \in Seq(Items(is))
  PROVE  LET t == is \o Tail(s)
             m == Len(is)
         IN /\ t \in Seq(Items(t)) /\ m \in Nat /\ Len(s) \in Nat /\ Len(s) > 0
            /\ Len(t) = m + Len(s) - 1
            /\ DOMAIN t = 1 .. m + Len(s) - 1
            /\ DOMAIN is = 1 .. m /\ DOMAIN s = 1 .. Len(s)
            /\ \A k \in 1 .. m : t[k] = is[k]
            /\ \A k \in 2 .. Len(s) : t[m + k - 1] = s[k]
            /\ \A k \in DOMAIN t : k \in 1 .. m \/ (k > m /\ k - m + 1 \in 2 .. Len(s))
            /\ \A k \in DOMAIN t : k > m => t[k] = s[k - m + 1]
<1> DEFINE t == is \o Tail(s)
           m == Len(is)
           A == Items(s) \union Items(is)
<1>1. s \in Seq(A) /\ is \in Seq(A)
  <2>1. Len(s) \in Nat /\ Len(is) \in Nat /\ DOMAIN s = 1 .. Len(s) /\ DOMAIN is = 1 .. Len(is)
    BY LenProperties
  <2>2. s = [k \in 1 .. Len(s) |-> s[k]] /\ is = [k \in 1 .. Len(is) |-> is[k]]
    BY LenProperties
  <2>3. (\A k \in 1 .. Len(s) : s[k] \in A) /\ (\A k \in 1 .. Len(is) : is[k] \in A)
    BY <2>1 DEF Items
  <2> QED
    BY <2>1, <2>2, <2>3, IsASeq
<1> HIDE DEF A
<1>2. /\ Len(s) \in Nat /\ Len(s) > 0 /\ m \in Nat
      /\ DOMAIN is = 1 .. m /\ DOMAIN s = 1 .. Len(s)
  BY <1>1, EmptySeq, LenProperties
<1>3. /\ Tail(s) \in Seq(A) /\ Len(Tail(s)) = Len(s) - 1
      /\ \A k \in 1 .. Len(s) - 1 : Tail(s)[k] = s[k + 1]
  BY <1>1, HeadTailProperties
<1>4. /\ t \in Seq(A) /\ Len(t) = m + Len(s) - 1
      /\ \A k \in 1 .. m : t[k] = is[k]
      /\ \A k \in 1 .. Len(s) - 1 : t[m + k] = Tail(s)[k]
  BY <1>1, <1>2, <1>3, ConcatProperties
<1> HIDE DEF t, m
<1>5. DOMAIN t = 1 .. m + Len(s) - 1 /\ t = [k \in 1 .. Len(t) |-> t[k]] /\ Len(t) \in Nat
  BY <1>4, LenProperties
<1>6. t \in Seq(Items(t))
  <2>1. \A k \in 1 .. Len(t) : t[k] \in Items(t)
    BY <1>4, <1>5 DEF Items
  <2> QED
    BY <1>5, <2>1, IsASeq
<1>7. ASSUME NEW k \in 2 .. Len(s) PROVE t[m + k - 1] = s[k]
  <2>1. k - 1 \in 1 .. Len(s) - 1 /\ m + (k - 1) = m + k - 1 /\ (k - 1) + 1 = k
    BY <1>2
  <2> QED
    BY <1>3, <1>4, <2>1
<1>8. ASSUME NEW k \in DOMAIN t
      PROVE  /\ k \in 1 .. m \/ (k > m /\ k - m + 1 \in 2 .. Len(s))
             /\ k > m => t[k] = s[k - m + 1]
  <2>1. k \in 1 .. m \/ (k > m /\ k - m + 1 \in 2 .. Len(s) /\ m + (k - m + 1) - 1 = k)
    BY <1>2, <1>5
  <2> QED
    BY <1>2, <1>5, <1>7, <2>1
<1> QED
  BY <1>2, <1>4, <1>5, <1>6, <1>7, <1>8 DEF t, m

(* The first item and the rest, of what the queue says of the buffer. *)
LEMMA FirstAndRest ==
  ASSUME NEW s, s \in Seq(Items(s)), s # <<>>
  PROVE  /\ Head(s) = s[1] /\ 1 \in DOMAIN s /\ Len(s) \in Nat /\ Len(s) > 0
         /\ DOMAIN s = 1 .. Len(s)
         /\ Open(s) = PlaceOf(s[1]) \union Open(Tail(s))
         /\ Labels(s) = LabelOf(s[1]) \union Labels(Tail(s))
<1>1. Len(s) \in Nat /\ Len(s) > 0 /\ DOMAIN s = 1 .. Len(s)
  BY EmptySeq, LenProperties
<1>2. /\ Tail(s) \in Seq(Items(s)) /\ Len(Tail(s)) = Len(s) - 1
      /\ \A k \in 1 .. Len(s) - 1 : Tail(s)[k] = s[k + 1]
      /\ Head(s) = s[1]
  BY HeadTailProperties
<1>3. DOMAIN Tail(s) = 1 .. Len(s) - 1
  BY <1>2, LenProperties
<1>4. \A k \in 1 .. Len(s) : k = 1 \/ (k - 1 \in DOMAIN Tail(s) /\ Tail(s)[k - 1] = s[k])
  BY <1>1, <1>2, <1>3
<1>5. \A k \in DOMAIN Tail(s) : k + 1 \in DOMAIN s /\ Tail(s)[k] = s[k + 1]
  BY <1>1, <1>2, <1>3
<1>6. 1 \in DOMAIN s
  BY <1>1
<1> DEFINE r == Tail(s)
<1> HIDE DEF r
<1>7. Open(s) = PlaceOf(s[1]) \union Open(r)
  <2>1. Open(s) \subseteq PlaceOf(s[1]) \union Open(r)
    BY <1>1, <1>4 DEF Open, r
  <2>2. Open(r) \subseteq Open(s)
    BY <1>5 DEF Open, r
  <2>3. PlaceOf(s[1]) \subseteq Open(s)
    BY <1>6 DEF Open
  <2> QED
    BY <2>1, <2>2, <2>3
<1>8. Labels(s) = LabelOf(s[1]) \union Labels(r)
  <2>1. Labels(s) \subseteq LabelOf(s[1]) \union Labels(r)
    BY <1>1, <1>4 DEF Labels, r
  <2>2. Labels(r) \subseteq Labels(s)
    BY <1>5 DEF Labels, r
  <2>3. LabelOf(s[1]) \subseteq Labels(s)
    BY <1>6 DEF Labels
  <2> QED
    BY <2>1, <2>2, <2>3
<1> QED
  BY <1>1, <1>2, <1>6, <1>7, <1>8 DEF r

LEMMA OpenReplaced ==
  ASSUME NEW s, s \in Seq(Items(s)), s # <<>>, NEW is, is \in Seq(Items(is))
  PROVE  /\ Open(is \o Tail(s)) = Open(is) \union Open(Tail(s))
         /\ Labels(is \o Tail(s)) = Labels(is) \union Labels(Tail(s))
<1> DEFINE t == is \o Tail(s)
           m == Len(is)
           r == Tail(s)
<1>1. /\ m \in Nat /\ Len(s) \in Nat /\ Len(s) > 0
      /\ DOMAIN t = 1 .. m + Len(s) - 1 /\ DOMAIN is = 1 .. m
      /\ \A k \in 1 .. m : t[k] = is[k]
      /\ \A k \in 2 .. Len(s) : t[m + k - 1] = s[k]
      /\ \A k \in DOMAIN t : k \in 1 .. m \/ (k > m /\ k - m + 1 \in 2 .. Len(s))
      /\ \A k \in DOMAIN t : k > m => t[k] = s[k - m + 1]
  BY Replaced
<1>2. /\ r \in Seq(Items(s)) /\ Len(r) = Len(s) - 1
      /\ \A k \in 1 .. Len(s) - 1 : r[k] = s[k + 1]
  BY HeadTailProperties
<1>3. DOMAIN r = 1 .. Len(s) - 1
  BY <1>2, LenProperties
<1> HIDE DEF t, m, r
<1>4. \A k \in DOMAIN t : \/ k \in DOMAIN is /\ t[k] = is[k]
                          \/ k - m \in DOMAIN r /\ t[k] = r[k - m]
  <2> TAKE k \in DOMAIN t
  <2>1. CASE k \in 1 .. m
    BY <1>1, <2>1
  <2>2. CASE k > m
    <3>1. k - m + 1 \in 2 .. Len(s) /\ t[k] = s[k - m + 1] /\ k \in Nat
      BY <1>1, <2>2
    <3>2. k - m \in 1 .. Len(s) - 1 /\ (k - m) + 1 = k - m + 1
      BY <1>1, <3>1
    <3> QED
      BY <1>2, <1>3, <3>1, <3>2
  <2> QED
    BY <1>1, <2>1, <2>2
<1>5. \A k \in DOMAIN is : k \in DOMAIN t /\ t[k] = is[k]
  BY <1>1
<1>6. \A k \in DOMAIN r : m + k \in DOMAIN t /\ t[m + k] = r[k]
  <2> TAKE k \in DOMAIN r
  <2>1. k + 1 \in 2 .. Len(s) /\ m + (k + 1) - 1 = m + k /\ m + k \in DOMAIN t
    BY <1>1, <1>3
  <2> QED
    BY <1>1, <1>2, <1>3, <2>1
<1>7. Open(t) = Open(is) \union Open(r)
  <2>1. Open(t) \subseteq Open(is) \union Open(r)
    BY <1>4 DEF Open
  <2>2. Open(is) \subseteq Open(t) /\ Open(r) \subseteq Open(t)
    BY <1>5, <1>6 DEF Open
  <2> QED
    BY <2>1, <2>2
<1>8. Labels(t) = Labels(is) \union Labels(r)
  <2>1. Labels(t) \subseteq Labels(is) \union Labels(r)
    BY <1>4 DEF Labels
  <2>2. Labels(is) \subseteq Labels(t) /\ Labels(r) \subseteq Labels(t)
    BY <1>5, <1>6 DEF Labels
  <2> QED
    BY <2>1, <2>2
<1> QED
  BY <1>7, <1>8 DEF t, r

-----------------------------------------------------------------------------
(* The scopes the new items and the remaining ones will leave. *)
LEMMA ScopedReplaced ==
  ASSUME NEW s, s \in Seq(Items(s)), s # <<>>, NEW is, is \in Seq(Items(is)),
         NEW c, NEW depth \in [DOMAIN s -> Nat], Nested(s, c, depth),
         NEW e \in Seq(Scope), e # <<>>, NEW m \in Nat,
         \A k \in DOMAIN is : Closes(is[k]) =>
           /\ k = Len(is) /\ m \in 2 .. Len(e) /\ LooksUp(is[k], e[m])
           /\ \A j \in 2 .. Len(s) : Closes(s[j]) => depth[j] < m,
         \A j \in 2 .. Len(s) : Closes(s[j]) =>
           depth[j] \in 2 .. Len(e) /\ LooksUp(s[j], e[depth[j]])
  PROVE  Scoped(is \o Tail(s), e)
<1> DEFINE t == is \o Tail(s)
           l == Len(is)
           d == [k \in DOMAIN t |-> IF k > l THEN depth[k - l + 1] ELSE m]
<1>1. /\ l \in Nat /\ Len(s) \in Nat /\ Len(s) > 0
      /\ DOMAIN t = 1 .. l + Len(s) - 1 /\ DOMAIN is = 1 .. l /\ DOMAIN s = 1 .. Len(s)
      /\ \A k \in 1 .. l : t[k] = is[k]
      /\ \A k \in DOMAIN t : k \in 1 .. l \/ (k > l /\ k - l + 1 \in 2 .. Len(s))
      /\ \A k \in DOMAIN t : k > l => t[k] = s[k - l + 1]
  BY Replaced
<1> HIDE DEF t, l
<1>2. \A k \in DOMAIN t : d[k] \in Nat
  BY <1>1
<1>3. d \in [DOMAIN t -> Nat]
  BY <1>2
<1>4. \A k \in DOMAIN t : (k > l => d[k] = depth[k - l + 1]) /\ (k \in 1 .. l => d[k] = m)
  BY <1>1
<1> HIDE DEF d
<1>5. ASSUME NEW k \in DOMAIN t, Closes(t[k])
      PROVE  /\ d[k] \in 2 .. Len(e)
             /\ LooksUp(t[k], e[d[k]])
             /\ \A j \in DOMAIN t : k < j /\ Closes(t[j]) => d[j] < d[k]
  <2>1. CASE k \in 1 .. l
    <3>1. k = l /\ d[k] = m /\ m \in 2 .. Len(e) /\ LooksUp(t[k], e[m])
      BY <1>1, <1>4, <1>5, <2>1 DEF l
    <3>2. ASSUME NEW j \in DOMAIN t, k < j, Closes(t[j]) PROVE d[j] < d[k]
      <4>1. j > l /\ j - l + 1 \in 2 .. Len(s) /\ t[j] = s[j - l + 1] /\ d[j] = depth[j - l + 1]
        BY <1>1, <1>4, <3>1, <3>2
      <4>2. Closes(s[j - l + 1])
        BY <3>2, <4>1
      <4>3. is[k] = t[k] /\ k \in DOMAIN is
        BY <1>1, <2>1
      <4> QED
        BY <1>5, <3>1, <4>1, <4>2, <4>3
    <3> QED
      BY <3>1, <3>2
  <2>2. CASE k > l
    <3> DEFINE i == k - l + 1
    <3>1. i \in 2 .. Len(s) /\ t[k] = s[i] /\ d[k] = depth[i] /\ i \in DOMAIN s
      BY <1>1, <1>4, <2>2
    <3>2. d[k] \in 2 .. Len(e) /\ LooksUp(t[k], e[d[k]])
      BY <1>5, <3>1
    <3>3. ASSUME NEW j \in DOMAIN t, k < j, Closes(t[j]) PROVE d[j] < d[k]
      <4>1. j > l
        BY <1>1, <2>2, <3>3
      <4>2. /\ j - l + 1 \in 2 .. Len(s) /\ t[j] = s[j - l + 1] /\ d[j] = depth[j - l + 1]
            /\ j - l + 1 \in DOMAIN s /\ i < j - l + 1
        BY <1>1, <1>4, <3>3, <4>1
      <4> QED
        BY <1>5, <3>1, <3>3, <4>2 DEF Nested
    <3> QED
      BY <3>2, <3>3
  <2> QED
    BY <1>1, <2>1, <2>2
<1>6. Nested(t, e, d)
  BY <1>5 DEF Nested
<1>7. Scoped(t, e)
  BY <1>3, <1>6 DEF Scoped
<1> QED
  BY <1>7 DEF t

(* The remaining items find the names they look up when scopes have grown. *)
LEMMA RestFinds ==
  ASSUME NEW s, Queue(s), NEW c, NEW depth \in [DOMAIN s -> Nat], Nested(s, c, depth),
         c \in Seq(Scope), NEW e \in Seq(Scope), Grows(c, e), NEW j \in DOMAIN s, Closes(s[j])
  PROVE  depth[j] \in 2 .. Len(c) /\ depth[j] \in 2 .. Len(e) /\ LooksUp(s[j], e[depth[j]])
<1>1. depth[j] \in 2 .. Len(c) /\ LooksUp(s[j], c[depth[j]])
  BY DEF Nested
<1>2. DOMAIN c = 1 .. Len(c) /\ DOMAIN e = 1 .. Len(e) /\ Len(c) \in Nat /\ Len(e) \in Nat
  BY LenProperties
<1>3. depth[j] \in DOMAIN c
  BY <1>1, <1>2
<1>4. /\ depth[j] \in DOMAIN e
      /\ \A n \in Names : DeclaredIn(c[depth[j]], n) => DeclaredIn(e[depth[j]], n)
  BY <1>3 DEF Grows
<1>5. InLoop(s[j]) => s[j].name \in Names
  BY GrammarAssumption, NamesAssumption DEF Queue, GoodItem
<1>6. "__end" \in Names
  BY NamesAssumption
<1> QED
  BY <1>1, <1>2, <1>4, <1>5, <1>6 DEF LooksUp

(* Items that leave no scope, while scopes may have grown. *)
LEMMA ScopedGrows ==
  ASSUME NEW s, Queue(s), s # <<>>, NEW is, is \in Seq(Items(is)),
         \A k \in DOMAIN is : ~Closes(is[k]),
         NEW c, Scoped(s, c), NEW e \in Seq(Scope), e # <<>>, Grows(c, e)
  PROVE  Scoped(is \o Tail(s), e)
<1>1. c \in Seq(Scope) /\ s \in Seq(Items(s))
  BY DEF Scoped, Queue
<1>2. PICK depth \in [DOMAIN s -> Nat] : Nested(s, c, depth)
  BY DEF Scoped
<1>3. DOMAIN s = 1 .. Len(s) /\ Len(s) \in Nat
  BY <1>1, LenProperties
<1>4. ASSUME NEW j \in 2 .. Len(s), Closes(s[j])
      PROVE  depth[j] \in 2 .. Len(e) /\ LooksUp(s[j], e[depth[j]])
  <2>1. j \in DOMAIN s
    BY <1>3
  <2> QED
    BY <1>1, <1>2, <1>4, <2>1, RestFinds
<1> QED
  BY <1>1, <1>2, <1>4, ScopedReplaced

(* The last of the new items leaves the scope that is entered. *)
LEMMA ScopedEntered ==
  ASSUME NEW s, Queue(s), s # <<>>, NEW is, is \in Seq(Items(is)),
         \A k \in DOMAIN is : Closes(is[k]) => k = Len(is),
         NEW c, Scoped(s, c), NEW e \in Seq(Scope), Len(e) = Len(c) + 1, Grows(c, e),
         LooksUp(is[Len(is)], e[Len(e)])
  PROVE  Scoped(is \o Tail(s), e)
<1>1. c \in Seq(Scope) /\ s \in Seq(Items(s)) /\ c # <<>>
  BY DEF Scoped, Queue
<1>2. PICK depth \in [DOMAIN s -> Nat] : Nested(s, c, depth)
  BY DEF Scoped
<1>3. DOMAIN s = 1 .. Len(s) /\ Len(s) \in Nat
  BY <1>1, LenProperties
<1>4. /\ Len(c) \in Nat /\ Len(c) > 0
  BY <1>1, EmptySeq, LenProperties
<1>5. e # <<>> /\ Len(e) \in 2 .. Len(e) /\ Len(e) \in Nat
  BY <1>4, EmptySeq
<1>6. ASSUME NEW j \in 2 .. Len(s), Closes(s[j])
      PROVE  /\ depth[j] \in 2 .. Len(c) /\ depth[j] \in 2 .. Len(e)
             /\ LooksUp(s[j], e[depth[j]])
  <2>1. j \in DOMAIN s
    BY <1>3
  <2> QED
    BY <1>1, <1>2, <1>6, <2>1, RestFinds
<1>7. \A j \in 2 .. Len(s) : Closes(s[j]) => depth[j] < Len(e)
  BY <1>4, <1>6
<1>8. \A k \in DOMAIN is : Closes(is[k]) =>
        /\ k = Len(is) /\ Len(e) \in 2 .. Len(e) /\ LooksUp(is[k], e[Len(e)])
        /\ \A j \in 2 .. Len(s) : Closes(s[j]) => depth[j] < Len(e)
  BY <1>5, <1>7
<1> QED
  BY <1>1, <1>2, <1>5, <1>6, <1>8, ScopedReplaced

(* The last of the new items leaves the scope the replaced one would have. *)
LEMMA ScopedResumed ==
  ASSUME NEW s, Queue(s), s # <<>>, Closes(s[1]), NEW is, is \in Seq(Items(is)),
         \A k \in DOMAIN is : Closes(is[k]) => k = Len(is),
         \A scope : LooksUp(s[1], scope) => LooksUp(is[Len(is)], scope),
         NEW c, Scoped(s, c)
  PROVE  Scoped(is \o Tail(s), c)
<1>1. c \in Seq(Scope) /\ s \in Seq(Items(s)) /\ c # <<>>
  BY DEF Scoped, Queue
<1>2. PICK depth \in [DOMAIN s -> Nat] : Nested(s, c, depth)
  BY DEF Scoped
<1>3. DOMAIN s = 1 .. Len(s) /\ Len(s) \in Nat /\ 1 \in DOMAIN s
  BY <1>1, LenProperties, FirstAndRest
<1>4. depth[1] \in 2 .. Len(c) /\ LooksUp(s[1], c[depth[1]]) /\ depth[1] \in Nat
  BY <1>2, <1>3 DEF Nested
<1>5. \A j \in 2 .. Len(s) : Closes(s[j]) =>
        /\ depth[j] \in 2 .. Len(c) /\ LooksUp(s[j], c[depth[j]])
        /\ depth[j] < depth[1]
  BY <1>2, <1>3 DEF Nested
<1>6. \A k \in DOMAIN is : Closes(is[k]) =>
        /\ k = Len(is) /\ depth[1] \in 2 .. Len(c) /\ LooksUp(is[k], c[depth[1]])
        /\ \A j \in 2 .. Len(s) : Closes(s[j]) => depth[j] < depth[1]
  BY <1>4, <1>5
<1> QED
  BY <1>1, <1>2, <1>4, <1>5, <1>6, ScopedReplaced

(* The innermost scope is left. *)
LEMMA ScopedLeft ==
  ASSUME NEW s, Queue(s), s # <<>>, Closes(s[1]), NEW c, Scoped(s, c)
  PROVE  /\ Len(c) > 1
         /\ Scoped(<<>> \o Tail(s), WithoutInnermost(c))
<1> DEFINE e == WithoutInnermost(c)
<1>1. c \in Seq(Scope) /\ s \in Seq(Items(s)) /\ c # <<>>
  BY DEF Scoped, Queue
<1>2. PICK depth \in [DOMAIN s -> Nat] : Nested(s, c, depth)
  BY DEF Scoped
<1>3. DOMAIN s = 1 .. Len(s) /\ Len(s) \in Nat /\ 1 \in DOMAIN s /\ Len(c) \in Nat
  BY <1>1, LenProperties, FirstAndRest
<1>4. depth[1] \in 2 .. Len(c)
  BY <1>2, <1>3 DEF Nested
<1>5. Len(c) > 1
  BY <1>3, <1>4
<1>6. /\ e \in Seq(Scope) /\ Len(e) = Len(c) - 1
      /\ \A i \in 1 .. Len(c) - 1 : e[i] = c[i]
  BY <1>1, <1>5, InnermostRemoved
<1> HIDE DEF e
<1>7. e # <<>>
  BY <1>3, <1>5, <1>6, EmptySeq
<1>8. ASSUME NEW j \in 2 .. Len(s), Closes(s[j])
      PROVE  depth[j] \in 2 .. Len(e) /\ LooksUp(s[j], e[depth[j]])
  <2>1. /\ depth[j] \in 2 .. Len(c) /\ LooksUp(s[j], c[depth[j]])
        /\ depth[j] < depth[1]
    BY <1>2, <1>3, <1>8 DEF Nested
  <2>2. depth[j] \in 2 .. Len(c) - 1 /\ depth[j] \in 1 .. Len(c) - 1
    BY <1>3, <1>4, <2>1
  <2> QED
    BY <1>6, <2>1, <2>2
<1>9. << >> \in Seq(Items(<< >>)) /\ DOMAIN << >> = {}
  OBVIOUS
<1>10. Scoped(<<>> \o Tail(s), e)
  BY <1>1, <1>2, <1>6, <1>7, <1>8, <1>9, ScopedReplaced
<1> QED
  BY <1>5, <1>10 DEF e

(* Work that leaves a scope finds one, and the names it looks up. *)
LEMMA FirstFinds ==
  ASSUME NEW s, Queue(s), s # <<>>, InLoop(s[1]), NEW c, Scoped(s, c)
  PROVE  Visible(c, s[1].name) /\ Visible(c, "__end")
<1>1. c \in Seq(Scope) /\ s \in Seq(Items(s))
  BY DEF Scoped, Queue
<1>2. PICK depth \in [DOMAIN s -> Nat] : Nested(s, c, depth)
  BY DEF Scoped
<1>3. 1 \in DOMAIN s /\ Closes(s[1]) /\ DOMAIN c = 1 .. Len(c) /\ Len(c) \in Nat
  BY <1>1, FirstAndRest, LenProperties DEF InLoop, Closes
<1>4. depth[1] \in 2 .. Len(c) /\ LooksUp(s[1], c[depth[1]])
  BY <1>2, <1>3 DEF Nested
<1>5. depth[1] \in DOMAIN c
  BY <1>3, <1>4
<1> QED
  BY <1>4, <1>5, DeclaredIsVisible DEF LooksUp

-----------------------------------------------------------------------------
(* Work that waits for nothing: constructs still to be compiled, and opcodes
   still to be emitted. *)
Inert(t) ==
  /\ GoodItem(t) /\ t.do \notin {"program", "end_fn"} /\ ~Closes(t)
  /\ PlaceOf(t) = {} /\ LabelOf(t) = {}

AllInert(is) == is \in Seq(Items(is)) /\ \A k \in DOMAIN is : Inert(is[k])

\* The last item is z and the others are inert.
EndsWith(is, z) ==
  /\ is \in Seq(Items(is)) /\ Len(is) \in Nat \ {0} /\ is[Len(is)] = z
  /\ \A k \in DOMAIN is : k = Len(is) \/ Inert(is[k])

LEMMA AllInertFacts ==
  ASSUME NEW is, AllInert(is)
  PROVE  Open(is) = {} /\ Labels(is) = {}
  BY DEF AllInert, Open, Labels, Inert

LEMMA EndsWithFacts ==
  ASSUME NEW is, NEW z, EndsWith(is, z)
  PROVE  /\ Open(is) = PlaceOf(z) /\ Labels(is) = LabelOf(z)
         /\ \A k \in DOMAIN is : Closes(is[k]) => k = Len(is)
<1>1. /\ DOMAIN is = 1 .. Len(is) /\ Len(is) \in DOMAIN is /\ is[Len(is)] = z
      /\ \A k \in DOMAIN is : k = Len(is) \/ Inert(is[k])
  BY LenProperties DEF EndsWith
<1>2. \A k \in DOMAIN is : k # Len(is) => PlaceOf(is[k]) = {} /\ LabelOf(is[k]) = {} /\ ~Closes(is[k])
  BY <1>1 DEF Inert
<1>3. Open(is) = PlaceOf(z)
  BY <1>1, <1>2 DEF Open
<1>4. Labels(is) = LabelOf(z)
  BY <1>1, <1>2 DEF Labels
<1> QED
  BY <1>2, <1>3, <1>4

LEMMA Listed ==
  /\ AllInert(<<>>)
  /\ \A a : Inert(a) => AllInert(<< a >>)
  /\ \A a, b : Inert(a) /\ Inert(b) => AllInert(<< a, b >>)
  /\ \A z : EndsWith(<< z >>, z)
  /\ \A a, z : Inert(a) => EndsWith(<< a, z >>, z)
<1>1. AllInert(<<>>)
  BY DEF AllInert
<1>2. ASSUME NEW a, Inert(a) PROVE AllInert(<< a >>)
  <2> DEFINE is == << a >>
  <2>1. is \in Seq({a}) /\ DOMAIN is = {1} /\ is[1] = a
    OBVIOUS
  <2> HIDE DEF is
  <2>2. Items(is) = {a}
    BY <2>1 DEF Items
  <2>3. AllInert(is)
    BY <1>2, <2>1, <2>2 DEF AllInert
  <2> QED
    BY <2>3 DEF is
<1>3. ASSUME NEW a, NEW b, Inert(a), Inert(b) PROVE AllInert(<< a, b >>)
  <2> DEFINE is == << a, b >>
  <2>1. is \in Seq({a, b}) /\ DOMAIN is = {1, 2} /\ is[1] = a /\ is[2] = b
    OBVIOUS
  <2> HIDE DEF is
  <2>2. Items(is) = {a, b}
    BY <2>1 DEF Items
  <2>3. AllInert(is)
    BY <1>3, <2>1, <2>2 DEF AllInert
  <2> QED
    BY <2>3 DEF is
<1>4. ASSUME NEW z PROVE EndsWith(<< z >>, z)
  <2> DEFINE is == << z >>
  <2>1. is \in Seq({z}) /\ DOMAIN is = {1} /\ is[1] = z /\ Len(is) = 1
    OBVIOUS
  <2> HIDE DEF is
  <2>2. Items(is) = {z}
    BY <2>1 DEF Items
  <2>3. EndsWith(is, z)
    BY <2>1, <2>2 DEF EndsWith
  <2> QED
    BY <2>3 DEF is
<1>5. ASSUME NEW a, NEW z, Inert(a) PROVE EndsWith(<< a, z >>, z)
  <2> DEFINE is == << a, z >>
  <2>1. is \in Seq({a, z}) /\ DOMAIN is = {1, 2} /\ is[1] = a /\ is[2] = z /\ Len(is) = 2
    OBVIOUS
  <2> HIDE DEF is
  <2>2. Items(is) = {a, z}
    BY <2>1 DEF Items
  <2>3. EndsWith(is, z)
    BY <1>5, <2>1, <2>2 DEF EndsWith
  <2> QED
    BY <2>3 DEF is
<1> QED
  BY <1>1, <1>2, <1>3, <1>4, <1>5

LEMMA ListedMore ==
  /\ \A a, b, c : Inert(a) /\ Inert(b) /\ Inert(c) => AllInert(<< a, b, c >>)
  /\ \A a, b, c, d : Inert(a) /\ Inert(b) /\ Inert(c) /\ Inert(d) => AllInert(<< a, b, c, d >>)
  /\ \A a, b, c, z : Inert(a) /\ Inert(b) /\ Inert(c) => EndsWith(<< a, b, c, z >>, z)
<1>1. ASSUME NEW a, NEW b, NEW c, Inert(a), Inert(b), Inert(c) PROVE AllInert(<< a, b, c >>)
  <2> DEFINE is == << a, b, c >>
  <2>1. is \in Seq({a, b, c}) /\ DOMAIN is = {1, 2, 3} /\ is[1] = a /\ is[2] = b /\ is[3] = c
    OBVIOUS
  <2> HIDE DEF is
  <2>2. Items(is) = {a, b, c}
    BY <2>1 DEF Items
  <2>3. AllInert(is)
    BY <1>1, <2>1, <2>2 DEF AllInert
  <2> QED
    BY <2>3 DEF is
<1>2. ASSUME NEW a, NEW b, NEW c, NEW d, Inert(a), Inert(b), Inert(c)
      PROVE  /\ Inert(d) => AllInert(<< a, b, c, d >>)
             /\ EndsWith(<< a, b, c, d >>, d)
  <2> DEFINE is == << a, b, c, d >>
  <2>1. /\ is \in Seq({a, b, c, d}) /\ DOMAIN is = {1, 2, 3, 4} /\ Len(is) = 4
        /\ is[1] = a /\ is[2] = b /\ is[3] = c /\ is[4] = d
    OBVIOUS
  <2> HIDE DEF is
  <2>2. Items(is) = {a, b, c, d}
    BY <2>1 DEF Items
  <2>3. Inert(d) => AllInert(is)
    BY <1>2, <2>1, <2>2 DEF AllInert
  <2>4. EndsWith(is, d)
    BY <1>2, <2>1, <2>2 DEF EndsWith
  <2> QED
    BY <2>3, <2>4 DEF is
<1> QED
  BY <1>1, <1>2

LEMMA ListedTogether ==
  ASSUME NEW is, AllInert(is), NEW js, AllInert(js)
  PROVE  AllInert(is \o js)
<1> DEFINE A == Items(is) \union Items(js)
           t == is \o js
<1>1. /\ Len(is) \in Nat /\ Len(js) \in Nat /\ DOMAIN is = 1 .. Len(is) /\ DOMAIN js = 1 .. Len(js)
      /\ is = [k \in 1 .. Len(is) |-> is[k]] /\ js = [k \in 1 .. Len(js) |-> js[k]]
  BY LenProperties DEF AllInert
<1>2. (\A k \in 1 .. Len(is) : is[k] \in A) /\ (\A k \in 1 .. Len(js) : js[k] \in A)
  BY <1>1 DEF Items
<1>3. is \in Seq(A) /\ js \in Seq(A)
  BY <1>1, <1>2, IsASeq
<1> HIDE DEF A
<1>4. /\ t \in Seq(A) /\ Len(t) = Len(is) + Len(js)
      /\ \A k \in 1 .. Len(is) : t[k] = is[k]
      /\ \A k \in 1 .. Len(js) : t[Len(is) + k] = js[k]
  BY <1>3, ConcatProperties
<1> HIDE DEF t
<1>5. DOMAIN t = 1 .. Len(t) /\ t = [k \in 1 .. Len(t) |-> t[k]] /\ Len(t) \in Nat
  BY <1>4, LenProperties
<1>6. \A k \in 1 .. Len(t) : t[k] \in Items(t)
  BY <1>5 DEF Items
<1>7. t \in Seq(Items(t))
  BY <1>5, <1>6, IsASeq
<1>8. ASSUME NEW k \in DOMAIN t PROVE Inert(t[k])
  <2>1. k \in 1 .. Len(is) \/ (k - Len(is) \in 1 .. Len(js) /\ k = Len(is) + (k - Len(is)))
    BY <1>1, <1>4, <1>5
  <2>2. CASE k \in 1 .. Len(is)
    BY <1>1, <1>4, <2>2 DEF AllInert
  <2>3. CASE k - Len(is) \in 1 .. Len(js) /\ k = Len(is) + (k - Len(is))
    BY <1>1, <1>4, <2>3 DEF AllInert
  <2> QED
    BY <2>1, <2>2, <2>3
<1>9. AllInert(t)
  BY <1>7, <1>8 DEF AllInert
<1> QED
  BY <1>9 DEF t

LEMMA InertItems ==
  /\ Inert(Expr) /\ Inert([Expr EXCEPT !.root = TRUE]) /\ Inert(Stmt) /\ Inert(Body)
  /\ Inert([do |-> "true_expr"])
  /\ \A n \in UserNames : Inert([do |-> "assign", name |-> n])
  /\ \A i : Plain(i) => Inert(Emit(i))
  BY DEF Inert, GoodItem, InLoop, Closes, PlaceOf, LabelOf, Expr, Stmt, Body, Emit

-----------------------------------------------------------------------------
(* One step of the compiler: the first item is replaced by others. *)
LEMMA QueueReplaced ==
  ASSUME NEW s, Queue(s), s # <<>>, s[1].do \notin {"program", "end_fn"},
         NEW is, is \in Seq(Items(is)),
         \A k \in DOMAIN is : GoodItem(is[k]) /\ is[k].do \notin {"program", "end_fn"}
  PROVE  /\ Queue(is \o Tail(s))
         /\ InBody(is \o Tail(s)) <=> InBody(s)
<1> DEFINE t == is \o Tail(s)
           m == Len(is)
<1>1. s \in Seq(Items(s))
  BY DEF Queue
<1>2. /\ t \in Seq(Items(t)) /\ m \in Nat /\ Len(s) \in Nat /\ Len(s) > 0
      /\ Len(t) = m + Len(s) - 1
      /\ DOMAIN t = 1 .. m + Len(s) - 1 /\ DOMAIN is = 1 .. m /\ DOMAIN s = 1 .. Len(s)
      /\ \A k \in 1 .. m : t[k] = is[k]
      /\ \A k \in 2 .. Len(s) : t[m + k - 1] = s[k]
      /\ \A k \in DOMAIN t : k \in 1 .. m \/ (k > m /\ k - m + 1 \in 2 .. Len(s))
      /\ \A k \in DOMAIN t : k > m => t[k] = s[k - m + 1]
  BY <1>1, Replaced
<1> HIDE DEF t, m
<1>3. \A k \in DOMAIN s : /\ GoodItem(s[k])
                          /\ s[k].do = "program" <=> k = Len(s)
                          /\ s[k].do = "end_fn" => k = Len(s) - 1
  BY DEF Queue
<1>4. Len(s) # 1
  BY <1>2, <1>3, SMTT(30)
<1>5. ASSUME NEW k \in DOMAIN t
      PROVE  /\ GoodItem(t[k])
             /\ t[k].do = "program" <=> k = Len(t)
             /\ t[k].do = "end_fn" => k = Len(t) - 1
  <2>1. CASE k \in 1 .. m
    <3>1. t[k] = is[k] /\ k \in DOMAIN is /\ k # Len(t)
      BY <1>2, <1>4, <2>1
    <3> QED
      BY <3>1
  <2>2. CASE k > m
    <3> DEFINE i == k - m + 1
    <3>1. i \in DOMAIN s /\ t[k] = s[i] /\ (i = Len(s) <=> k = Len(t)) /\ (i = Len(s) - 1 <=> k = Len(t) - 1)
      BY <1>2, <2>2, SMTT(30)
    <3> HIDE DEF i
    <3> QED
      BY <1>3, <3>1
  <2> QED
    BY <1>2, <2>1, <2>2
<1>6. Queue(t)
  BY <1>2, <1>5 DEF Queue
<1>7. InBody(t) => InBody(s)
  <2> SUFFICES ASSUME NEW k \in DOMAIN t, t[k].do = "end_fn" PROVE InBody(s)
    BY DEF InBody
  <2>1. k > m /\ k - m + 1 \in DOMAIN s /\ t[k] = s[k - m + 1]
    BY <1>2
  <2> QED
    BY <2>1 DEF InBody
<1>8. InBody(s) => InBody(t)
  <2> SUFFICES ASSUME NEW k \in DOMAIN s, s[k].do = "end_fn" PROVE InBody(t)
    BY DEF InBody
  <2>1. k # 1
    OBVIOUS
  <2>2. k \in 2 .. Len(s) /\ m + k - 1 \in DOMAIN t
    BY <1>2, <2>1
  <2>3. t[m + k - 1] = s[k]
    BY <1>2, <2>2
  <2> QED
    BY <2>2, <2>3 DEF InBody
<1> QED
  BY <1>6, <1>7, <1>8 DEF t

\* The code goes on in the stream it was in.
GoesOn(b, d) ==
  /\ OpsIn(d, Ops) /\ DOMAIN b.chunks \subseteq DOMAIN d.chunks
  /\ Current(d).stream = Current(b).stream

LEMMA GoesOnReflexive ==
  ASSUME NEW b, OpsIn(b, Ops)
  PROVE  GoesOn(b, b)
  BY DEF GoesOn

LEMMA GoesOnTransitive ==
  ASSUME NEW b, NEW d, NEW e, GoesOn(b, d), GoesOn(d, e)
  PROVE  GoesOn(b, e)
  BY DEF GoesOn

LEMMA Advance ==
  ASSUME NEW c, NEW b, NEW f, NEW s, Compiling(c, b, f, s), s # <<>>,
         s[1].do \notin {"program", "end_fn"},
         NEW is, is \in Seq(Items(is)),
         \A k \in DOMAIN is : GoodItem(is[k]) /\ is[k].do \notin {"program", "end_fn"},
         NEW e, Scoped(is \o Tail(s), e), NEW d, GoesOn(b, d),
         Sound(d, Open(is) \union Open(Tail(s)), Labels(is) \union Labels(Tail(s)))
  PROVE  Compiling(e, d, f, is \o Tail(s))
<1> DEFINE t == is \o Tail(s)
<1>1. s \in Seq(Items(s)) /\ Queue(s)
  BY DEF Compiling, Queue
<1>2. Queue(t) /\ (InBody(t) <=> InBody(s))
  BY <1>1, QueueReplaced
<1>3. Sound(d, Open(t), Labels(t))
  BY <1>1, OpenReplaced
<1>4. InBody(t) <=> InFunction(d)
  BY <1>2, SameStream DEF Compiling, GoesOn
<1>5. Registered(f, d) /\ OpsIn(d, Ops)
  BY DEF Compiling, Registered, GoesOn
<1> QED
  BY <1>2, <1>3, <1>4, <1>5 DEF Compiling

(* The new items wait for nothing, and so did the first. *)
LEMMA AdvanceInert ==
  ASSUME NEW c, NEW b, NEW f, NEW s, Compiling(c, b, f, s), s # <<>>,
         s[1].do \notin {"program", "end_fn"}, ~Closes(s[1]), PlaceOf(s[1]) = {},
         NEW is, AllInert(is),
         NEW e \in Seq(Scope), e # <<>>, Grows(c, e),
         NEW d, GoesOn(b, d), Sound(d, Open(s), Labels(s))
  PROVE  Compiling(e, d, f, is \o Tail(s))
<1>1. s \in Seq(Items(s)) /\ Queue(s) /\ Scoped(s, c)
  BY DEF Compiling, Queue
<1>2. is \in Seq(Items(is)) /\ Open(is) = {} /\ Labels(is) = {}
  BY AllInertFacts DEF AllInert
<1>3. LabelOf(s[1]) = {}
  BY DEF LabelOf, Closes
<1>4. Open(s) = Open(Tail(s)) /\ Labels(s) = Labels(Tail(s))
  BY <1>1, <1>3, FirstAndRest
<1>5. Scoped(is \o Tail(s), e)
  BY <1>1, <1>2, ScopedGrows DEF AllInert, Inert
<1>6. \A k \in DOMAIN is : GoodItem(is[k]) /\ is[k].do \notin {"program", "end_fn"}
  BY DEF AllInert, Inert
<1>7. Sound(d, Open(is) \union Open(Tail(s)), Labels(is) \union Labels(Tail(s)))
  BY <1>2, <1>4
<1> QED
  BY <1>2, <1>5, <1>6, <1>7, Advance

-----------------------------------------------------------------------------
\* May be emitted next: anything but a link or a jump that leads nowhere.
Emittable(b, i) ==
  /\ i \in Instruction /\ i.op \in Ops /\ i.op # "OP_JMP_ADR"
  /\ i.op \in JumpOps => Lands(b, Current(b).stream, i.x + 1, i.y)

LEMMA PlainEmittable ==
  ASSUME NEW i, Plain(i), NEW b
  PROVE  Emittable(b, i)
  BY DEF Plain, Emittable

LEMMA LinkOps == "OP_JMP_ADR" \in Ops
  BY DEF Ops

LEMMA EmittedGoesOn ==
  ASSUME NEW b, NEW P, NEW L, Sound(b, P, L), OpsIn(b, Ops), NEW i, Emittable(b, i), NEW g \in Nat
  PROVE  LET d == Emitted(b, i, g) IN
         Sound(d, P, L) /\ Extends(b, d) /\ GoesOn(b, d)
<1> DEFINE d == Emitted(b, i, g)
<1>1. Sound(d, P, L) /\ Extends(b, d) /\ Current(d).stream = Current(b).stream
  BY EmittedSound DEF Emittable
<1>2. OpsIn(d, Ops)
  BY EmittedOps, LinkOps DEF Emittable, Sound
<1> HIDE DEF d
<1> QED
  BY <1>1, <1>2 DEF GoesOn, Extends, d

LEMMA EmittedAllGoesOn ==
  ASSUME NEW b, NEW P, NEW L, Sound(b, P, L), OpsIn(b, Ops),
         NEW is, Len(is) \in Nat, \A k \in 1 .. Len(is) : Emittable(b, is[k]), NEW g \in Nat
  PROVE  LET d == EmittedAll(b, is, g) IN
         Sound(d, P, L) /\ Extends(b, d) /\ GoesOn(b, d)
<1>1. PICK h : /\ h[0] = b
               /\ \A k \in 1 .. Len(is) : h[k] = Emitted(h[k - 1], is[k], g)
               /\ EmittedAll(b, is, g) = h[Len(is)]
  <2>1. EmittedOneByOne(b, is, g)
    BY EmittedAllSteps
  <2> QED
    BY <2>1 DEF EmittedOneByOne
<1> DEFINE Fine(d) == Sound(d, P, L) /\ Extends(b, d) /\ GoesOn(b, d)
           S == {n \in Nat : n <= Len(is) => Fine(h[n])}
<1>2. 0 \in S
  BY <1>1, ExtendsReflexive, GoesOnReflexive
<1>3. ASSUME NEW n \in S PROVE n + 1 \in S
  <2>1. n \in Nat /\ n + 1 \in Nat
    OBVIOUS
  <2> SUFFICES ASSUME n + 1 <= Len(is) PROVE Fine(h[n + 1])
    BY <2>1
  <2>2. n <= Len(is) /\ n + 1 \in 1 .. Len(is) /\ (n + 1) - 1 = n
    BY <2>1
  <2>3. Sound(h[n], P, L) /\ Extends(b, h[n]) /\ GoesOn(b, h[n])
    BY <2>2
  <2>4. h[n + 1] = Emitted(h[n], is[n + 1], g)
    BY <1>1, <2>2
  <2>5. Emittable(h[n], is[n + 1])
    <3>1. Emittable(b, is[n + 1])
      BY <2>2
    <3> QED
      BY <2>3, <3>1, ExtendsLands DEF Emittable, GoesOn
  <2>6. OpsIn(h[n], Ops)
    BY <2>3 DEF GoesOn
  <2>7. Sound(h[n + 1], P, L) /\ Extends(h[n], h[n + 1]) /\ GoesOn(h[n], h[n + 1])
    BY <2>3, <2>4, <2>5, <2>6, EmittedGoesOn
  <2> QED
    BY <2>3, <2>7, ExtendsTransitive, GoesOnTransitive
<1>4. Len(is) \in S
  <2> HIDE DEF S
  <2>1. S \in SUBSET Nat
    BY DEF S
  <2> QED
    BY <1>2, <1>3, <2>1, SetInduction
<1> QED
  BY <1>1, <1>4

-----------------------------------------------------------------------------
(* The instructions the handlers emit. *)
LEMMA PlainOps ==
  /\ Opcodes \subseteq Ops \ (JumpOps \union {"OP_JMP_ADR"})
  /\ "minus" \in Constructs => "int64" \in Ops \ (JumpOps \union {"OP_JMP_ADR"})
  /\ Ops \subseteq STRING
<1>1. \A op \in Opcodes : op \notin JumpOps \union {"OP_JMP_ADR"}
  BY OpcodesAssumption DEF Opcodes, JumpOps
<1>2. "int64" \notin JumpOps \union {"OP_JMP_ADR"}
  BY DEF JumpOps
<1>3. Ops \subseteq STRING
  BY OpcodesAssumption, StringsAssumption DEF Ops
<1> QED
  BY <1>1, <1>2, <1>3 DEF Ops

LEMMA EncodedPlain ==
  ASSUME NEW op \in Ops, op \notin JumpOps \union {"OP_JMP_ADR"},
         NEW size \in 1 .. 9, NEW x \in Nat, NEW n \in STRING
  PROVE  Plain(Encoded(op, size, x, n))
<1>1. 9 <= MaxLength /\ MaxLength \in Nat
  BY OpcodesAssumption, SizesAssumption, Zenon
<1>2. size \in 1 .. MaxLength
  BY <1>1
<1>3. op \in STRING
  BY PlainOps
<1> QED
  BY <1>2, <1>3 DEF Plain, Encoded, Instruction

LEMMA InstructionsPlain ==
  /\ \A op \in Opcodes :
       /\ Plain(Opcode(op))
       /\ \A x \in Nat : /\ Plain(WithByte(op, x)) /\ Plain(WithWord(op, x))
                         /\ \A n \in Names \union {""} : Plain(WithRegister(op, x, n))
  /\ "minus" \in Constructs => Plain(Encoded("int64", 8, 0, ""))
  /\ \A f \in Functions \union {"print"} : Plain(Call(f))
<1>1. \A n \in Names \union {""} : n \in STRING
  BY OpcodesAssumption, StringsAssumption
<1>2. "" \in STRING
  BY StringsAssumption
<1>3. \A op \in Opcodes : op \in Ops /\ op \notin JumpOps \union {"OP_JMP_ADR"}
  BY PlainOps
<1>4. 0 \in Nat /\ 1 \in 1 .. 9 /\ 2 \in 1 .. 9 /\ 3 \in 1 .. 9 /\ 8 \in 1 .. 9 /\ 9 \in 1 .. 9
  OBVIOUS
<1>5. ASSUME NEW op \in Opcodes
      PROVE  /\ Plain(Encoded(op, 1, 0, ""))
             /\ \A x \in Nat :
                  /\ Plain(Encoded(op, 2, x, "")) /\ Plain(Encoded(op, 9, x, ""))
                  /\ \A n \in Names \union {""} : Plain(Encoded(op, 3, x, n))
  <2>1. op \in Ops /\ op \notin JumpOps \union {"OP_JMP_ADR"}
    BY <1>3
  <2> QED
    BY <2>1, <1>1, <1>2, <1>4, EncodedPlain
<1>6. ASSUME "minus" \in Constructs PROVE Plain(Encoded("int64", 8, 0, ""))
  BY <1>2, <1>4, <1>6, PlainOps, EncodedPlain
<1>7. ASSUME NEW f \in Functions \union {"print"} PROVE Plain(Call(f))
  <2>1. f \in STRING
    BY GrammarAssumption, NamesAssumption, OpcodesAssumption
  <2>2. "OP_CALL" \in Ops /\ "OP_CALL" \in STRING /\ "OP_CALL" \notin JumpOps \union {"OP_JMP_ADR"}
    BY PlainOps, OpcodesAssumption DEF Opcodes
  <2>3. Call(f).len \in 1 .. MaxLength
    BY OpcodesAssumption
  <2> QED
    BY <2>1, <2>2, <2>3 DEF Call, Encoded, Plain, Instruction
<1> QED
  BY <1>5, <1>6, <1>7 DEF Opcode, WithByte, WithWord, WithRegister

LEMMA KnownOpcodes ==
  /\ BinaryOps \subseteq Opcodes
  /\ {"OP_LOAD_CONST_INT", "OP_LOAD_CONST_FLOAT", "OP_LOAD_BOOL", "OP_LOAD_STRING",
      "OP_LOAD_VAR", "OP_STORE_VAR", "OP_INC_REG", "OP_LESS_THAN", "OP_SUB", "OP_NOT",
      "OP_CALL", "OP_RETURN", "OP_POP", "OP_SAVE_SP", "OP_RESET_SP", "OP_HALT"}
       \subseteq Opcodes
  BY DEF Opcodes

-----------------------------------------------------------------------------
(* What a handler finds when it is called or resumed. *)
LEMMA DoingFacts ==
  ASSUME CInv, NEW k, Doing(k)
  PROVE  /\ outcome = "compiling" /\ todo # <<>> /\ todo[1] = Head(todo) /\ todo[1].do = k
         /\ 1 \in DOMAIN todo /\ GoodItem(todo[1])
         /\ Compiling(symbols, buffer, functions, todo)
         /\ Queue(todo) /\ Scoped(todo, symbols) /\ symbols \in Seq(Scope) /\ symbols # <<>>
         /\ Sound(buffer, Open(todo), Labels(todo)) /\ OpsIn(buffer, Ops)
         /\ Registered(functions, buffer)
         /\ Grows(symbols, symbols) /\ GoesOn(buffer, buffer)
<1>1. outcome = "compiling" /\ todo # <<>> /\ Head(todo).do = k
  BY DEF Doing
<1>2. Compiling(symbols, buffer, functions, todo)
  BY <1>1 DEF CInv
<1>3. /\ Queue(todo) /\ Scoped(todo, symbols) /\ symbols \in Seq(Scope) /\ symbols # <<>>
      /\ Sound(buffer, Open(todo), Labels(todo)) /\ OpsIn(buffer, Ops)
      /\ Registered(functions, buffer)
  BY <1>2 DEF Compiling, Scoped
<1>4. todo \in Seq(Items(todo))
  BY <1>3 DEF Queue
<1>5. Head(todo) = todo[1] /\ 1 \in DOMAIN todo
  BY <1>1, <1>4, FirstAndRest
<1>6. GoodItem(todo[1])
  BY <1>3, <1>5 DEF Queue
<1> QED
  BY <1>1, <1>2, <1>3, <1>5, <1>6, GrowsReflexive, GoesOnReflexive

LEMMA ProducedGoesOn ==
  ASSUME NEW b, NEW P, NEW L, Sound(b, P, L), OpsIn(b, Ops), NEW g \in UninitLink,
         NEW is, Len(is) \in Nat, \A k \in 1 .. Len(is) : Plain(is[k])
  PROVE  LET d == EmittedAll(b, is, g) IN
         Sound(d, P, L) /\ Extends(b, d) /\ GoesOn(b, d)
<1>1. g \in Nat
  BY SizesAssumption
<1>2. \A k \in 1 .. Len(is) : Emittable(b, is[k])
  BY PlainEmittable
<1> QED
  BY <1>1, <1>2, EmittedAllGoesOn

LEMMA Produced ==
  ASSUME CInv, NEW k, Doing(k), NEW is, Len(is) \in Nat,
         \A j \in 1 .. Len(is) : Plain(is[j]), Produce(is)
  PROVE  GoesOn(buffer, buffer') /\ Sound(buffer', Open(todo), Labels(todo))
<1>1. PICK g \in UninitLink : buffer' = EmittedAll(buffer, is, g)
  BY DEF Produce
<1>2. Sound(buffer, Open(todo), Labels(todo)) /\ OpsIn(buffer, Ops)
  BY DoingFacts
<1> QED
  BY <1>1, <1>2, ProducedGoesOn

\* The handlers that leave no scope and wait for no jump's target.
Simple == {"expression", "statement", "statements", "true_expr", "assign", "emit"}

LEMMA SimpleStep ==
  ASSUME CInv, NEW k \in Simple, Doing(k), NEW is, AllInert(is),
         todo' = is \o Tail(todo), outcome' = outcome, functions' = functions,
         symbols' \in Seq(Scope), symbols' # <<>>, Grows(symbols, symbols'),
         GoesOn(buffer, buffer'), Sound(buffer', Open(todo), Labels(todo))
  PROVE  CInv'
<1>1. /\ outcome = "compiling" /\ todo # <<>> /\ todo[1].do = k
      /\ Compiling(symbols, buffer, functions, todo)
  BY DoingFacts
<1>2. /\ todo[1].do \notin {"program", "end_fn"} /\ ~Closes(todo[1])
      /\ PlaceOf(todo[1]) = {}
  BY <1>1 DEF Simple, Closes, PlaceOf
<1>3. Compiling(symbols', buffer', functions, is \o Tail(todo))
  BY <1>1, <1>2, AdvanceInert
<1> QED
  BY <1>1, <1>3 DEF CInv

(* ... when neither the scopes nor the code change. *)
LEMMA SilentStep ==
  ASSUME CInv, NEW k \in Simple, Doing(k), NEW is, AllInert(is),
         todo' = is \o Tail(todo), UNCHANGED <<outcome, functions, symbols, buffer>>
  PROVE  CInv'
  BY DoingFacts, SimpleStep

(* ... when instructions are emitted. *)
LEMMA ProducingStep ==
  ASSUME CInv, NEW k \in Simple, Doing(k), NEW is, AllInert(is),
         todo' = is \o Tail(todo), UNCHANGED <<outcome, functions, symbols>>,
         NEW js, Len(js) \in Nat, \A j \in 1 .. Len(js) : Plain(js[j]), Produce(js)
  PROVE  CInv'
  BY DoingFacts, Produced, SimpleStep

(* The value of an expression statement is popped. *)
LEMMA PoppedInert ==
  ASSUME NEW node, NEW is, AllInert(is), ChosenPop(node, is)
  PROVE  \E js : AllInert(js) /\ todo' = js \o Tail(todo)
<1> DEFINE pop == IF Head(todo).root THEN << Emit(Opcode("OP_POP")) >> ELSE <<>>
<1>1. todo' = (is \o pop) \o Tail(todo)
  BY DEF ChosenPop, Chosen, Do
<1>2. Inert(Emit(Opcode("OP_POP")))
  BY InertItems, InstructionsPlain, KnownOpcodes
<1>3. AllInert(pop)
  BY <1>2, Listed
<1> HIDE DEF pop
<1>4. AllInert(is \o pop)
  BY <1>3, ListedTogether
<1> QED
  BY <1>1, <1>4

LEMMA ArgumentsInert ==
  ASSUME NEW a \in Nat
  PROVE  AllInert([i \in 1 .. a |-> Expr])
<1> DEFINE is == [i \in 1 .. a |-> Expr]
<1>1. DOMAIN is = 1 .. a /\ \A i \in 1 .. a : is[i] = Expr
  OBVIOUS
<1>2. \A i \in 1 .. a : Expr \in Items(is)
  BY <1>1 DEF Items
<1>3. is \in Seq(Items(is))
  BY <1>2, IsASeq
<1> HIDE DEF is
<1>4. AllInert(is)
  BY <1>1, <1>3, InertItems DEF AllInert
<1> QED
  BY <1>4 DEF is

-----------------------------------------------------------------------------
(* The handlers of expressions. *)
LEMMA LiteralStep ==
  ASSUME CInv, compile_literal
  PROVE  CInv'
<1>1. Doing("expression") /\ UNCHANGED <<symbols, functions, outcome>> /\ "expression" \in Simple
  BY DEF compile_literal, Simple
<1>2. PICK kind, n, i : Literal(kind, n, i) /\ Plain(i)
  <2>1. CASE \E n \in Ints : Literal("integer", n, WithWord("OP_LOAD_CONST_INT", n))
    BY <2>1, InstructionsPlain, KnownOpcodes, GrammarAssumption
  <2>2. CASE \E b \in {0, 1} : Literal("bool", b, WithByte("OP_LOAD_BOOL", b))
    BY <2>2, InstructionsPlain, KnownOpcodes
  <2>3. CASE Literal("float", 0, WithWord("OP_LOAD_CONST_FLOAT", 0))
    BY <2>3, InstructionsPlain, KnownOpcodes
  <2>4. CASE Literal("string", 0, WithWord("OP_LOAD_STRING", 0))
    BY <2>4, InstructionsPlain, KnownOpcodes
  <2> QED
    BY <2>1, <2>2, <2>3, <2>4 DEF compile_literal
<1>3. Produce(<< i >>) /\ ChosenPop(Leaf(kind, n), <<>>)
  BY <1>2 DEF Literal
<1>4. PICK js : AllInert(js) /\ todo' = js \o Tail(todo)
  BY <1>3, Listed, PoppedInert
<1> DEFINE l == << i >>
<1>5. Len(l) \in Nat /\ \A j \in 1 .. Len(l) : Plain(l[j])
  BY <1>2
<1>6. Produce(l)
  BY <1>3
<1> HIDE DEF l
<1> QED
  BY <1>1, <1>4, <1>5, <1>6, ProducingStep

LEMMA SymbolStep ==
  ASSUME CInv, NEW n \in Variables, compile_symbol(n)
  PROVE  CInv'
<1> DEFINE i == WithRegister("OP_LOAD_VAR", lookup_symbol(symbols, n).index, n)
           l == << i >>
<1>1. /\ Doing("expression") /\ UNCHANGED <<symbols, functions, outcome>>
      /\ "expression" \in Simple
      /\ IsVariable(n) /\ Produce(l) /\ ChosenPop(Node("symbol", n, 0), <<>>)
  BY DEF compile_symbol, Simple
<1>2. symbols \in Seq(Scope)
  BY <1>1, DoingFacts
<1>3. lookup_symbol(symbols, n).index \in Nat /\ n \in Names
  BY <1>1, <1>2, LookupFacts, GrammarAssumption, NamesAssumption DEF IsVariable
<1>4. Plain(i)
  BY <1>3, InstructionsPlain, KnownOpcodes
<1>5. PICK js : AllInert(js) /\ todo' = js \o Tail(todo)
  BY <1>1, Listed, PoppedInert
<1> HIDE DEF i
<1>6. Len(l) \in Nat /\ \A j \in 1 .. Len(l) : Plain(l[j])
  BY <1>4
<1> HIDE DEF l
<1> QED
  BY <1>1, <1>5, <1>6, ProducingStep

LEMMA BinaryStep ==
  ASSUME CInv, NEW op \in BinaryOps, compile_binary_op(op)
  PROVE  CInv'
<1>1. /\ Doing("expression") /\ UNCHANGED <<symbols, buffer, functions, outcome>>
      /\ "expression" \in Simple
      /\ ChosenPop(Node("binary", op, 2), << Expr, Expr, Emit(Opcode(op)) >>)
  BY DEF compile_binary_op, Simple
<1>2. AllInert(<< Expr, Expr, Emit(Opcode(op)) >>)
  BY InertItems, InstructionsPlain, KnownOpcodes, ListedMore
<1>3. PICK js : AllInert(js) /\ todo' = js \o Tail(todo)
  BY <1>1, <1>2, PoppedInert
<1> QED
  BY <1>1, <1>3, SilentStep

LEMMA UnaryStep ==
  ASSUME CInv, compile_unary_op
  PROVE  CInv'
<1>1. /\ Doing("expression") /\ UNCHANGED <<symbols, buffer, functions, outcome>>
      /\ "expression" \in Simple
  BY DEF compile_unary_op, Simple
<1>2. PICK node, is : AllInert(is) /\ ChosenPop(node, is)
  <2>1. CASE ChosenPop(Node("not", "", 1), << Expr, Emit(Opcode("OP_NOT")) >>)
    <3>1. AllInert(<< Expr, Emit(Opcode("OP_NOT")) >>)
      BY InertItems, InstructionsPlain, KnownOpcodes, Listed
    <3> QED
      BY <2>1, <3>1
  <2>2. CASE /\ May("minus")
             /\ ChosenPop(Node("minus", "", 1),
                  << Expr, Emit(Encoded("int64", 8, 0, "")),
                     Emit(Opcode("OP_LOAD_CONST_INT")), Emit(Opcode("OP_SUB")) >>)
    <3>1. Plain(Encoded("int64", 8, 0, ""))
      BY <2>2, InstructionsPlain DEF May
    <3>2. Plain(Opcode("OP_LOAD_CONST_INT")) /\ Plain(Opcode("OP_SUB"))
      BY InstructionsPlain, KnownOpcodes
    <3>3. AllInert(<< Expr, Emit(Encoded("int64", 8, 0, "")),
                      Emit(Opcode("OP_LOAD_CONST_INT")), Emit(Opcode("OP_SUB")) >>)
      BY <3>1, <3>2, InertItems, ListedMore
    <3> QED
      BY <2>2, <3>3
  <2> QED
    BY <2>1, <2>2 DEF compile_unary_op
<1>3. PICK js : AllInert(js) /\ todo' = js \o Tail(todo)
  BY <1>2, PoppedInert
<1> QED
  BY <1>1, <1>3, SilentStep

LEMMA TernaryStep ==
  ASSUME CInv, compile_ternary_op
  PROVE  CInv'
<1>1. /\ Doing("expression") /\ UNCHANGED <<symbols, buffer, functions, outcome>>
      /\ "expression" \in Simple
      /\ ChosenPop(Node("ternary", "", 3), << Expr, [do |-> "true_expr"] >>)
  BY DEF compile_ternary_op, Simple
<1>2. AllInert(<< Expr, [do |-> "true_expr"] >>)
  BY InertItems, Listed
<1>3. PICK js : AllInert(js) /\ todo' = js \o Tail(todo)
  BY <1>1, <1>2, PoppedInert
<1> QED
  BY <1>1, <1>3, SilentStep

LEMMA CallStep ==
  ASSUME CInv, NEW f \in Functions \union {"print"}, compile_call(f)
  PROVE  CInv'
<1> DEFINE a == lookup_symbol(symbols, f).arity
<1>1. /\ Doing("expression") /\ UNCHANGED <<symbols, buffer, functions, outcome>>
      /\ "expression" \in Simple /\ Visible(symbols, f)
      /\ ChosenPop(Node("call", f, a), [i \in 1 .. a |-> Expr] \o << Emit(Call(f)) >>)
  BY DEF compile_call, Simple
<1>2. symbols \in Seq(Scope)
  BY <1>1, DoingFacts
<1>3. a \in Nat
  BY <1>1, <1>2, LookupFacts
<1> HIDE DEF a
<1>4. AllInert([i \in 1 .. a |-> Expr])
  BY <1>3, ArgumentsInert
<1>5. AllInert(<< Emit(Call(f)) >>)
  BY InertItems, InstructionsPlain, Listed
<1>6. AllInert([i \in 1 .. a |-> Expr] \o << Emit(Call(f)) >>)
  BY <1>4, <1>5, ListedTogether
<1>7. PICK js : AllInert(js) /\ todo' = js \o Tail(todo)
  BY <1>1, <1>6, PoppedInert
<1> QED
  BY <1>1, <1>7, SilentStep

LEMMA AssignStep ==
  ASSUME CInv, NEW n \in UserNames, compile_assign(n)
  PROVE  CInv'
<1>1. /\ Doing("expression") /\ UNCHANGED <<symbols, buffer, functions, outcome>>
      /\ "expression" \in Simple
      /\ todo' = << Expr, [do |-> "assign", name |-> n] >> \o Tail(todo)
  BY DEF compile_assign, Chosen, Do, Simple
<1>2. AllInert(<< Expr, [do |-> "assign", name |-> n] >>)
  BY InertItems, Listed
<1> QED
  BY <1>1, <1>2, SilentStep

LEMMA AssignOtherStep ==
  ASSUME CInv, compile_assign_other
  PROVE  CInv'
<1>1. /\ Doing("expression") /\ UNCHANGED <<symbols, buffer, functions, outcome>>
      /\ "expression" \in Simple /\ todo' = << Expr >> \o Tail(todo)
  BY DEF compile_assign_other, Chosen, Do, Simple
<1>2. AllInert(<< Expr >>)
  BY InertItems, Listed
<1> QED
  BY <1>1, <1>2, SilentStep

LEMMA AssignStoreStep ==
  ASSUME CInv, compile_assign_store
  PROVE  CInv'
<1> DEFINE n == Head(todo).name
           i == WithRegister("OP_STORE_VAR", lookup_symbol(symbols, n).index, n)
           l == << i >>
<1>1. /\ Doing("assign") /\ UNCHANGED <<symbols, functions, outcome>> /\ "assign" \in Simple
      /\ todo' = <<>> \o Tail(todo)
  BY DEF compile_assign_store, Then, Do, Simple
<1>2. CASE Visible(symbols, n)
  <2>1. symbols \in Seq(Scope) /\ todo[1].do = "assign" /\ todo[1] = Head(todo) /\ GoodItem(todo[1])
    BY <1>1, DoingFacts
  <2>2. lookup_symbol(symbols, n).index \in Nat /\ n \in Names
    BY <1>2, <2>1, LookupFacts, NamesAssumption DEF GoodItem
  <2>3. Produce(l)
    BY <1>2 DEF compile_assign_store
  <2>4. Plain(i)
    BY <2>2, InstructionsPlain, KnownOpcodes
  <2> HIDE DEF i
  <2>5. Len(l) \in Nat /\ \A j \in 1 .. Len(l) : Plain(l[j])
    BY <2>4
  <2> HIDE DEF l
  <2> QED
    BY <1>1, <2>3, <2>5, Listed, ProducingStep
<1>3. CASE ~Visible(symbols, n)
  <2>1. UNCHANGED buffer
    BY <1>3 DEF compile_assign_store
  <2> QED
    BY <1>1, <2>1, Listed, SilentStep
<1> QED
  BY <1>2, <1>3

LEMMA EmitStep ==
  ASSUME CInv, emit
  PROVE  CInv'
<1> DEFINE l == << Head(todo).instruction >>
<1>1. /\ Doing("emit") /\ UNCHANGED <<symbols, functions, outcome>> /\ "emit" \in Simple
      /\ todo' = <<>> \o Tail(todo) /\ Produce(l)
  BY DEF emit, Then, Do, Simple
<1>2. Plain(Head(todo).instruction)
  BY <1>1, DoingFacts DEF GoodItem
<1>3. Len(l) \in Nat /\ \A j \in 1 .. Len(l) : Plain(l[j])
  BY <1>2
<1> HIDE DEF l
<1> QED
  BY <1>1, <1>3, Listed, ProducingStep

-----------------------------------------------------------------------------
(* The handlers of statements that wait for no jump's target. *)
LEMMA ExpressionStatementStep ==
  ASSUME CInv, compile_expression_statement
  PROVE  CInv'
<1>1. /\ Doing("statement") /\ UNCHANGED <<symbols, buffer, functions, outcome>>
      /\ "statement" \in Simple /\ todo' = << [Expr EXCEPT !.root = TRUE] >> \o Tail(todo)
  BY DEF compile_expression_statement, Chosen, Do, Simple
<1>2. AllInert(<< [Expr EXCEPT !.root = TRUE] >>)
  BY InertItems, Listed
<1> QED
  BY <1>1, <1>2, SilentStep

LEMMA BlockStep ==
  ASSUME CInv, compile_block
  PROVE  CInv'
<1>1. /\ Doing("statement") /\ UNCHANGED <<symbols, buffer, functions, outcome>>
      /\ "statement" \in Simple /\ todo' = << Body >> \o Tail(todo)
  BY DEF compile_block, Chosen, Do, Simple
<1>2. AllInert(<< Body >>)
  BY InertItems, Listed
<1> QED
  BY <1>1, <1>2, SilentStep

(* One more statement of a block, or its end. *)
LEMMA NextStatementStep ==
  ASSUME CInv, Doing("statements"), compile_next_statement
  PROVE  CInv'
<1>1. /\ UNCHANGED <<symbols, buffer, functions, outcome>> /\ "statements" \in Simple
      /\ ~Doing("program")
  BY DEF compile_next_statement, Simple, Doing
<1>2. \/ todo' = << Stmt, Body >> \o Tail(todo)
      \/ todo' = <<>> \o Tail(todo)
  BY <1>1 DEF compile_next_statement, Chosen, Do
<1>3. AllInert(<< Stmt, Body >>) /\ AllInert(<<>>)
  BY InertItems, Listed
<1> QED
  BY <1>1, <1>2, <1>3, SilentStep

LEMMA ReturnStep ==
  ASSUME CInv, compile_return
  PROVE  CInv'
<1> DEFINE l == << WithWord("OP_LOAD_CONST_INT", 0), Opcode("OP_RETURN") >>
<1>1. /\ Doing("statement") /\ UNCHANGED <<symbols, functions, outcome>>
      /\ "statement" \in Simple
      /\ \/ todo' = << Expr, Emit(Opcode("OP_RETURN")) >> \o Tail(todo) /\ UNCHANGED buffer
         \/ todo' = <<>> \o Tail(todo) /\ Produce(l)
  BY DEF compile_return, Chosen, Do, Simple
<1>2. Plain(WithWord("OP_LOAD_CONST_INT", 0)) /\ Plain(Opcode("OP_RETURN"))
  BY InstructionsPlain, KnownOpcodes
<1>3. AllInert(<< Expr, Emit(Opcode("OP_RETURN")) >>) /\ AllInert(<<>>)
  BY <1>2, InertItems, Listed
<1>4. Len(l) \in Nat /\ \A j \in 1 .. Len(l) : Plain(l[j])
  BY <1>2
<1> HIDE DEF l
<1>5. CASE todo' = << Expr, Emit(Opcode("OP_RETURN")) >> \o Tail(todo) /\ UNCHANGED buffer
  BY <1>1, <1>3, <1>5, SilentStep
<1>6. CASE todo' = <<>> \o Tail(todo) /\ Produce(l)
  BY <1>1, <1>3, <1>4, <1>6, ProducingStep
<1> QED
  BY <1>1, <1>5, <1>6

(* A variable that is declared before its value is compiled. *)
LEMMA VarDeclStep ==
  ASSUME CInv, NEW n \in Variables, compile_var_decl(n)
  PROVE  CInv'
<1>1. /\ Doing("statement") /\ UNCHANGED <<buffer, functions, outcome>>
      /\ "statement" \in Simple
  BY DEF compile_var_decl, Simple
<1>2. /\ symbols \in Seq(Scope) /\ symbols # <<>> /\ n \in Names
      /\ GoesOn(buffer, buffer) /\ Sound(buffer, Open(todo), Labels(todo))
  BY <1>1, DoingFacts, GrammarAssumption, NamesAssumption
<1>3. CASE DeclaredIn(Innermost(symbols), n)
  <2>1. todo' = <<>> \o Tail(todo) /\ UNCHANGED symbols
    BY <1>3 DEF compile_var_decl, Chosen, Do
  <2> QED
    BY <1>1, <2>1, Listed, SilentStep
<1>4. CASE ~DeclaredIn(Innermost(symbols), n)
  <2> DEFINE i == WithRegister("OP_STORE_VAR", lookup_symbol(symbols', n).index, n)
  <2>1. /\ symbols' = WithVariable(symbols, n)
        /\ \/ todo' = (<< Expr >> \o << Emit(i) >>) \o Tail(todo)
           \/ todo' = << Emit(i) >> \o Tail(todo)
    BY <1>4 DEF compile_var_decl, Chosen, Do
  <2>2. /\ symbols' \in Seq(Scope) /\ Len(symbols') = Len(symbols)
        /\ DOMAIN symbols' = DOMAIN symbols
        /\ Grows(symbols, symbols') /\ DeclaredIn(symbols'[Len(symbols)], n)
    BY <1>2, <2>1, VariableOnTop, VariableGrows
  <2>3. Len(symbols) \in DOMAIN symbols' /\ symbols' # <<>>
    <3>1. Len(symbols) \in DOMAIN symbols /\ Len(symbols) > 0
      BY <1>2, InnermostInDomain
    <3> QED
      BY <2>2, <3>1
  <2>4. lookup_symbol(symbols', n).index \in Nat
    BY <2>2, <2>3, DeclaredIsVisible, LookupFacts
  <2>5. Plain(i)
    BY <1>2, <2>4, InstructionsPlain, KnownOpcodes
  <2> HIDE DEF i
  <2>6. AllInert(<< Emit(i) >>) /\ AllInert(<< Expr >>)
    BY <2>5, InertItems, Listed
  <2>7. AllInert(<< Expr >> \o << Emit(i) >>)
    BY <2>6, ListedTogether
  <2>8. PICK is : AllInert(is) /\ todo' = is \o Tail(todo)
    BY <2>1, <2>6, <2>7
  <2>9. GoesOn(buffer, buffer') /\ Sound(buffer', Open(todo), Labels(todo))
    BY <1>1, <1>2
  <2> QED
    BY <1>1, <2>2, <2>3, <2>8, <2>9, SimpleStep
<1> QED
  BY <1>3, <1>4

-----------------------------------------------------------------------------
(* A scope is entered, and the last of the new items will leave it. *)
LEMMA EnteringStep ==
  ASSUME CInv, Doing("statement"),
         NEW is, NEW z, EndsWith(is, z), GoodItem(z), z.do \notin {"program", "end_fn"},
         PlaceOf(z) = {}, LabelOf(z) = {},
         todo' = is \o Tail(todo), outcome' = outcome, functions' = functions,
         symbols' \in Seq(Scope), Len(symbols') = Len(symbols) + 1, Grows(symbols, symbols'),
         LooksUp(z, Innermost(symbols')),
         GoesOn(buffer, buffer'), Sound(buffer', Open(todo), Labels(todo))
  PROVE  CInv'
<1>1. /\ outcome = "compiling" /\ todo # <<>> /\ todo[1].do = "statement"
      /\ Compiling(symbols, buffer, functions, todo)
      /\ Queue(todo) /\ Scoped(todo, symbols) /\ todo \in Seq(Items(todo))
  BY DoingFacts DEF Queue
<1>2. /\ is \in Seq(Items(is)) /\ Open(is) = {} /\ Labels(is) = {} /\ is[Len(is)] = z
      /\ \A k \in DOMAIN is : Closes(is[k]) => k = Len(is)
  BY EndsWithFacts DEF EndsWith
<1>3. PlaceOf(todo[1]) = {} /\ LabelOf(todo[1]) = {}
  BY <1>1 DEF PlaceOf, LabelOf
<1>4. Open(todo) = Open(Tail(todo)) /\ Labels(todo) = Labels(Tail(todo))
  BY <1>1, <1>3, FirstAndRest
<1>5. Scoped(is \o Tail(todo), symbols')
  BY <1>1, <1>2, ScopedEntered DEF Innermost
<1>6. \A k \in DOMAIN is : GoodItem(is[k]) /\ is[k].do \notin {"program", "end_fn"}
  BY DEF EndsWith, Inert
<1>7. Sound(buffer', Open(is) \union Open(Tail(todo)), Labels(is) \union Labels(Tail(todo)))
  BY <1>2, <1>4
<1>8. todo[1].do \notin {"program", "end_fn"}
  BY <1>1
<1>9. Compiling(symbols', buffer', functions, is \o Tail(todo))
  BY <1>1, <1>2, <1>5, <1>6, <1>7, <1>8, Advance
<1> QED
  BY <1>1, <1>9 DEF CInv

LEMMA IfStep ==
  ASSUME CInv, compile_if
  PROVE  CInv'
<1> DEFINE z == [do |-> "then_branch"]
           l == << Opcode("OP_SAVE_SP") >>
<1>1. /\ Doing("statement") /\ UNCHANGED <<functions, outcome>>
      /\ symbols' = WithNewScope(symbols) /\ Produce(l)
      /\ todo' = << Expr, z >> \o Tail(todo)
  BY DEF compile_if, Chosen, Do
<1>2. symbols \in Seq(Scope) /\ symbols # <<>>
  BY <1>1, DoingFacts
<1>3. symbols' \in Seq(Scope) /\ Len(symbols') = Len(symbols) + 1 /\ Grows(symbols, symbols')
  BY <1>1, <1>2, NewScopeOnTop, NewScopeGrows
<1>4. Len(l) \in Nat /\ \A j \in 1 .. Len(l) : Plain(l[j])
  <2>1. Plain(Opcode("OP_SAVE_SP"))
    BY InstructionsPlain, KnownOpcodes
  <2> QED
    BY <2>1
<1> HIDE DEF l
<1>5. GoesOn(buffer, buffer') /\ Sound(buffer', Open(todo), Labels(todo))
  BY <1>1, <1>4, Produced
<1>6. /\ GoodItem(z) /\ z.do \notin {"program", "end_fn"} /\ PlaceOf(z) = {} /\ LabelOf(z) = {}
      /\ LooksUp(z, Innermost(symbols'))
  BY DEF GoodItem, InLoop, PlaceOf, LabelOf, LooksUp
<1> HIDE DEF z
<1>7. EndsWith(<< Expr, z >>, z)
  BY InertItems, Listed
<1> QED
  BY <1>1, <1>3, <1>5, <1>6, <1>7, EnteringStep

LEMMA DeclaredGrows ==
  ASSUME NEW s \in Seq(Scope), s # <<>>, NEW n \in Names
  PROVE  LET t == Declared(s, n) IN
         /\ t \in Seq(Scope) /\ t # <<>> /\ Len(t) = Len(s) /\ Grows(s, t)
         /\ DeclaredIn(Innermost(t), n)
<1>1. CASE DeclaredIn(Innermost(s), n)
  BY <1>1, GrowsReflexive DEF Declared
<1>2. CASE ~DeclaredIn(Innermost(s), n)
  <2> DEFINE t == WithVariable(s, n)
  <2>1. /\ t \in Seq(Scope) /\ Len(t) = Len(s)
        /\ Grows(s, t) /\ DeclaredIn(t[Len(s)], n)
    BY VariableOnTop, VariableGrows
  <2>2. Len(s) > 0 /\ Len(s) \in Nat
    BY InnermostInDomain
  <2> HIDE DEF t
  <2>3. t # <<>>
    BY <2>1, <2>2, EmptySeq
  <2> QED
    BY <1>2, <2>1, <2>3 DEF Declared, Innermost, t
<1> QED
  BY <1>1, <1>2

LEMMA ForStep ==
  ASSUME CInv, NEW n \in Variables, compile_for(n)
  PROVE  CInv'
<1> DEFINE s0 == WithNewScope(symbols)
           s1 == Declared(s0, n)
           z  == [do |-> "for_body", name |-> n]
           i  == WithRegister("OP_STORE_VAR", lookup_symbol(symbols', n).index, n)
<1>1. /\ Doing("statement") /\ UNCHANGED <<buffer, functions, outcome>>
      /\ symbols' = Declared(s1, "__end")
      /\ todo' = << Expr, Emit(i), Expr, z >> \o Tail(todo)
  BY DEF compile_for, Chosen, Do
<1>2. /\ symbols \in Seq(Scope) /\ symbols # <<>>
      /\ GoesOn(buffer, buffer) /\ Sound(buffer, Open(todo), Labels(todo))
  BY <1>1, DoingFacts
<1>3. n \in Names /\ "__end" \in Names
  BY GrammarAssumption, NamesAssumption
<1>4. s0 \in Seq(Scope) /\ Len(s0) = Len(symbols) + 1 /\ Grows(symbols, s0) /\ s0 # <<>>
  BY <1>2, NewScopeOnTop, NewScopeGrows
<1> HIDE DEF s0
<1>5. /\ s1 \in Seq(Scope) /\ s1 # <<>> /\ Len(s1) = Len(s0) /\ Grows(s0, s1)
      /\ DeclaredIn(Innermost(s1), n)
  BY <1>3, <1>4, DeclaredGrows
<1> HIDE DEF s1
<1>6. /\ symbols' \in Seq(Scope) /\ symbols' # <<>> /\ Len(symbols') = Len(s1)
      /\ Grows(s1, symbols') /\ DeclaredIn(Innermost(symbols'), "__end")
  BY <1>1, <1>3, <1>5, DeclaredGrows
<1>7. Grows(symbols, symbols') /\ Len(symbols') = Len(symbols) + 1
  <2>1. Grows(symbols, s1)
    BY <1>4, <1>5, GrowsTransitive
  <2> QED
    BY <2>1, <1>4, <1>5, <1>6, GrowsTransitive
<1>8. DeclaredIn(Innermost(symbols'), n)
  <2>1. Len(s1) \in DOMAIN s1
    BY <1>5, InnermostInDomain
  <2> QED
    BY <2>1, <1>3, <1>5, <1>6 DEF Grows, Innermost
<1>9. Visible(symbols', n)
  <2>1. Len(symbols') \in DOMAIN symbols'
    BY <1>6, InnermostInDomain
  <2> QED
    BY <2>1, <1>8, DeclaredIsVisible DEF Innermost
<1>10. lookup_symbol(symbols', n).index \in Nat
  BY <1>6, <1>9, LookupFacts
<1>11. Plain(i)
  BY <1>3, <1>10, InstructionsPlain, KnownOpcodes
<1> HIDE DEF i
<1>12. /\ GoodItem(z) /\ z.do \notin {"program", "end_fn"} /\ PlaceOf(z) = {} /\ LabelOf(z) = {}
       /\ LooksUp(z, Innermost(symbols'))
  BY <1>6, <1>8 DEF GoodItem, InLoop, PlaceOf, LabelOf, LooksUp
<1> HIDE DEF z
<1>13. EndsWith(<< Expr, Emit(i), Expr, z >>, z)
  BY <1>11, InertItems, ListedMore
<1>14. GoesOn(buffer, buffer') /\ Sound(buffer', Open(todo), Labels(todo))
  BY <1>1, <1>2
<1> QED
  BY <1>1, <1>6, <1>7, <1>12, <1>13, <1>14, EnteringStep

-----------------------------------------------------------------------------
(* Jumps whose target is not known yet, and setting it. *)
LEMMA PlaceholderGoesOn ==
  ASSUME NEW b, NEW P, NEW L, Sound(b, P, L), OpsIn(b, Ops), NEW op \in JumpOps,
         NEW g \in UninitLink
  PROVE  LET d == WithPlaceholder(b, op, g) IN
         Sound(d, P \union {Placeholder(d)}, L) /\ GoesOn(b, d)
<1> DEFINE i == Jump(op, 0, 0)
           d == Emitted(b, i, g)
<1>1. g \in Nat /\ 0 \in Nat
  BY SizesAssumption
<1>2. i \in Instruction /\ i.op = op
  BY <1>1, JumpFacts
<1>3. /\ Sound(d, P \union {Placeholder(d)}, L) /\ Extends(b, d)
      /\ Current(d).stream = Current(b).stream
  BY <1>1, PlaceholderSound DEF Placeholder
<1>4. i.op \in Ops /\ Typed(b) /\ AllTiled(b)
  BY <1>2 DEF Ops, Sound
<1> HIDE DEF i
<1>5. OpsIn(d, Ops)
  BY <1>1, <1>2, <1>4, LinkOps, EmittedOps
<1> HIDE DEF d
<1>6. GoesOn(b, d)
  BY <1>3, <1>5 DEF GoesOn, Extends
<1> QED
  BY <1>3, <1>6 DEF WithPlaceholder, d, i

LEMMA PatchedGoesOn ==
  ASSUME NEW b, NEW P, NEW L, Sound(b, P, L), OpsIn(b, Ops), NEW p \in P,
         NEW Q, P \ {p} \subseteq Q, Q \subseteq P
  PROVE  LET d == Patched(b, p) IN Sound(d, Q, L) /\ GoesOn(b, d)
<1> DEFINE d == bc_backpatch_jump(b, p, Position(b))
<1>1. /\ Sound(d, Q, L) /\ DOMAIN d.chunks = DOMAIN b.chunks
      /\ Current(d).stream = Current(b).stream
  BY PatchedSound
<1>2. OpsIn(d, Ops)
  BY PatchedOps
<1> HIDE DEF d
<1> QED
  BY <1>1, <1>2 DEF GoesOn, Patched, d

(* The work goes on with items of which the last does for the buffer and the
   scopes what the first item of the queue did. *)
LEMMA HandOnStep ==
  ASSUME CInv, NEW k, Doing(k), k \notin {"program", "end_fn"},
         NEW is, NEW z, EndsWith(is, z), GoodItem(z), z.do \notin {"program", "end_fn"},
         Closes(z) => /\ Closes(todo[1])
                      /\ \A scope : LooksUp(todo[1], scope) => LooksUp(z, scope),
         todo' = is \o Tail(todo), UNCHANGED <<symbols, outcome, functions>>,
         GoesOn(buffer, buffer'),
         Sound(buffer', PlaceOf(z) \union Open(Tail(todo)), LabelOf(z) \union Labels(Tail(todo)))
  PROVE  CInv'
<1>1. /\ outcome = "compiling" /\ todo # <<>> /\ todo[1].do = k
      /\ Compiling(symbols, buffer, functions, todo)
      /\ Queue(todo) /\ Scoped(todo, symbols)
      /\ symbols \in Seq(Scope) /\ symbols # <<>> /\ Grows(symbols, symbols)
  BY DoingFacts
<1>2. /\ is \in Seq(Items(is)) /\ Open(is) = PlaceOf(z) /\ Labels(is) = LabelOf(z)
      /\ is[Len(is)] = z
      /\ \A j \in DOMAIN is : Closes(is[j]) => j = Len(is)
  BY EndsWithFacts DEF EndsWith
<1>3. Scoped(is \o Tail(todo), symbols)
  <2>1. CASE Closes(z)
    BY <2>1, <1>1, <1>2, ScopedResumed
  <2>2. CASE ~Closes(z)
    <3>1. \A j \in DOMAIN is : ~Closes(is[j])
      BY <1>2, <2>2
    <3> QED
      BY <3>1, <1>1, <1>2, ScopedGrows
  <2> QED
    BY <2>1, <2>2
<1>4. \A j \in DOMAIN is : GoodItem(is[j]) /\ is[j].do \notin {"program", "end_fn"}
  BY DEF EndsWith, Inert
<1>5. Sound(buffer', Open(is) \union Open(Tail(todo)), Labels(is) \union Labels(Tail(todo)))
  BY <1>2
<1>6. Compiling(symbols, buffer', functions, is \o Tail(todo))
  BY <1>1, <1>2, <1>3, <1>4, <1>5, Advance
<1> QED
  BY <1>1, <1>6 DEF CInv

(* What the first item of the queue and the others say of the buffer. *)
LEMMA FirstOpen ==
  ASSUME CInv, NEW k, Doing(k)
  PROVE  /\ Open(todo) = PlaceOf(todo[1]) \union Open(Tail(todo))
         /\ Labels(todo) = LabelOf(todo[1]) \union Labels(Tail(todo))
<1>1. todo # <<>> /\ todo \in Seq(Items(todo))
  BY DoingFacts DEF Queue
<1> QED
  BY <1>1, FirstAndRest

LEMMA TrueExprStep ==
  ASSUME CInv, compile_true_expr
  PROVE  CInv'
<1> DEFINE z == [do |-> "false_expr", jump_to_false |-> Placeholder(buffer')]
<1>1. /\ Doing("true_expr") /\ UNCHANGED <<symbols, outcome, functions>>
      /\ todo' = << Expr, z >> \o Tail(todo)
  BY DEF compile_true_expr, Then, Do
<1>2. PICK g \in UninitLink : buffer' = WithPlaceholder(buffer, "OP_JMP_IF_FALSE", g)
  BY DEF compile_true_expr
<1>3. /\ Sound(buffer, Open(todo), Labels(todo)) /\ OpsIn(buffer, Ops) /\ todo[1].do = "true_expr"
  BY <1>1, DoingFacts
<1>4. /\ Sound(buffer', Open(todo) \union {Placeholder(buffer')}, Labels(todo))
      /\ GoesOn(buffer, buffer')
  BY <1>2, <1>3, PlaceholderGoesOn DEF JumpOps
<1>5. Open(todo) = Open(Tail(todo)) /\ Labels(todo) = Labels(Tail(todo))
  BY <1>1, <1>3, FirstOpen DEF PlaceOf, LabelOf
<1>6. /\ GoodItem(z) /\ z.do \notin {"program", "end_fn"} /\ ~Closes(z)
      /\ PlaceOf(z) = {Placeholder(buffer')} /\ LabelOf(z) = {}
  BY DEF GoodItem, InLoop, Closes, PlaceOf, LabelOf
<1> HIDE DEF z
<1>7. EndsWith(<< Expr, z >>, z)
  BY InertItems, Listed
<1>8. /\ Open(todo) \union {Placeholder(buffer')} = PlaceOf(z) \union Open(Tail(todo))
      /\ Labels(todo) = LabelOf(z) \union Labels(Tail(todo))
  BY <1>5, <1>6
<1> QED
  BY <1>1, <1>4, <1>6, <1>7, <1>8, HandOnStep

LEMMA ThenBranchStep ==
  ASSUME CInv, compile_then_branch
  PROVE  CInv'
<1> DEFINE z == [do |-> "else_branch", jump_to_else |-> Placeholder(buffer')]
<1>1. /\ Doing("then_branch") /\ UNCHANGED <<symbols, outcome, functions>>
      /\ todo' = << Stmt, z >> \o Tail(todo)
  BY DEF compile_then_branch, Then, Do
<1>2. PICK g \in UninitLink : buffer' = WithPlaceholder(buffer, "OP_JMP_IF_FALSE", g)
  BY DEF compile_then_branch
<1>3. /\ Sound(buffer, Open(todo), Labels(todo)) /\ OpsIn(buffer, Ops)
      /\ todo[1].do = "then_branch" /\ Closes(todo[1])
  BY <1>1, DoingFacts DEF Closes
<1>4. /\ Sound(buffer', Open(todo) \union {Placeholder(buffer')}, Labels(todo))
      /\ GoesOn(buffer, buffer')
  BY <1>2, <1>3, PlaceholderGoesOn DEF JumpOps
<1>5. Open(todo) = Open(Tail(todo)) /\ Labels(todo) = Labels(Tail(todo))
  BY <1>1, <1>3, FirstOpen DEF PlaceOf, LabelOf
<1>6. /\ GoodItem(z) /\ z.do \notin {"program", "end_fn"} /\ \A scope : LooksUp(z, scope)
      /\ PlaceOf(z) = {Placeholder(buffer')} /\ LabelOf(z) = {}
  BY DEF GoodItem, InLoop, PlaceOf, LabelOf, LooksUp
<1> HIDE DEF z
<1>7. EndsWith(<< Stmt, z >>, z)
  BY InertItems, Listed
<1>8. /\ Open(todo) \union {Placeholder(buffer')} = PlaceOf(z) \union Open(Tail(todo))
      /\ Labels(todo) = LabelOf(z) \union Labels(Tail(todo))
  BY <1>5, <1>6
<1> QED
  BY <1>1, <1>3, <1>4, <1>6, <1>7, <1>8, HandOnStep

(* A jump over the other branch is emitted, and the jump to it gets its target. *)
LEMMA BranchesSwapped ==
  ASSUME NEW b, NEW q, NEW P, NEW L, Sound(b, {q} \union P, L), OpsIn(b, Ops),
         NEW op \in JumpOps, NEW g \in UninitLink
  PROVE  LET e == WithPlaceholder(b, op, g)
             d == Patched(e, q)
         IN Sound(d, {Placeholder(e)} \union P, L) /\ GoesOn(b, d)
<1> DEFINE e == WithPlaceholder(b, op, g)
           p == Placeholder(e)
           d == Patched(e, q)
<1>1. Sound(e, ({q} \union P) \union {p}, L) /\ GoesOn(b, e) /\ OpsIn(e, Ops)
  BY PlaceholderGoesOn DEF GoesOn
<1> HIDE DEF e, p
<1>2. Sound(d, {p} \union P, L) /\ GoesOn(e, d)
  <2>1. q \in ({q} \union P) \union {p}
    OBVIOUS
  <2>2. /\ (({q} \union P) \union {p}) \ {q} \subseteq {p} \union P
        /\ {p} \union P \subseteq ({q} \union P) \union {p}
    OBVIOUS
  <2> QED
    BY <1>1, <2>1, <2>2, PatchedGoesOn
<1> HIDE DEF d
<1>3. GoesOn(b, d)
  BY <1>1, <1>2, GoesOnTransitive
<1> QED
  BY <1>2, <1>3 DEF d, p, e

LEMMA FalseExprStep ==
  ASSUME CInv, compile_false_expr
  PROVE  CInv'
<1> DEFINE q == Head(todo).jump_to_false
<1>1. Doing("false_expr") /\ UNCHANGED <<symbols, outcome, functions>>
  BY DEF compile_false_expr
<1>2. PICK g \in UninitLink :
        LET e == WithPlaceholder(buffer, "OP_JMP", g) IN
          /\ buffer' = Patched(e, q)
          /\ Then(<< Expr, [do |-> "end_ternary", jump_to_end |-> Placeholder(e)] >>)
  BY DEF compile_false_expr
<1> DEFINE e == WithPlaceholder(buffer, "OP_JMP", g)
           z == [do |-> "end_ternary", jump_to_end |-> Placeholder(e)]
<1>3. buffer' = Patched(e, q) /\ todo' = << Expr, z >> \o Tail(todo)
  BY <1>2 DEF Then, Do
<1>4. /\ Sound(buffer, Open(todo), Labels(todo)) /\ OpsIn(buffer, Ops)
      /\ todo[1].do = "false_expr" /\ todo[1] = Head(todo)
  BY <1>1, DoingFacts
<1>5. PlaceOf(todo[1]) = {q} /\ LabelOf(todo[1]) = {}
  BY <1>4 DEF PlaceOf, LabelOf
<1> HIDE DEF q
<1>6. Open(todo) = {q} \union Open(Tail(todo)) /\ Labels(todo) = Labels(Tail(todo))
  BY <1>1, <1>5, FirstOpen
<1>7. /\ Sound(buffer', {Placeholder(e)} \union Open(Tail(todo)), Labels(todo))
      /\ GoesOn(buffer, buffer')
  <2> DEFINE r == Open(Tail(todo))
             l == Labels(todo)
  <2>1. Sound(buffer, {q} \union r, l) /\ OpsIn(buffer, Ops)
    BY <1>4, <1>6
  <2>2. "OP_JMP" \in JumpOps
    BY DEF JumpOps
  <2> HIDE DEF r, l
  <2>3. Sound(Patched(e, q), {Placeholder(e)} \union r, l) /\ GoesOn(buffer, Patched(e, q))
    BY <2>1, <2>2, BranchesSwapped
  <2> HIDE DEF e
  <2> QED
    BY <1>3, <2>3 DEF r, l
<1>8. /\ GoodItem(z) /\ z.do \notin {"program", "end_fn"} /\ ~Closes(z)
      /\ PlaceOf(z) = {Placeholder(e)} /\ LabelOf(z) = {}
  BY DEF GoodItem, InLoop, Closes, PlaceOf, LabelOf
<1> HIDE DEF z
<1>9. EndsWith(<< Expr, z >>, z)
  BY InertItems, Listed
<1>10. Labels(todo) = LabelOf(z) \union Labels(Tail(todo))
  BY <1>6, <1>8
<1> QED
  BY <1>1, <1>3, <1>7, <1>8, <1>9, <1>10, HandOnStep

LEMMA ElseBranchStep ==
  ASSUME CInv, compile_else_branch
  PROVE  CInv'
<1> DEFINE q == Head(todo).jump_to_else
<1>1. Doing("else_branch") /\ UNCHANGED <<symbols, outcome, functions>>
  BY DEF compile_else_branch
<1>2. PICK g \in UninitLink :
        LET e == WithPlaceholder(buffer, "OP_JMP", g)
            z == [do |-> "end_if", jump_to_end |-> Placeholder(e)]
        IN /\ buffer' = Patched(e, q)
           /\ Then(<< Stmt, z >>) \/ Chosen(Node("no_else", "", 0), << z >>)
  BY DEF compile_else_branch
<1> DEFINE e == WithPlaceholder(buffer, "OP_JMP", g)
           z == [do |-> "end_if", jump_to_end |-> Placeholder(e)]
<1>3. /\ buffer' = Patched(e, q)
      /\ todo' = << Stmt, z >> \o Tail(todo) \/ todo' = << z >> \o Tail(todo)
  BY <1>2 DEF Then, Chosen, Do
<1>4. /\ Sound(buffer, Open(todo), Labels(todo)) /\ OpsIn(buffer, Ops)
      /\ todo[1].do = "else_branch" /\ todo[1] = Head(todo) /\ Closes(todo[1])
  BY <1>1, DoingFacts DEF Closes
<1>5. PlaceOf(todo[1]) = {q} /\ LabelOf(todo[1]) = {}
  BY <1>4 DEF PlaceOf, LabelOf
<1> HIDE DEF q
<1>6. Open(todo) = {q} \union Open(Tail(todo)) /\ Labels(todo) = Labels(Tail(todo))
  BY <1>1, <1>5, FirstOpen
<1>7. /\ Sound(buffer', {Placeholder(e)} \union Open(Tail(todo)), Labels(todo))
      /\ GoesOn(buffer, buffer')
  <2> DEFINE r == Open(Tail(todo))
             l == Labels(todo)
  <2>1. Sound(buffer, {q} \union r, l) /\ OpsIn(buffer, Ops)
    BY <1>4, <1>6
  <2>2. "OP_JMP" \in JumpOps
    BY DEF JumpOps
  <2> HIDE DEF r, l
  <2>3. Sound(Patched(e, q), {Placeholder(e)} \union r, l) /\ GoesOn(buffer, Patched(e, q))
    BY <2>1, <2>2, BranchesSwapped
  <2> HIDE DEF e
  <2> QED
    BY <1>3, <2>3 DEF r, l
<1>8. /\ GoodItem(z) /\ z.do \notin {"program", "end_fn"} /\ \A scope : LooksUp(z, scope)
      /\ PlaceOf(z) = {Placeholder(e)} /\ LabelOf(z) = {}
  BY DEF GoodItem, InLoop, PlaceOf, LabelOf, LooksUp
<1> HIDE DEF z
<1>9. EndsWith(<< Stmt, z >>, z) /\ EndsWith(<< z >>, z)
  BY InertItems, Listed
<1>10. PICK is : EndsWith(is, z) /\ todo' = is \o Tail(todo)
  BY <1>3, <1>9
<1>11. Labels(todo) = LabelOf(z) \union Labels(Tail(todo))
  BY <1>6, <1>8
<1> QED
  BY <1>1, <1>4, <1>7, <1>8, <1>10, <1>11, HandOnStep

-----------------------------------------------------------------------------
(* The end of a handler: nothing of it is left to do. *)
LEMMA EndingStep ==
  ASSUME CInv, NEW k, Doing(k), k \notin {"program", "end_fn"},
         todo' = <<>> \o Tail(todo), UNCHANGED <<outcome, functions>>,
         \/ UNCHANGED symbols
         \/ Closes(todo[1]) /\ symbols' = WithoutInnermost(symbols),
         GoesOn(buffer, buffer'), Sound(buffer', Open(Tail(todo)), Labels(Tail(todo)))
  PROVE  CInv'
<1>1. /\ outcome = "compiling" /\ todo # <<>> /\ todo[1].do = k
      /\ Compiling(symbols, buffer, functions, todo)
      /\ Queue(todo) /\ Scoped(todo, symbols)
      /\ symbols \in Seq(Scope) /\ symbols # <<>> /\ Grows(symbols, symbols)
  BY DoingFacts
<1>2. /\ AllInert(<<>>) /\ << >> \in Seq(Items(<< >>))
      /\ Open(<< >>) = {} /\ Labels(<< >>) = {} /\ DOMAIN << >> = {}
  <2>1. AllInert(<<>>) /\ DOMAIN << >> = {}
    BY Listed
  <2> DEFINE is == << >>
  <2>2. AllInert(is)
    BY <2>1
  <2> HIDE DEF is
  <2>3. is \in Seq(Items(is)) /\ Open(is) = {} /\ Labels(is) = {}
    BY <2>2, AllInertFacts DEF AllInert
  <2> QED
    BY <2>1, <2>3 DEF is
<1>3. Scoped(<<>> \o Tail(todo), symbols')
  <2>1. CASE UNCHANGED symbols
    BY <2>1, <1>1, <1>2, ScopedGrows
  <2>2. CASE Closes(todo[1]) /\ symbols' = WithoutInnermost(symbols)
    BY <2>2, <1>1, ScopedLeft
  <2> QED
    BY <2>1, <2>2
<1>4. Sound(buffer', Open(<<>>) \union Open(Tail(todo)), Labels(<<>>) \union Labels(Tail(todo)))
  BY <1>2
<1> DEFINE is == << >>
<1>5. /\ is \in Seq(Items(is))
      /\ \A j \in DOMAIN is : GoodItem(is[j]) /\ is[j].do \notin {"program", "end_fn"}
  BY <1>2
<1> HIDE DEF is
<1>6. Compiling(symbols', buffer', functions, is \o Tail(todo))
  BY <1>1, <1>3, <1>4, <1>5, Advance DEF is
<1> QED
  BY <1>1, <1>6 DEF CInv, is

LEMMA EndTernaryStep ==
  ASSUME CInv, compile_end_ternary
  PROVE  CInv'
<1> DEFINE q == Head(todo).jump_to_end
<1>1. /\ Doing("end_ternary") /\ UNCHANGED <<symbols, outcome, functions>>
      /\ buffer' = Patched(buffer, q) /\ todo' = <<>> \o Tail(todo)
  BY DEF compile_end_ternary, Then, Do
<1>2. /\ Sound(buffer, Open(todo), Labels(todo)) /\ OpsIn(buffer, Ops)
      /\ todo[1].do = "end_ternary" /\ todo[1] = Head(todo)
  BY <1>1, DoingFacts
<1>3. PlaceOf(todo[1]) = {q} /\ LabelOf(todo[1]) = {}
  BY <1>2 DEF PlaceOf, LabelOf
<1> HIDE DEF q
<1>4. Open(todo) = {q} \union Open(Tail(todo)) /\ Labels(todo) = Labels(Tail(todo))
  BY <1>1, <1>3, FirstOpen
<1>5. /\ q \in Open(todo) /\ Open(todo) \ {q} \subseteq Open(Tail(todo))
      /\ Open(Tail(todo)) \subseteq Open(todo)
  BY <1>4
<1>6. Sound(buffer', Open(Tail(todo)), Labels(todo)) /\ GoesOn(buffer, buffer')
  BY <1>1, <1>2, <1>5, PatchedGoesOn
<1> QED
  BY <1>1, <1>4, <1>6, EndingStep

LEMMA EndIfStep ==
  ASSUME CInv, compile_end_if
  PROVE  CInv'
<1> DEFINE q == Head(todo).jump_to_end
           i == Opcode("OP_RESET_SP")
           e == Patched(buffer, q)
<1>1. /\ Doing("end_if") /\ UNCHANGED <<outcome, functions>>
      /\ symbols' = WithoutInnermost(symbols) /\ todo' = <<>> \o Tail(todo)
  BY DEF compile_end_if, Then, Do
<1>2. PICK g \in UninitLink : buffer' = Emitted(e, i, g)
  BY DEF compile_end_if
<1>3. /\ Sound(buffer, Open(todo), Labels(todo)) /\ OpsIn(buffer, Ops)
      /\ todo[1].do = "end_if" /\ todo[1] = Head(todo) /\ Closes(todo[1])
  BY <1>1, DoingFacts DEF Closes
<1>4. PlaceOf(todo[1]) = {q} /\ LabelOf(todo[1]) = {}
  BY <1>3 DEF PlaceOf, LabelOf
<1> HIDE DEF q
<1>5. Open(todo) = {q} \union Open(Tail(todo)) /\ Labels(todo) = Labels(Tail(todo))
  BY <1>1, <1>4, FirstOpen
<1>6. /\ q \in Open(todo) /\ Open(todo) \ {q} \subseteq Open(Tail(todo))
      /\ Open(Tail(todo)) \subseteq Open(todo)
  BY <1>5
<1>7. Sound(e, Open(Tail(todo)), Labels(todo)) /\ GoesOn(buffer, e) /\ OpsIn(e, Ops)
  BY <1>3, <1>6, PatchedGoesOn DEF GoesOn
<1>8. Plain(i) /\ g \in Nat
  BY InstructionsPlain, KnownOpcodes, SizesAssumption
<1> HIDE DEF e, i
<1>9. Sound(buffer', Open(Tail(todo)), Labels(todo)) /\ GoesOn(e, buffer')
  BY <1>2, <1>7, <1>8, PlainEmittable, EmittedGoesOn
<1>10. GoesOn(buffer, buffer')
  BY <1>7, <1>9, GoesOnTransitive
<1> QED
  BY <1>1, <1>3, <1>5, <1>9, <1>10, EndingStep

LEMMA ForBodyStep ==
  ASSUME CInv, compile_for_body
  PROVE  CInv'
<1> DEFINE n   == Head(todo).name
           v   == lookup_symbol(symbols, n).index
           end == lookup_symbol(symbols, "__end").index
           i   == WithRegister("OP_STORE_VAR", end, "__end")
           l   == << WithRegister("OP_LOAD_VAR", v, n),
                     WithRegister("OP_LOAD_VAR", end, "__end"), Opcode("OP_LESS_THAN") >>
<1>1. Doing("for_body") /\ UNCHANGED <<symbols, outcome, functions>>
  BY DEF compile_for_body
<1>2. PICK g \in UninitLink :
        LET b == Emitted(buffer, i, g)
            c == EmittedAll(b, l, g)
        IN /\ buffer' = WithPlaceholder(c, "OP_JMP_IF_FALSE", g)
           /\ Then(<< Stmt, [do |-> "end_for", name |-> n, loop_start |-> Position(b),
                             exit_jump |-> Placeholder(buffer')] >>)
  BY DEF compile_for_body
<1> DEFINE b == Emitted(buffer, i, g)
           c == EmittedAll(b, l, g)
           p == Placeholder(buffer')
           z == [do |-> "end_for", name |-> n, loop_start |-> Position(b), exit_jump |-> p]
<1>3. buffer' = WithPlaceholder(c, "OP_JMP_IF_FALSE", g) /\ todo' = << Stmt, z >> \o Tail(todo)
  BY <1>2 DEF Then, Do
<1>4. /\ Sound(buffer, Open(todo), Labels(todo)) /\ OpsIn(buffer, Ops)
      /\ todo[1].do = "for_body" /\ todo[1] = Head(todo) /\ todo # <<>>
      /\ Closes(todo[1]) /\ InLoop(todo[1]) /\ GoodItem(todo[1])
      /\ Queue(todo) /\ Scoped(todo, symbols) /\ symbols \in Seq(Scope)
  BY <1>1, DoingFacts DEF Closes, InLoop
<1>5. Visible(symbols, n) /\ Visible(symbols, "__end")
  BY <1>4, FirstFinds
<1>6. v \in Nat /\ end \in Nat
  BY <1>4, <1>5, LookupFacts
<1>7. n \in Variables /\ n \in Names /\ "__end" \in Names
  BY <1>4, GrammarAssumption, NamesAssumption DEF GoodItem
<1>8. Open(todo) = Open(Tail(todo)) /\ Labels(todo) = Labels(Tail(todo))
  BY <1>1, <1>4, FirstOpen DEF PlaceOf, LabelOf
<1>9. /\ GoodItem(z) /\ z.do \notin {"program", "end_fn"} /\ InLoop(z)
      /\ z.name = todo[1].name
      /\ PlaceOf(z) = {p} /\ LabelOf(z) = {Position(b)}
  BY <1>4, <1>7 DEF GoodItem, InLoop, PlaceOf, LabelOf
<1>10. \A scope : LooksUp(todo[1], scope) => LooksUp(z, scope)
  BY <1>4, <1>9 DEF LooksUp
<1> HIDE DEF n, v, end
<1>11. Plain(i) /\ g \in Nat
  BY <1>6, <1>7, InstructionsPlain, KnownOpcodes, SizesAssumption
<1>12. Len(l) \in Nat /\ \A k \in 1 .. Len(l) : Plain(l[k])
  <2>1. /\ Plain(WithRegister("OP_LOAD_VAR", v, n))
        /\ Plain(WithRegister("OP_LOAD_VAR", end, "__end")) /\ Plain(Opcode("OP_LESS_THAN"))
    BY <1>6, <1>7, InstructionsPlain, KnownOpcodes
  <2> QED
    BY <2>1
<1> HIDE DEF i, l, z, p
<1>13. Sound(b, Open(todo), Labels(todo)) /\ GoesOn(buffer, b) /\ OpsIn(b, Ops)
  BY <1>4, <1>11, PlainEmittable, EmittedGoesOn DEF GoesOn
<1> HIDE DEF b
<1>14. Sound(b, Open(todo), Labels(todo) \union {Position(b)})
  BY <1>13, LabelSound
<1>15. /\ Sound(c, Open(todo), Labels(todo) \union {Position(b)}) /\ GoesOn(b, c)
       /\ OpsIn(c, Ops)
  BY <1>12, <1>13, <1>14, ProducedGoesOn DEF GoesOn
<1> HIDE DEF c
<1>16. /\ Sound(buffer', Open(todo) \union {p}, Labels(todo) \union {Position(b)})
       /\ GoesOn(c, buffer')
  <2>1. "OP_JMP_IF_FALSE" \in JumpOps
    BY DEF JumpOps
  <2> QED
    BY <2>1, <1>3, <1>15, PlaceholderGoesOn DEF p
<1>17. GoesOn(buffer, buffer')
  BY <1>13, <1>15, <1>16, GoesOnTransitive
<1>18. EndsWith(<< Stmt, z >>, z)
  BY InertItems, Listed
<1>19. Sound(buffer', PlaceOf(z) \union Open(Tail(todo)), LabelOf(z) \union Labels(Tail(todo)))
  <2>1. /\ Open(todo) \union {p} = PlaceOf(z) \union Open(Tail(todo))
        /\ Labels(todo) \union {Position(b)} = LabelOf(z) \union Labels(Tail(todo))
    BY <1>8, <1>9
  <2> QED
    BY <2>1, <1>16
<1> QED
  BY <1>1, <1>3, <1>4, <1>9, <1>10, <1>17, <1>18, <1>19, HandOnStep

LEMMA EndForStep ==
  ASSUME CInv, compile_end_for
  PROVE  CInv'
<1> DEFINE n == Head(todo).name
           q == Head(todo).exit_jump
           m == Head(todo).loop_start
           i == WithRegister("OP_INC_REG", lookup_symbol(symbols, n).index, n)
           j == Jump("OP_JMP", m.chunk - 1, m.offset)
           l == << i, j >>
<1>1. /\ Doing("end_for") /\ UNCHANGED <<outcome, functions>>
      /\ symbols' = WithoutInnermost(symbols) /\ todo' = <<>> \o Tail(todo)
  BY DEF compile_end_for, Then, Do
<1>2. PICK g \in UninitLink : buffer' = Patched(EmittedAll(buffer, l, g), q)
  BY DEF compile_end_for, LoopEnd
<1> DEFINE e == EmittedAll(buffer, l, g)
<1>3. /\ Sound(buffer, Open(todo), Labels(todo)) /\ OpsIn(buffer, Ops)
      /\ todo[1].do = "end_for" /\ todo[1] = Head(todo) /\ todo # <<>>
      /\ Closes(todo[1]) /\ InLoop(todo[1]) /\ GoodItem(todo[1])
      /\ Queue(todo) /\ Scoped(todo, symbols) /\ symbols \in Seq(Scope)
  BY <1>1, DoingFacts DEF Closes, InLoop
<1>4. Visible(symbols, n)
  BY <1>3, FirstFinds
<1>5. lookup_symbol(symbols, n).index \in Nat /\ n \in Names
  BY <1>3, <1>4, LookupFacts, GrammarAssumption, NamesAssumption DEF GoodItem
<1>6. PlaceOf(todo[1]) = {q} /\ LabelOf(todo[1]) = {m}
  BY <1>3 DEF PlaceOf, LabelOf
<1> HIDE DEF n, q, m
<1>7. Open(todo) = {q} \union Open(Tail(todo)) /\ Labels(todo) = {m} \union Labels(Tail(todo))
  BY <1>1, <1>6, FirstOpen
<1>8. Plain(i) /\ g \in Nat
  BY <1>5, InstructionsPlain, KnownOpcodes, SizesAssumption
<1>9. Emittable(buffer, j)
  <2>1. m \in Labels(todo) /\ "OP_JMP" \in JumpOps
    BY <1>7 DEF JumpOps
  <2>2. /\ j \in Instruction /\ j.op = "OP_JMP" /\ j.op # "OP_JMP_ADR"
        /\ Lands(buffer, Current(buffer).stream, j.x + 1, j.y)
    BY <2>1, <1>3, BackwardJumpLands
  <2>3. j.op \in Ops
    BY <2>1, <2>2 DEF Ops
  <2> QED
    BY <2>2, <2>3 DEF Emittable
<1> HIDE DEF i, j
<1>10. Len(l) \in Nat /\ \A k \in 1 .. Len(l) : Emittable(buffer, l[k])
  BY <1>8, <1>9, PlainEmittable
<1> HIDE DEF l
<1>11. Sound(e, Open(todo), Labels(todo)) /\ GoesOn(buffer, e) /\ OpsIn(e, Ops)
  BY <1>3, <1>8, <1>10, EmittedAllGoesOn DEF GoesOn
<1> HIDE DEF e
<1>12. /\ q \in Open(todo) /\ Open(todo) \ {q} \subseteq Open(Tail(todo))
       /\ Open(Tail(todo)) \subseteq Open(todo) /\ Labels(Tail(todo)) \subseteq Labels(todo)
  BY <1>7
<1>13. Sound(buffer', Open(Tail(todo)), Labels(todo)) /\ GoesOn(e, buffer')
  BY <1>2, <1>11, <1>12, PatchedGoesOn DEF e
<1>14. Sound(buffer', Open(Tail(todo)), Labels(Tail(todo)))
  BY <1>12, <1>13, FewerLabelsSound
<1>15. GoesOn(buffer, buffer')
  BY <1>11, <1>13, GoesOnTransitive
<1> QED
  BY <1>1, <1>3, <1>14, <1>15, EndingStep

-----------------------------------------------------------------------------
(* The program itself: nothing but it and the function it is in is pending. *)
LEMMA NothingLeftToClose ==
  ASSUME NEW t, NEW c, c \in Seq(Scope), c # <<>>, \A k \in DOMAIN t : ~Closes(t[k])
  PROVE  Scoped(t, c)
<1> DEFINE depth == [k \in DOMAIN t |-> 0]
<1>1. depth \in [DOMAIN t -> Nat]
  OBVIOUS
<1> HIDE DEF depth
<1>2. Nested(t, c, depth)
  BY DEF Nested
<1> QED
  BY <1>1, <1>2 DEF Scoped

LEMMA ProgramItem ==
  ASSUME NEW z, z.do = "program"
  PROVE  GoodItem(z) /\ ~Closes(z) /\ PlaceOf(z) = {} /\ LabelOf(z) = {} /\ z.do # "end_fn"
  BY DEF GoodItem, InLoop, Closes, PlaceOf, LabelOf

(* The program comes last, and the items before it wait for nothing. *)
LEMMA ProgramQueue ==
  ASSUME NEW t, NEW z, EndsWith(t, z), z.do = "program"
  PROVE  /\ Queue(t) /\ ~InBody(t) /\ Open(t) = {} /\ Labels(t) = {}
         /\ \A k \in DOMAIN t : ~Closes(t[k])
<1>1. /\ t \in Seq(Items(t)) /\ Len(t) \in Nat /\ t[Len(t)] = z
      /\ \A k \in DOMAIN t : k = Len(t) \/ Inert(t[k])
  BY DEF EndsWith
<1>2. GoodItem(z) /\ ~Closes(z) /\ PlaceOf(z) = {} /\ LabelOf(z) = {} /\ z.do # "end_fn"
  BY ProgramItem
<1>3. \A k \in DOMAIN t : /\ GoodItem(t[k]) /\ ~Closes(t[k])
                          /\ t[k].do = "program" <=> k = Len(t)
                          /\ t[k].do # "end_fn"
  BY <1>1, <1>2 DEF Inert
<1>4. Open(t) = {} /\ Labels(t) = {}
  BY <1>2, EndsWithFacts
<1> QED
  BY <1>1, <1>3, <1>4 DEF Queue, InBody

(* What is pending when the program's next statement is compiled. *)
LEMMA AtProgram ==
  ASSUME CInv, Doing("program")
  PROVE  /\ todo = << todo[1] >> /\ todo[1].do = "program" /\ Tail(todo) = <<>>
         /\ Sound(buffer, {}, {}) /\ ~InFunction(buffer)
<1>1. /\ Queue(todo) /\ 1 \in DOMAIN todo /\ todo[1].do = "program" /\ todo # <<>>
      /\ Compiling(symbols, buffer, functions, todo)
  BY DoingFacts
<1>2. todo \in Seq(Items(todo)) /\ Len(todo) = 1
  BY <1>1 DEF Queue
<1>3. todo = << todo[1] >>
  <2>1. todo = [k \in 1 .. Len(todo) |-> todo[k]]
    BY <1>2, LenProperties
  <2>2. 1 .. 1 = {1}
    OBVIOUS
  <2>3. todo = [k \in {1} |-> todo[k]]
    BY <1>2, <2>1, <2>2
  <2> DEFINE a == todo[1]
  <2>4. << a >> = [k \in {1} |-> a]
    OBVIOUS
  <2> QED
    BY <2>3, <2>4
<1>4. Tail(todo) = <<>>
  <2> DEFINE a == todo[1]
  <2>1. todo = << a >>
    BY <1>3
  <2> HIDE DEF a
  <2> QED
    BY <2>1
<1>5. EndsWith(todo, todo[1])
  BY <1>3, Listed
<1>6. ~InBody(todo) /\ Open(todo) = {} /\ Labels(todo) = {}
  BY <1>1, <1>5, ProgramQueue
<1> QED
  BY <1>1, <1>3, <1>4, <1>6 DEF Compiling

LEMMA ProgramStep ==
  ASSUME CInv, Doing("program"), compile_next_statement
  PROVE  CInv'
<1> DEFINE z == [do |-> "program"]
           t == << Stmt, z >>
<1>1. ~Doing("statements")
  BY DEF Doing
<1>2. /\ UNCHANGED <<symbols, buffer, functions, outcome>>
      /\ todo' = t \o Tail(todo)
  BY <1>1 DEF compile_next_statement, Chosen, Do
<1>3. /\ Sound(buffer, {}, {}) /\ ~InFunction(buffer) /\ Tail(todo) = <<>>
      /\ outcome = "compiling" /\ symbols \in Seq(Scope) /\ symbols # <<>>
      /\ OpsIn(buffer, Ops) /\ Registered(functions, buffer)
  BY AtProgram, DoingFacts
<1>4. z.do = "program"
  OBVIOUS
<1> HIDE DEF z
<1>5. EndsWith(t, z)
  BY InertItems, Listed
<1>6. todo' = t
  <2>1. t \in Seq({Stmt, z})
    OBVIOUS
  <2> HIDE DEF t
  <2>2. t \o <<>> = t
    BY <2>1, ConcatEmptySeq
  <2> QED
    BY <1>2, <1>3, <2>2
<1> HIDE DEF t
<1>7. /\ Queue(t) /\ ~InBody(t) /\ Open(t) = {} /\ Labels(t) = {}
      /\ \A k \in DOMAIN t : ~Closes(t[k])
  BY <1>4, <1>5, ProgramQueue
<1>8. Scoped(t, symbols)
  BY <1>3, <1>7, NothingLeftToClose
<1>9. Compiling(symbols, buffer, functions, t)
  BY <1>3, <1>7, <1>8 DEF Compiling
<1> QED
  BY <1>2, <1>3, <1>6, <1>9 DEF CInv

LEMMA AstEndStep ==
  ASSUME CInv, compile_ast_end
  PROVE  CInv'
<1> DEFINE l == << Opcode("OP_HALT") >>
<1>1. /\ Doing("program") /\ outcome' = "compiled" /\ functions' = functions
      /\ Produce(l)
  BY DEF compile_ast_end
<1>2. /\ Sound(buffer, {}, {}) /\ OpsIn(buffer, Ops) /\ Registered(functions, buffer)
  BY <1>1, AtProgram, DoingFacts
<1>3. Len(l) \in Nat /\ \A k \in 1 .. Len(l) : Plain(l[k])
  <2>1. Plain(Opcode("OP_HALT"))
    BY InstructionsPlain, KnownOpcodes
  <2> QED
    BY <2>1
<1>4. PICK g \in UninitLink : buffer' = EmittedAll(buffer, l, g)
  BY <1>1 DEF Produce
<1> HIDE DEF l
<1>5. Sound(buffer', {}, {}) /\ GoesOn(buffer, buffer')
  BY <1>2, <1>3, <1>4, ProducedGoesOn
<1>6. Compiled(buffer', functions')
  BY <1>1, <1>2, <1>5 DEF Compiled, GoesOn, Registered
<1> QED
  BY <1>1, <1>6 DEF CInv

LEMMA ErrorStep ==
  ASSUME CInv, compile_error
  PROVE  CInv'
<1>1. /\ outcome' = "rejected" /\ UNCHANGED buffer
      /\ Doing("expression") \/ Doing("statement")
  BY DEF compile_error
<1>2. Typed(buffer)
  BY <1>1, DoingFacts DEF Sound
<1> QED
  BY <1>1, <1>2 DEF CInv

-----------------------------------------------------------------------------
(* Functions. *)
LEMMA DeclaredAllGrows ==
  ASSUME NEW s \in Seq(Scope), s # <<>>, NEW names \in Seq(Variables)
  PROVE  LET t == DeclaredAll(s, names) IN
         t \in Seq(Scope) /\ t # <<>> /\ Len(t) = Len(s) /\ Grows(s, t)
<1>1. /\ Len(names) \in Nat
      /\ \A k \in 1 .. Len(names) : names[k] \in Names
  BY LenProperties, GrammarAssumption, NamesAssumption
<1>2. PICK h : /\ h[0] = s
               /\ \A k \in 1 .. Len(names) : h[k] = Declared(h[k - 1], names[k])
               /\ DeclaredAll(s, names) = h[Len(names)]
  <2>1. DeclaredOneByOne(s, names)
    BY <1>1, DeclaredAllSteps
  <2> QED
    BY <2>1 DEF DeclaredOneByOne
<1> DEFINE Fine(t) == t \in Seq(Scope) /\ t # <<>> /\ Len(t) = Len(s) /\ Grows(s, t)
           S == {n \in Nat : n <= Len(names) => Fine(h[n])}
<1>3. 0 \in S
  BY <1>2, GrowsReflexive
<1>4. ASSUME NEW n \in S PROVE n + 1 \in S
  <2>1. n \in Nat /\ n + 1 \in Nat
    OBVIOUS
  <2> SUFFICES ASSUME n + 1 <= Len(names) PROVE Fine(h[n + 1])
    BY <2>1
  <2>2. n <= Len(names) /\ n + 1 \in 1 .. Len(names) /\ (n + 1) - 1 = n
    BY <1>1, <2>1
  <2>3. h[n] \in Seq(Scope) /\ h[n] # <<>> /\ Len(h[n]) = Len(s) /\ Grows(s, h[n])
    BY <2>2
  <2>4. h[n + 1] = Declared(h[n], names[n + 1]) /\ names[n + 1] \in Names
    BY <1>1, <1>2, <2>2
  <2>5. /\ h[n + 1] \in Seq(Scope) /\ h[n + 1] # <<>> /\ Len(h[n + 1]) = Len(h[n])
        /\ Grows(h[n], h[n + 1])
    BY <2>3, <2>4, DeclaredGrows
  <2> QED
    BY <2>3, <2>5, GrowsTransitive
<1>5. Len(names) \in S
  <2> HIDE DEF S
  <2>1. S \in SUBSET Nat
    BY DEF S
  <2> QED
    BY <1>1, <1>3, <1>4, <2>1, SetInduction
<1> QED
  BY <1>1, <1>2, <1>5

LEMMA ArgEndGrows ==
  ASSUME NEW s \in Seq(Scope), Len(s) > 1, NEW f, NEW e \in RegisterIndex
  PROVE  LET t == WithArgEnd(s, f, e) IN
         t \in Seq(Scope) /\ t # <<>> /\ Len(t) = Len(s) /\ Grows(s, t)
<1> DEFINE k == Len(s) - 1
           Changed(y) == IF y.name = f THEN [y EXCEPT !.index = e] ELSE y
           d == [s[k] EXCEPT !.symbols = {Changed(y) : y \in s[k].symbols}]
           t == [s EXCEPT ![k] = d]
<1>1. /\ Len(s) \in Nat /\ DOMAIN s = 1 .. Len(s) /\ \A i \in DOMAIN s : s[i] \in Scope
      /\ s = [i \in 1 .. Len(s) |-> s[i]]
  BY LenProperties
<1>2. k \in DOMAIN s
  BY <1>1
<1>3. t = WithArgEnd(s, f, e)
  BY DEF WithArgEnd
<1> HIDE DEF k
<1>4. \A y \in Symbol : Changed(y) \in Symbol /\ Changed(y).name = y.name
  BY DEF Symbol
<1> HIDE DEF Changed
<1>5. s[k] \in Scope /\ s[k].symbols \subseteq Symbol
  BY <1>1, <1>2 DEF Scope
<1>6. /\ d.symbols = {Changed(y) : y \in s[k].symbols} /\ d \in Scope
      /\ \A n : DeclaredIn(s[k], n) => DeclaredIn(d, n)
  <2>1. {Changed(y) : y \in s[k].symbols} \subseteq Symbol
    BY <1>4, <1>5
  <2>2. d.symbols = {Changed(y) : y \in s[k].symbols} /\ d \in Scope
    BY <1>5, <2>1 DEF Scope
  <2> HIDE DEF d
  <2>3. ASSUME NEW n, DeclaredIn(s[k], n) PROVE DeclaredIn(d, n)
    <3>1. PICK y \in s[k].symbols : y.name = n
      BY <2>3 DEF DeclaredIn
    <3>2. Changed(y) \in d.symbols /\ Changed(y).name = n
      BY <1>4, <1>5, <2>2, <3>1
    <3> QED
      BY <3>2 DEF DeclaredIn
  <2> QED
    BY <2>2, <2>3
<1> HIDE DEF d
<1>7. t \in Seq(Scope) /\ Len(t) = Len(s) /\ DOMAIN t = DOMAIN s
  BY <1>1, <1>2, <1>6, ExceptSeq, LenProperties
<1>8. \A i \in DOMAIN s : t[i] = IF i = k THEN d ELSE s[i]
  BY <1>1, <1>2
<1> HIDE DEF t
<1>9. Grows(s, t)
  BY <1>6, <1>7, <1>8 DEF Grows
<1>10. t # <<>>
  BY <1>1, <1>7, EmptySeq
<1> QED
  BY <1>3, <1>7, <1>9, <1>10

(* The loads of the registers from b on, up to e. *)
LEMMA LoadsPlain ==
  ASSUME NEW b \in Nat, NEW e \in Nat
  PROVE  LET l == [k \in 1 .. e - b |-> WithRegister("OP_LOAD_VAR", b + k - 1, "")] IN
         Len(l) \in Nat /\ \A k \in 1 .. Len(l) : Plain(l[k])
<1> DEFINE l == [k \in 1 .. e - b |-> WithRegister("OP_LOAD_VAR", b + k - 1, "")]
<1>1. \A k \in 1 .. e - b : Plain(WithRegister("OP_LOAD_VAR", b + k - 1, ""))
  <2>1. \A k \in 1 .. e - b : b + k - 1 \in Nat
    OBVIOUS
  <2>2. \A x \in Nat : Plain(WithRegister("OP_LOAD_VAR", x, ""))
    BY InstructionsPlain, KnownOpcodes
  <2> QED
    BY <2>1, <2>2
<1>2. PICK m \in Nat : 1 .. e - b = 1 .. m
  <2>1. CASE e - b \in Nat
    BY <2>1
  <2>2. CASE e - b \notin Nat
    <3>1. 1 .. e - b = 1 .. 0
      BY <2>2
    <3> QED
      BY <3>1
  <2> QED
    BY <2>1, <2>2
<1>3. DOMAIN l = 1 .. m /\ \A k \in 1 .. m : Plain(l[k])
  BY <1>1, <1>2
<1>4. l = [k \in 1 .. m |-> l[k]]
  BY <1>2
<1> HIDE DEF l
<1>5. Len(l) = m
  <2> DEFINE A == {l[j] : j \in 1 .. m}
  <2>1. \A k \in 1 .. m : l[k] \in A
    OBVIOUS
  <2> HIDE DEF A
  <2>2. l \in Seq(A)
    <3>1. [k \in 1 .. m |-> l[k]] \in Seq(A)
      BY <2>1, IsASeq
    <3> QED
      BY <1>4, <3>1
  <2>3. Len(l) \in Nat /\ DOMAIN l = 1 .. Len(l)
    BY <2>2, LenProperties
  <2> QED
    BY <1>3, <2>3
<1>6. Len(l) \in Nat /\ \A k \in 1 .. Len(l) : Plain(l[k])
  BY <1>3, <1>5
<1> QED
  BY <1>6 DEF l

(* A function: its body, leaving its scope, and the rest of the program. *)
LEMMA FunctionQueue ==
  ASSUME NEW z, z.do = "end_fn", NEW y, y.do = "program", NEW c \in Seq(Scope), Len(c) > 1
  PROVE  LET t == << Body, z, y >> IN
         /\ Queue(t) /\ InBody(t) /\ Open(t) = {} /\ Labels(t) = {} /\ Scoped(t, c)
<1> DEFINE t == << Body, z, y >>
<1>1. t \in Seq({Body, z, y}) /\ DOMAIN t = {1, 2, 3} /\ Len(t) = 3
      /\ t[1] = Body /\ t[2] = z /\ t[3] = y
  OBVIOUS
<1>2. Items(t) = {Body, z, y}
  <2> HIDE DEF t
  <2> QED
    BY <1>1 DEF Items
<1>3. /\ GoodItem(y) /\ ~Closes(y) /\ PlaceOf(y) = {} /\ LabelOf(y) = {} /\ y.do # "end_fn"
  BY ProgramItem
<1>4. GoodItem(z) /\ PlaceOf(z) = {} /\ LabelOf(z) = {} /\ z.do # "program" /\ ~InLoop(z)
  BY DEF GoodItem, InLoop, PlaceOf, LabelOf
<1>5. /\ GoodItem(Body) /\ ~Closes(Body) /\ PlaceOf(Body) = {} /\ LabelOf(Body) = {}
      /\ Body.do # "end_fn" /\ Body.do # "program"
  BY DEF GoodItem, InLoop, Closes, PlaceOf, LabelOf, Body
<1> HIDE DEF t
<1>6. ASSUME NEW k \in DOMAIN t
      PROVE  /\ GoodItem(t[k]) /\ PlaceOf(t[k]) = {} /\ LabelOf(t[k]) = {}
             /\ t[k].do = "program" <=> k = Len(t)
             /\ t[k].do = "end_fn" => k = Len(t) - 1
             /\ Closes(t[k]) => k = 2
  <2>1. k = 1 \/ k = 2 \/ k = 3
    BY <1>1
  <2>2. CASE k = 1
    BY <1>1, <1>5, <2>2
  <2>3. CASE k = 2
    BY <1>1, <1>4, <2>3
  <2>4. CASE k = 3
    BY <1>1, <1>3, <2>4
  <2> QED
    BY <2>1, <2>2, <2>3, <2>4
<1>7. Queue(t)
  <2>1. t \in Seq(Items(t))
    BY <1>1, <1>2
  <2> QED
    BY <1>6, <2>1 DEF Queue
<1>8. InBody(t)
  BY <1>1 DEF InBody
<1>9. Open(t) = {} /\ Labels(t) = {}
  BY <1>6 DEF Open, Labels
<1>10. Scoped(t, c)
  <2> DEFINE depth == [k \in DOMAIN t |-> 2]
  <2>1. depth \in [DOMAIN t -> Nat] /\ \A k \in DOMAIN t : depth[k] = 2
    OBVIOUS
  <2> HIDE DEF depth
  <2>2. Len(c) \in Nat /\ 2 \in 2 .. Len(c) /\ c # <<>>
    BY EmptySeq, LenProperties
  <2>3. ASSUME NEW k \in DOMAIN t, Closes(t[k])
        PROVE  /\ depth[k] \in 2 .. Len(c) /\ LooksUp(t[k], c[depth[k]])
               /\ \A j \in DOMAIN t : k < j /\ Closes(t[j]) => depth[j] < depth[k]
    <3>1. k = 2 /\ t[k] = z
      BY <1>1, <1>6, <2>3
    <3>2. \A j \in DOMAIN t : k < j /\ Closes(t[j]) => FALSE
      BY <1>6, <3>1
    <3> QED
      BY <1>4, <2>1, <2>2, <3>1, <3>2 DEF LooksUp
  <2>4. Nested(t, c, depth)
    BY <2>3 DEF Nested
  <2> QED
    BY <2>1, <2>2, <2>4 DEF Scoped
<1> QED
  BY <1>7, <1>8, <1>9, <1>10 DEF t

LEMMA TwoAndOne ==
  ASSUME NEW a, NEW b, NEW c
  PROVE  << a, b >> \o << c >> = << a, b, c >>
<1> DEFINE A == {a, b, c}
           s == << a, b >>
           r == << c >>
           t == << a, b, c >>
<1>1. s \in Seq(A) /\ r \in Seq(A) /\ t \in Seq(A)
  OBVIOUS
<1>2. Len(s) = 2 /\ Len(r) = 1 /\ Len(t) = 3
  OBVIOUS
<1>3. s[1] = a /\ s[2] = b /\ r[1] = c /\ t[1] = a /\ t[2] = b /\ t[3] = c
  OBVIOUS
<1> HIDE DEF A, s, r, t
<1>4. /\ s \o r \in Seq(A) /\ Len(s \o r) = 3
      /\ \A i \in 1 .. 2 : (s \o r)[i] = s[i]
      /\ (s \o r)[2 + 1] = r[1]
  <2>1. /\ s \o r \in Seq(A) /\ Len(s \o r) = Len(s) + Len(r)
        /\ \A i \in 1 .. Len(s) : (s \o r)[i] = s[i]
        /\ \A i \in 1 .. Len(r) : (s \o r)[Len(s) + i] = r[i]
    BY <1>1, ConcatProperties
  <2>2. 1 \in 1 .. 1
    OBVIOUS
  <2> QED
    BY <1>2, <2>1, <2>2
<1>5. \A i \in 1 .. 3 : (s \o r)[i] = t[i]
  BY <1>3, <1>4
<1>6. s \o r = t
  BY <1>1, <1>2, <1>4, <1>5, SeqEqual
<1> QED
  BY <1>6 DEF s, r, t

LEMMA FnDeclStep ==
  ASSUME CInv, NEW f \in Functions, NEW params \in Parameters, compile_fn_decl(f, params)
  PROVE  CInv'
<1> DEFINE s0 == IF DeclaredIn(Innermost(symbols), f) THEN symbols
                 ELSE WithFunction(symbols, f, 0, Len(params))
           s1 == WithNewScope(s0)
           s2 == DeclaredAll(s1, params)
           b  == Innermost(s1).counter
           e  == Innermost(s2).counter
           l  == [k \in 1 .. e - b |-> WithRegister("OP_LOAD_VAR", b + k - 1, "")]
           z  == [do |-> "end_fn", name |-> f, params |-> params]
<1>1. /\ Doing("program") /\ UNCHANGED <<outcome, functions>>
      /\ symbols' = WithArgEnd(s2, f, e)
      /\ todo' = << Body, z >> \o todo
  BY DEF compile_fn_decl
<1>2. PICK g \in UninitLink : buffer' = bc_start_non_linked_chunk(EmittedAll(buffer, l, g), g)
  BY DEF compile_fn_decl
<1>3. /\ symbols \in Seq(Scope) /\ symbols # <<>> /\ OpsIn(buffer, Ops)
      /\ Registered(functions, buffer) /\ outcome = "compiling"
      /\ todo = << todo[1] >> /\ todo[1].do = "program"
      /\ Sound(buffer, {}, {}) /\ ~InFunction(buffer)
  BY <1>1, AtProgram, DoingFacts
<1>4. f \in Names /\ params \in Seq(Variables) /\ Len(params) \in Nat
  BY GrammarAssumption, NamesAssumption, LenProperties
<1>5. 0 \in RegisterIndex
  BY IndexRangeAssumption DEF RegisterIndex
<1>6. s0 \in Seq(Scope) /\ Len(s0) = Len(symbols) /\ Len(s0) > 0 /\ Len(s0) \in Nat /\ s0 # <<>>
  <2>1. Len(symbols) \in Nat /\ Len(symbols) > 0
    BY <1>3, InnermostInDomain
  <2>2. CASE DeclaredIn(Innermost(symbols), f)
    BY <1>3, <2>1, <2>2
  <2>3. CASE ~DeclaredIn(Innermost(symbols), f)
    <3> DEFINE s == WithFunction(symbols, f, 0, Len(params))
    <3>1. s \in Seq(Scope) /\ Len(s) = Len(symbols)
      BY <1>3, <1>4, <1>5, FunctionOnTop
    <3> HIDE DEF s
    <3>2. s # <<>>
      BY <2>1, <3>1, EmptySeq
    <3>3. s0 = s
      BY <2>3 DEF s
    <3> QED
      BY <2>1, <3>1, <3>2, <3>3
  <2> QED
    BY <2>2, <2>3
<1> HIDE DEF s0
<1>7. s1 \in Seq(Scope) /\ Len(s1) = Len(s0) + 1 /\ s1 # <<>>
  <2>1. s1 \in Seq(Scope) /\ Len(s1) = Len(s0) + 1
    BY <1>6, NewScopeOnTop
  <2> HIDE DEF s1
  <2> QED
    BY <1>6, <2>1, EmptySeq
<1> HIDE DEF s1
<1>8. s2 \in Seq(Scope) /\ s2 # <<>> /\ Len(s2) = Len(s1)
  BY <1>4, <1>7, DeclaredAllGrows
<1> HIDE DEF s2
<1>9. b \in Nat /\ e \in Nat /\ e \in RegisterIndex
  <2>1. Innermost(s1) \in Scope /\ Innermost(s2) \in Scope
    BY <1>7, <1>8, InnermostInDomain
  <2> QED
    BY <2>1, ScopeFields
<1> HIDE DEF b, e
<1>10. symbols' \in Seq(Scope) /\ Len(symbols') > 1
  <2>1. Len(s2) > 1
    BY <1>6, <1>7, <1>8
  <2> QED
    BY <1>1, <1>8, <1>9, <2>1, ArgEndGrows
<1>11. Len(l) \in Nat /\ \A k \in 1 .. Len(l) : Plain(l[k])
  BY <1>9, LoadsPlain
<1> HIDE DEF l
<1> DEFINE c == EmittedAll(buffer, l, g)
<1>12. Sound(c, {}, {}) /\ GoesOn(buffer, c)
  BY <1>3, <1>11, ProducedGoesOn
<1> HIDE DEF c
<1>13. ~InFunction(c) /\ OpsIn(c, Ops) /\ Typed(c) /\ g \in Nat
  BY <1>3, <1>12, SameStream, SizesAssumption DEF GoesOn, Sound
<1>14. buffer' = bc_start_non_linked_chunk(c, g)
  BY <1>2 DEF c
<1>15. Sound(buffer', {}, {}) /\ InFunction(buffer')
  BY <1>12, <1>13, <1>14, StartedSound
<1>16. DOMAIN c.chunks \subseteq DOMAIN buffer'.chunks /\ OpsIn(buffer', Ops)
  BY <1>13, <1>14, LinkOps, StartedKeeps
<1>17. Registered(functions, buffer')
  BY <1>3, <1>12, <1>16 DEF Registered, GoesOn
<1>18. z.do = "end_fn"
  OBVIOUS
<1> HIDE DEF z
<1> DEFINE y == todo[1]
           t == << Body, z, y >>
<1>19. todo' = t
  <2>1. todo = << y >> /\ todo' = << Body, z >> \o todo
    BY <1>1, <1>3
  <2> HIDE DEF y
  <2>2. << Body, z >> \o << y >> = << Body, z, y >>
    BY TwoAndOne
  <2> QED
    BY <2>1, <2>2
<1>20. /\ Queue(t) /\ InBody(t) /\ Open(t) = {} /\ Labels(t) = {} /\ Scoped(t, symbols')
  <2>1. y.do = "program"
    BY <1>3
  <2> HIDE DEF y
  <2> QED
    BY <1>10, <1>18, <2>1, FunctionQueue
<1> HIDE DEF t
<1>21. Compiling(symbols', buffer', functions, t)
  BY <1>15, <1>16, <1>17, <1>20 DEF Compiling
<1> QED
  BY <1>1, <1>3, <1>19, <1>21 DEF CInv

LEMMA EndFnStep ==
  ASSUME CInv, compile_end_fn
  PROVE  CInv'
<1>1. /\ Doing("end_fn") /\ UNCHANGED outcome
      /\ buffer' = bc_end_non_linked_chunk(bc_end_non_linked_chunk(buffer))
      /\ functions' = register_function(Head(todo).name,
                        [chunk |-> buffer.current_chunk, params |-> Head(todo).params])
      /\ symbols' = WithoutInnermost(symbols)
      /\ todo' = <<>> \o Tail(todo)
  BY DEF compile_end_fn, Then, Do
<1>2. /\ outcome = "compiling" /\ todo # <<>> /\ todo[1].do = "end_fn" /\ 1 \in DOMAIN todo
      /\ Compiling(symbols, buffer, functions, todo)
      /\ Queue(todo) /\ Scoped(todo, symbols) /\ todo \in Seq(Items(todo))
      /\ OpsIn(buffer, Ops) /\ Registered(functions, buffer)
      /\ Sound(buffer, Open(todo), Labels(todo))
  BY <1>1, DoingFacts DEF Queue
<1>3. Closes(todo[1]) /\ PlaceOf(todo[1]) = {} /\ LabelOf(todo[1]) = {}
  BY <1>2 DEF Closes, PlaceOf, LabelOf
<1>4. Len(todo) = 2 /\ DOMAIN todo = 1 .. 2
  <2> DEFINE n == Len(todo)
  <2>1. n \in Nat /\ DOMAIN todo = 1 .. n
    BY <1>2, LenProperties
  <2>2. 1 = n - 1
    BY <1>2 DEF Queue
  <2> HIDE DEF n
  <2>3. n = 2
    BY <2>1, <2>2
  <2> QED
    BY <2>1, <2>3 DEF n
<1> DEFINE r == Tail(todo)
<1>5. r = << todo[2] >> /\ todo[2].do = "program"
  <2>1. r \in Seq(Items(todo)) /\ Len(r) = 1 /\ r[1] = todo[2]
    BY <1>2, <1>4, HeadTailProperties
  <2> HIDE DEF r
  <2> DEFINE a == todo[2]
  <2>2. r = << a >>
    <3>1. r = [k \in 1 .. Len(r) |-> r[k]]
      BY <2>1, LenProperties
    <3>2. 1 .. 1 = {1}
      OBVIOUS
    <3>3. r = [k \in {1} |-> r[k]]
      BY <2>1, <3>1, <3>2
    <3>4. r[1] = a
      BY <2>1
    <3> HIDE DEF a
    <3>5. << a >> = [k \in {1} |-> a]
      OBVIOUS
    <3> QED
      BY <3>3, <3>4, <3>5
  <2>3. 2 \in DOMAIN todo
    BY <1>4
  <2>4. todo[2].do = "program"
    BY <1>2, <1>4, <2>3 DEF Queue
  <2> QED
    BY <2>2, <2>4
<1>6. EndsWith(r, todo[2])
  BY <1>5, Listed
<1>7. /\ Queue(r) /\ ~InBody(r) /\ Open(r) = {} /\ Labels(r) = {}
  BY <1>5, <1>6, ProgramQueue
<1>8. Open(todo) = {} /\ Labels(todo) = {}
  BY <1>2, <1>3, <1>7, FirstAndRest
<1>9. Sound(buffer, {}, {}) /\ InFunction(buffer)
  BY <1>2, <1>8 DEF Compiling, InBody
<1>10. Sound(buffer', {}, {}) /\ ~InFunction(buffer') /\ buffer'.chunks = buffer.chunks
  BY <1>1, <1>9, EndedSound
<1>11. OpsIn(buffer', Ops)
  BY <1>2, <1>10 DEF OpsIn
<1>12. Registered(functions', buffer')
  <2>1. buffer.current_chunk \in DOMAIN buffer'.chunks
    BY <1>9, <1>10 DEF Sound, Typed
  <2> QED
    BY <1>1, <1>2, <1>10, <2>1 DEF Registered, register_function
<1>13. Scoped(<<>> \o r, symbols')
  BY <1>1, <1>2, <1>3, ScopedLeft
<1>14. <<>> \o r = r
  BY <1>7, ConcatEmptySeq DEF Queue
<1> HIDE DEF r
<1>15. Compiling(symbols', buffer', functions', r)
  BY <1>7, <1>10, <1>11, <1>12, <1>13, <1>14 DEF Compiling
<1> QED
  BY <1>1, <1>2, <1>14, <1>15 DEF CInv, r

-----------------------------------------------------------------------------
LEMMA CompilerStarts ==
  ASSUME CompilerInit
  PROVE  CInv
<1>1. /\ ctx_init /\ todo = << [do |-> "program"] >> /\ outcome = "compiling"
  BY DEF CompilerInit
<1> DEFINE z == [do |-> "program"]
           s0 == << [symbols |-> {}, counter |-> 0] >>
<1>2. PICK e \in UninitIndex : symbols = WithFunction(s0, "print", e, 1)
  BY <1>1 DEF ctx_init
<1>3. PICK g \in UninitLink : buffer = bc_buffer_create(g)
  BY <1>1 DEF ctx_init
<1>4. functions = [n \in {"print"} |-> [chunk |-> 0, params |-> <<>>]]
  BY <1>1 DEF ctx_init
<1>5. s0 \in Seq(Scope) /\ s0 # <<>> /\ Len(s0) = 1
  <2>1. [symbols |-> {}, counter |-> 0] \in Scope
    BY IndexRangeAssumption DEF Scope, RegisterIndex
  <2> QED
    BY <2>1
<1> HIDE DEF s0
<1>6. symbols \in Seq(Scope) /\ symbols # <<>>
  <2>1. e \in RegisterIndex /\ "print" \in Names /\ 1 \in Nat
    BY UninitInRange, NamesAssumption
  <2> DEFINE s == WithFunction(s0, "print", e, 1)
  <2>2. s \in Seq(Scope) /\ Len(s) = 1
    BY <1>5, <2>1, FunctionOnTop
  <2> HIDE DEF s
  <2>3. s # <<>>
    BY <2>2, EmptySeq
  <2> QED
    BY <1>2, <2>2, <2>3 DEF s
<1>7. g \in Nat
  BY SizesAssumption
<1>8. Sound(buffer, {}, {}) /\ ~InFunction(buffer) /\ OpsIn(buffer, Ops)
  BY <1>3, <1>7, CreatedSound, CreatedOps
<1>9. Registered(functions, buffer)
  BY <1>4 DEF Registered
<1>10. z.do = "program"
  OBVIOUS
<1>11. todo = << z >>
  BY <1>1
<1> HIDE DEF z
<1>12. EndsWith(todo, z)
  BY <1>11, Listed
<1>13. /\ Queue(todo) /\ ~InBody(todo) /\ Open(todo) = {} /\ Labels(todo) = {}
       /\ \A k \in DOMAIN todo : ~Closes(todo[k])
  BY <1>10, <1>12, ProgramQueue
<1>14. Scoped(todo, symbols)
  BY <1>6, <1>13, NothingLeftToClose
<1>15. Compiling(symbols, buffer, functions, todo)
  BY <1>8, <1>9, <1>13, <1>14 DEF Compiling
<1> QED
  BY <1>1, <1>15 DEF CInv

(* Every handler preserves the invariant. *)
LEMMA CompilerPreserves ==
  ASSUME CInv, compile_node
  PROVE  CInv'
<1>1. CASE compile_expression
  <2>1. CASE compile_literal
    BY <2>1, LiteralStep
  <2>2. CASE compile_unary_op
    BY <2>2, UnaryStep
  <2>3. CASE compile_ternary_op
    BY <2>3, TernaryStep
  <2>4. CASE compile_true_expr
    BY <2>4, TrueExprStep
  <2>5. CASE compile_false_expr
    BY <2>5, FalseExprStep
  <2>6. CASE compile_end_ternary
    BY <2>6, EndTernaryStep
  <2>7. CASE compile_assign_other
    BY <2>7, AssignOtherStep
  <2>8. CASE compile_assign_store
    BY <2>8, AssignStoreStep
  <2>9. CASE emit
    BY <2>9, EmitStep
  <2>10. CASE compile_error
    BY <2>10, ErrorStep
  <2>11. CASE \E op \in BinaryOps : compile_binary_op(op)
    BY <2>11, BinaryStep
  <2>12. CASE \E n \in Variables : compile_symbol(n)
    BY <2>12, SymbolStep
  <2>13. CASE \E n \in UserNames : compile_assign(n)
    BY <2>13, AssignStep
  <2>14. CASE \E f \in Functions \union {"print"} : compile_call(f)
    BY <2>14, CallStep
  <2> QED
    BY <1>1, <2>1, <2>2, <2>3, <2>4, <2>5, <2>6, <2>7, <2>8, <2>9, <2>10, <2>11, <2>12, <2>13,
       <2>14 DEF compile_expression
<1>2. CASE compile_statement
  <2>1. CASE compile_expression_statement
    BY <2>1, ExpressionStatementStep
  <2>2. CASE compile_block
    BY <2>2, BlockStep
  <2>3. CASE compile_next_statement
    <3>1. Doing("statements") \/ Doing("program")
      BY <2>3 DEF compile_next_statement
    <3> QED
      BY <2>3, <3>1, NextStatementStep, ProgramStep
  <2>4. CASE compile_return
    BY <2>4, ReturnStep
  <2>5. CASE compile_if
    BY <2>5, IfStep
  <2>6. CASE compile_then_branch
    BY <2>6, ThenBranchStep
  <2>7. CASE compile_else_branch
    BY <2>7, ElseBranchStep
  <2>8. CASE compile_end_if
    BY <2>8, EndIfStep
  <2>9. CASE compile_for_body
    BY <2>9, ForBodyStep
  <2>10. CASE compile_end_for
    BY <2>10, EndForStep
  <2>11. CASE \E n \in Variables : compile_var_decl(n)
    BY <2>11, VarDeclStep
  <2>12. CASE \E n \in Variables : compile_for(n)
    BY <2>12, ForStep
  <2>13. CASE compile_ast_end
    BY <2>13, AstEndStep
  <2>14. CASE compile_end_fn
    BY <2>14, EndFnStep
  <2>15. CASE \E f \in Functions, ps \in Parameters : compile_fn_decl(f, ps)
    BY <2>15, FnDeclStep
  <2> QED
    BY <1>2, <2>1, <2>2, <2>3, <2>4, <2>5, <2>6, <2>7, <2>8, <2>9, <2>10, <2>11, <2>12, <2>13,
       <2>14, <2>15 DEF compile_statement
<1> QED
  BY <1>1, <1>2 DEF compile_node
=============================================================================
