------------------------------- MODULE TigeProofs -------------------------------
(***************************************************************************)
(* What the machine may rely on, for every program the compiler accepts:   *)
(* it stays within the chunks, within its stacks and on instructions.      *)
(***************************************************************************)
EXTENDS Tige, CompilerProofs

-----------------------------------------------------------------------------
Shaped(m) ==
  m = [chunk |-> m.chunk, ip |-> m.ip, sp |-> m.sp, values |-> m.values,
       sp_reset |-> m.sp_reset, registers |-> m.registers, frames |-> m.frames]

AfterCall(b, frame) ==
  /\ frame.chunk \in DOMAIN b.chunks
  /\ \E o \in DOMAIN b.chunks[frame.chunk].code :
       LET i == b.chunks[frame.chunk].code[o] IN i.op = "OP_CALL" /\ o + i.len = frame.ip

\* The machine is within the chunks and its stacks, and knows where to return to.
Fine(b, m) ==
  /\ Shaped(m)
  /\ m.chunk \in DOMAIN b.chunks /\ m.ip \in Nat
  /\ m.values \in Seq(Items(m.values))
  /\ m.sp \in 0 .. Len(m.values)
  /\ m.sp_reset \in {Unset} \union 0 .. Len(m.values)
  /\ m.frames \in Seq(Items(m.frames))
  /\ \A i \in DOMAIN m.frames : AfterCall(b, m.frames[i])

\* Between two instructions of its chunk, or before the first or after the last.
AtEdge(b, m) ==
  m.ip \in DOMAIN b.chunks[m.chunk].code \union {b.chunks[m.chunk].size}

\* At an instruction, unless the chunk has none.
AtInstruction(b, m) ==
  b.chunks[m.chunk].size > 0 => m.ip \in DOMAIN b.chunks[m.chunk].code

\* The inductive invariant of the interpreter.
TInv ==
  /\ CInv
  /\ status \in Statuses
  /\ status # "off" => outcome = "compiled" /\ Fine(buffer, vm)
  /\ status = "running" => AtInstruction(buffer, vm)

-----------------------------------------------------------------------------
(* What the handlers change of the machine. *)
LEMMA Moved ==
  ASSUME NEW m, Shaped(m), NEW c
  PROVE  LET d == [m EXCEPT !.chunk = c] IN
         /\ Shaped(d) /\ d.chunk = c /\ d.ip = m.ip /\ d.sp = m.sp /\ d.values = m.values
         /\ d.sp_reset = m.sp_reset /\ d.frames = m.frames
  BY DEF Shaped

LEMMA Repositioned ==
  ASSUME NEW m, Shaped(m), NEW p
  PROVE  LET d == [m EXCEPT !.ip = p] IN
         /\ Shaped(d) /\ d.chunk = m.chunk /\ d.ip = p /\ d.sp = m.sp /\ d.values = m.values
         /\ d.sp_reset = m.sp_reset /\ d.frames = m.frames
  BY DEF Shaped

LEMMA Refilled ==
  ASSUME NEW m, Shaped(m), NEW q
  PROVE  LET d == [m EXCEPT !.values = q] IN
         /\ Shaped(d) /\ d.chunk = m.chunk /\ d.ip = m.ip /\ d.sp = m.sp /\ d.values = q
         /\ d.sp_reset = m.sp_reset /\ d.frames = m.frames
  BY DEF Shaped

LEMMA Lowered ==
  ASSUME NEW m, Shaped(m), NEW h
  PROVE  LET d == [m EXCEPT !.sp = h] IN
         /\ Shaped(d) /\ d.chunk = m.chunk /\ d.ip = m.ip /\ d.sp = h /\ d.values = m.values
         /\ d.sp_reset = m.sp_reset /\ d.frames = m.frames
  BY DEF Shaped

LEMMA Saved ==
  ASSUME NEW m, Shaped(m), NEW h
  PROVE  LET d == [m EXCEPT !.sp_reset = h] IN
         /\ Shaped(d) /\ d.chunk = m.chunk /\ d.ip = m.ip /\ d.sp = m.sp /\ d.values = m.values
         /\ d.sp_reset = h /\ d.frames = m.frames
  BY DEF Shaped

LEMMA Stored ==
  ASSUME NEW m, Shaped(m), NEW r
  PROVE  LET d == [m EXCEPT !.registers = r] IN
         /\ Shaped(d) /\ d.chunk = m.chunk /\ d.ip = m.ip /\ d.sp = m.sp /\ d.values = m.values
         /\ d.sp_reset = m.sp_reset /\ d.frames = m.frames
  BY DEF Shaped

LEMMA Reframed ==
  ASSUME NEW m, Shaped(m), NEW f
  PROVE  LET d == [m EXCEPT !.frames = f] IN
         /\ Shaped(d) /\ d.chunk = m.chunk /\ d.ip = m.ip /\ d.sp = m.sp /\ d.values = m.values
         /\ d.sp_reset = m.sp_reset /\ d.frames = f
  BY DEF Shaped

-----------------------------------------------------------------------------
(* Lists whose elements nothing is known of. *)
LEMMA ListFacts ==
  ASSUME NEW q, q \in Seq(Items(q))
  PROVE  /\ Len(q) \in Nat /\ DOMAIN q = 1 .. Len(q)
         /\ \A v : /\ Append(q, v) \in Seq(Items(Append(q, v)))
                   /\ Len(Append(q, v)) = Len(q) + 1
         /\ \A v : \A k \in 1 .. Len(q) :
              /\ [q EXCEPT ![k] = v] \in Seq(Items([q EXCEPT ![k] = v]))
              /\ Len([q EXCEPT ![k] = v]) = Len(q)
<1>1. Len(q) \in Nat /\ DOMAIN q = 1 .. Len(q)
  BY LenProperties
<1>2. ASSUME NEW t, NEW A, t \in Seq(A) PROVE t \in Seq(Items(t))
  <2>1. Len(t) \in Nat /\ DOMAIN t = 1 .. Len(t) /\ t = [k \in 1 .. Len(t) |-> t[k]]
    BY <1>2, LenProperties
  <2>2. \A k \in 1 .. Len(t) : t[k] \in Items(t)
    BY <2>1 DEF Items
  <2> QED
    BY <2>1, <2>2, IsASeq
<1>3. ASSUME NEW v PROVE q \in Seq(Items(q) \union {v})
  <2> DEFINE A == Items(q) \union {v}
  <2>1. q = [k \in 1 .. Len(q) |-> q[k]]
    BY LenProperties
  <2>2. \A k \in 1 .. Len(q) : q[k] \in A
    BY <1>1 DEF Items
  <2> HIDE DEF A
  <2>3. [k \in 1 .. Len(q) |-> q[k]] \in Seq(A)
    BY <1>1, <2>2, IsASeq
  <2> QED
    BY <2>1, <2>3 DEF A
<1>4. ASSUME NEW v
      PROVE  /\ Append(q, v) \in Seq(Items(Append(q, v)))
             /\ Len(Append(q, v)) = Len(q) + 1
             /\ \A k \in 1 .. Len(q) :
                  /\ [q EXCEPT ![k] = v] \in Seq(Items([q EXCEPT ![k] = v]))
                  /\ Len([q EXCEPT ![k] = v]) = Len(q)
  <2> DEFINE A == Items(q) \union {v}
  <2>1. q \in Seq(A) /\ v \in A
    BY <1>3
  <2> HIDE DEF A
  <2>2. Append(q, v) \in Seq(A) /\ Len(Append(q, v)) = Len(q) + 1
    BY <2>1, AppendProperties
  <2>3. \A k \in 1 .. Len(q) : /\ [q EXCEPT ![k] = v] \in Seq(A)
                               /\ Len([q EXCEPT ![k] = v]) = Len(q)
    BY <2>1, ExceptSeq
  <2> QED
    BY <1>2, <2>2, <2>3
<1> QED
  BY <1>1, <1>4

LEMMA FirstFrame ==
  ASSUME NEW q, q \in Seq(Items(q)), NEW v
  PROVE  LET t == << v >> \o q IN
         /\ t \in Seq(Items(t))
         /\ \A i \in DOMAIN t : t[i] = v \/ \E j \in DOMAIN q : t[i] = q[j]
<1> DEFINE A == Items(q) \union {v}
           s == << v >>
           t == s \o q
<1>1. Len(q) \in Nat /\ DOMAIN q = 1 .. Len(q) /\ q = [k \in 1 .. Len(q) |-> q[k]]
  BY LenProperties
<1>2. \A k \in 1 .. Len(q) : q[k] \in A
  BY <1>1 DEF Items
<1>3. Len(s) = 1 /\ s[1] = v
  OBVIOUS
<1>0. s \in Seq(A)
  OBVIOUS
<1> HIDE DEF A, s
<1>4. q \in Seq(A)
  <2>1. [k \in 1 .. Len(q) |-> q[k]] \in Seq(A)
    BY <1>1, <1>2, IsASeq
  <2> QED
    BY <1>1, <2>1
<1>5. /\ t \in Seq(A) /\ Len(t) = Len(s) + Len(q)
      /\ \A i \in 1 .. Len(s) : t[i] = s[i]
      /\ \A i \in 1 .. Len(q) : t[Len(s) + i] = q[i]
  BY <1>0, <1>4, ConcatProperties
<1> HIDE DEF t
<1>6. DOMAIN t = 1 .. Len(t) /\ t = [k \in 1 .. Len(t) |-> t[k]] /\ Len(t) \in Nat
  BY <1>5, LenProperties
<1>7. \A k \in 1 .. Len(t) : t[k] \in Items(t)
  BY <1>6 DEF Items
<1>8. t \in Seq(Items(t))
  <2>1. [k \in 1 .. Len(t) |-> t[k]] \in Seq(Items(t))
    BY <1>6, <1>7, IsASeq
  <2> QED
    BY <1>6, <2>1
<1>9. ASSUME NEW i \in DOMAIN t PROVE t[i] = v \/ \E j \in DOMAIN q : t[i] = q[j]
  <2>1. i = 1 \/ (i - 1 \in 1 .. Len(q) /\ Len(s) + (i - 1) = i)
    BY <1>1, <1>3, <1>5, <1>6
  <2>2. CASE i = 1
    <3>1. 1 \in 1 .. Len(s)
      BY <1>3
    <3> QED
      BY <1>3, <1>5, <2>2, <3>1
  <2>3. CASE i - 1 \in 1 .. Len(q) /\ Len(s) + (i - 1) = i
    BY <1>1, <1>5, <2>3
  <2> QED
    BY <2>1, <2>2, <2>3
<1> QED
  BY <1>8, <1>9 DEF t, s

LEMMA OtherFrames ==
  ASSUME NEW q, q \in Seq(Items(q)), q # <<>>
  PROVE  LET t == Tail(q) IN
         /\ t \in Seq(Items(t)) /\ 1 \in DOMAIN q /\ Head(q) = q[1]
         /\ \A i \in DOMAIN t : \E j \in DOMAIN q : t[i] = q[j]
<1> DEFINE t == Tail(q)
<1>1. Len(q) \in Nat /\ Len(q) > 0 /\ DOMAIN q = 1 .. Len(q)
  BY EmptySeq, LenProperties
<1>2. /\ t \in Seq(Items(q)) /\ Len(t) = Len(q) - 1 /\ Head(q) = q[1]
      /\ \A k \in 1 .. Len(q) - 1 : t[k] = q[k + 1]
  BY HeadTailProperties
<1> HIDE DEF t
<1>3. DOMAIN t = 1 .. Len(t) /\ t = [k \in 1 .. Len(t) |-> t[k]] /\ Len(t) \in Nat
  BY <1>2, LenProperties
<1>4. \A k \in 1 .. Len(t) : t[k] \in Items(t)
  BY <1>3 DEF Items
<1>5. t \in Seq(Items(t))
  <2>1. [k \in 1 .. Len(t) |-> t[k]] \in Seq(Items(t))
    BY <1>3, <1>4, IsASeq
  <2> QED
    BY <1>3, <2>1
<1>6. \A i \in DOMAIN t : i + 1 \in DOMAIN q /\ t[i] = q[i + 1]
  BY <1>1, <1>2, <1>3
<1> QED
  BY <1>1, <1>2, <1>5, <1>6 DEF t

-----------------------------------------------------------------------------
(* Pushing and popping stay within the values the stack holds. *)
LEMMA PushedFine ==
  ASSUME NEW b, NEW m, Fine(b, m), NEW v
  PROVE  LET d == vm_push(m, v) IN Fine(b, d) /\ d.chunk = m.chunk /\ d.ip = m.ip
<1> DEFINE q == IF m.sp < Len(m.values) THEN [m.values EXCEPT ![m.sp + 1] = v]
                ELSE Append(m.values, v)
           e == [m EXCEPT !.sp = m.sp + 1]
           d == [e EXCEPT !.values = q]
<1>1. d = vm_push(m, v)
  BY DEF vm_push
<1>2. /\ m.values \in Seq(Items(m.values)) /\ Len(m.values) \in Nat
      /\ m.sp \in 0 .. Len(m.values) /\ Shaped(m)
  BY ListFacts DEF Fine
<1>3. q \in Seq(Items(q)) /\ Len(q) \in Nat /\ Len(q) >= Len(m.values) /\ m.sp + 1 \in 0 .. Len(q)
  <2>1. CASE m.sp < Len(m.values)
    <3>1. m.sp + 1 \in 1 .. Len(m.values)
      BY <1>2, <2>1
    <3> DEFINE r == [m.values EXCEPT ![m.sp + 1] = v]
    <3>2. r \in Seq(Items(r)) /\ Len(r) = Len(m.values)
      BY <1>2, <3>1, ListFacts
    <3>3. q = r
      BY <2>1
    <3> HIDE DEF q, r
    <3>4. q \in Seq(Items(q)) /\ Len(q) = Len(m.values)
      BY <3>2, <3>3
    <3> QED
      BY <1>2, <3>1, <3>4
  <2>2. CASE ~(m.sp < Len(m.values))
    <3> DEFINE r == Append(m.values, v)
    <3>1. r \in Seq(Items(r)) /\ Len(r) = Len(m.values) + 1
      BY <1>2, ListFacts
    <3>2. q = r
      BY <2>2
    <3> HIDE DEF q, r
    <3>3. q \in Seq(Items(q)) /\ Len(q) = Len(m.values) + 1
      BY <3>1, <3>2
    <3> QED
      BY <1>2, <3>3
  <2> QED
    BY <2>1, <2>2
<1> HIDE DEF q
<1>4. /\ Shaped(d) /\ d.chunk = m.chunk /\ d.ip = m.ip /\ d.sp = m.sp + 1 /\ d.values = q
      /\ d.sp_reset = m.sp_reset /\ d.frames = m.frames
  <2>1. /\ Shaped(e) /\ e.chunk = m.chunk /\ e.ip = m.ip /\ e.sp = m.sp + 1
        /\ e.sp_reset = m.sp_reset /\ e.frames = m.frames
    BY <1>2, Lowered, SMTT(30)
  <2> HIDE DEF e
  <2>2. /\ Shaped(d) /\ d.chunk = e.chunk /\ d.ip = e.ip /\ d.sp = e.sp /\ d.values = q
        /\ d.sp_reset = e.sp_reset /\ d.frames = e.frames
    BY <2>1, Refilled
  <2> QED
    BY <2>1, <2>2
<1> HIDE DEF d
<1>5. d.sp_reset \in {Unset} \union 0 .. Len(d.values)
  <2>1. m.sp_reset \in {Unset} \union 0 .. Len(m.values)
    BY DEF Fine
  <2> QED
    BY <1>2, <1>3, <1>4, <2>1
<1>6. Fine(b, d)
  BY <1>3, <1>4, <1>5 DEF Fine
<1> QED
  BY <1>1, <1>4, <1>6

LEMMA PoppedFine ==
  ASSUME NEW b, NEW m, Fine(b, m)
  PROVE  LET d == vm_pop(m) IN Fine(b, d) /\ d.chunk = m.chunk /\ d.ip = m.ip
<1> DEFINE h == IF m.sp = 0 THEN 0 ELSE m.sp - 1
           d == [m EXCEPT !.sp = h]
<1>1. d = vm_pop(m)
  BY DEF vm_pop
<1>2. Len(m.values) \in Nat /\ m.sp \in 0 .. Len(m.values) /\ Shaped(m)
  BY ListFacts DEF Fine
<1>3. h \in 0 .. Len(m.values)
  BY <1>2
<1> HIDE DEF h
<1>4. /\ Shaped(d) /\ d.chunk = m.chunk /\ d.ip = m.ip /\ d.sp = h /\ d.values = m.values
      /\ d.sp_reset = m.sp_reset /\ d.frames = m.frames
  BY <1>2, Lowered
<1> HIDE DEF d
<1>5. Fine(b, d)
  BY <1>3, <1>4 DEF Fine
<1> QED
  BY <1>1, <1>4, <1>5

LEMMA StoredFine ==
  ASSUME NEW b, NEW m, Fine(b, m), NEW r
  PROVE  LET d == [m EXCEPT !.registers = r] IN Fine(b, d) /\ d.chunk = m.chunk /\ d.ip = m.ip
<1> DEFINE d == [m EXCEPT !.registers = r]
<1>1. Shaped(m)
  BY DEF Fine
<1>2. /\ Shaped(d) /\ d.chunk = m.chunk /\ d.ip = m.ip /\ d.sp = m.sp /\ d.values = m.values
      /\ d.sp_reset = m.sp_reset /\ d.frames = m.frames
  BY <1>1, Stored
<1> HIDE DEF d
<1>3. Fine(b, d)
  BY <1>2 DEF Fine
<1> QED
  BY <1>2, <1>3 DEF d

\* The machine, sent to position p of chunk c.
Sent(m, c, p) == [m EXCEPT !.chunk = c, !.ip = p]

LEMMA SentFine ==
  ASSUME NEW b, NEW m, Fine(b, m), NEW c \in DOMAIN b.chunks, NEW p \in Nat
  PROVE  LET d == Sent(m, c, p) IN Fine(b, d) /\ d.chunk = c /\ d.ip = p
<1> DEFINE e == [m EXCEPT !.chunk = c]
           d == [e EXCEPT !.ip = p]
<1>0. Shaped(m)
  BY DEF Fine
<1>1. /\ Shaped(e) /\ e.chunk = c /\ e.sp = m.sp /\ e.values = m.values
      /\ e.sp_reset = m.sp_reset /\ e.frames = m.frames
  BY <1>0, Moved
<1>2. d = Sent(m, c, p)
  BY DEF Sent
<1> HIDE DEF e
<1>3. /\ Shaped(d) /\ d.chunk = e.chunk /\ d.ip = p /\ d.sp = e.sp /\ d.values = e.values
      /\ d.sp_reset = e.sp_reset /\ d.frames = e.frames
  BY <1>1, Repositioned
<1> HIDE DEF d
<1>4. Fine(b, d)
  BY <1>1, <1>3 DEF Fine
<1> QED
  BY <1>1, <1>2, <1>3, <1>4

\* The machine with its call frames replaced.
LEMMA ReframedFine ==
  ASSUME NEW b, NEW m, Fine(b, m),
         NEW f, f \in Seq(Items(f)), \A i \in DOMAIN f : AfterCall(b, f[i])
  PROVE  LET d == [m EXCEPT !.frames = f] IN Fine(b, d)
<1> DEFINE d == [m EXCEPT !.frames = f]
<1>0. Shaped(m)
  BY DEF Fine
<1>1. /\ Shaped(d) /\ d.chunk = m.chunk /\ d.ip = m.ip /\ d.sp = m.sp /\ d.values = m.values
      /\ d.sp_reset = m.sp_reset /\ d.frames = f
  BY <1>0, Reframed
<1> HIDE DEF d
<1>2. Fine(b, d)
  BY <1>1 DEF Fine
<1> QED
  BY <1>2 DEF d

\* The machine, sent to position p of chunk c, with other call frames.
Framed(m, f, c, p) == [m EXCEPT !.frames = f, !.chunk = c, !.ip = p]

LEMMA FramedFine ==
  ASSUME NEW b, NEW m, Fine(b, m), NEW c \in DOMAIN b.chunks, NEW p \in Nat,
         NEW f, f \in Seq(Items(f)), \A i \in DOMAIN f : AfterCall(b, f[i])
  PROVE  LET d == Framed(m, f, c, p) IN Fine(b, d) /\ d.chunk = c /\ d.ip = p
<1> DEFINE e == [m EXCEPT !.frames = f]
           d == Sent(e, c, p)
<1>1. Fine(b, e)
  BY ReframedFine
<1>2. d = Framed(m, f, c, p)
  BY DEF Framed, Sent
<1> HIDE DEF e
<1>3. Fine(b, d) /\ d.chunk = c /\ d.ip = p
  BY <1>1, SentFine
<1> QED
  BY <1>2, <1>3

\* The machine with the height h of the stack.
LEMMA LoweredFine ==
  ASSUME NEW b, NEW m, Fine(b, m), NEW h \in 0 .. Len(m.values)
  PROVE  LET d == [m EXCEPT !.sp = h] IN Fine(b, d) /\ d.chunk = m.chunk /\ d.ip = m.ip
<1> DEFINE d == [m EXCEPT !.sp = h]
<1>0. Shaped(m)
  BY DEF Fine
<1>1. /\ Shaped(d) /\ d.chunk = m.chunk /\ d.ip = m.ip /\ d.sp = h /\ d.values = m.values
      /\ d.sp_reset = m.sp_reset /\ d.frames = m.frames
  BY <1>0, Lowered
<1> HIDE DEF d
<1>2. Fine(b, d)
  BY <1>1 DEF Fine
<1> QED
  BY <1>1, <1>2 DEF d

\* The machine with a height of the stack to go back to.
LEMMA SavedFine ==
  ASSUME NEW b, NEW m, Fine(b, m), NEW h \in 0 .. Len(m.values)
  PROVE  LET d == [m EXCEPT !.sp_reset = h] IN Fine(b, d) /\ d.chunk = m.chunk /\ d.ip = m.ip
<1> DEFINE d == [m EXCEPT !.sp_reset = h]
<1>0. Shaped(m)
  BY DEF Fine
<1>1. /\ Shaped(d) /\ d.chunk = m.chunk /\ d.ip = m.ip /\ d.sp = m.sp /\ d.values = m.values
      /\ d.sp_reset = h /\ d.frames = m.frames
  BY <1>0, Saved
<1> HIDE DEF d
<1>2. Fine(b, d)
  BY <1>1 DEF Fine
<1> QED
  BY <1>1, <1>2 DEF d

\* The machine at another position of its chunk.
LEMMA RepositionedFine ==
  ASSUME NEW b, NEW m, Fine(b, m), NEW p \in Nat
  PROVE  LET d == [m EXCEPT !.ip = p] IN Fine(b, d) /\ d.chunk = m.chunk /\ d.ip = p
<1> DEFINE d == [m EXCEPT !.ip = p]
<1>0. Shaped(m)
  BY DEF Fine
<1>1. /\ Shaped(d) /\ d.chunk = m.chunk /\ d.ip = p /\ d.sp = m.sp /\ d.values = m.values
      /\ d.sp_reset = m.sp_reset /\ d.frames = m.frames
  BY <1>0, Repositioned
<1> HIDE DEF d
<1>2. Fine(b, d)
  BY <1>1 DEF Fine
<1> QED
  BY <1>1, <1>2 DEF d

-----------------------------------------------------------------------------
(* The turns of vm_execute.  A machine is placed where it is fine and between
   two instructions; the handlers take it to such a place again. *)
Placed(b, m) == Fine(b, m) /\ AtEdge(b, m)

\* What a turn leaves behind.
Kept ==
  /\ status' \in Statuses \ {"off"}
  /\ Fine(buffer, vm')
  /\ status' = "running" => AtInstruction(buffer, vm')

LEMMA ChunkOfCode ==
  ASSUME NEW b, NEW f, Compiled(b, f), NEW c \in DOMAIN b.chunks
  PROVE  /\ b.chunks[c].size \in Nat /\ DOMAIN b.chunks[c].code \subseteq Nat
         /\ Tiled(b.chunks[c])
         /\ \A o \in DOMAIN b.chunks[c].code :
              b.chunks[c].code[o] \in Instruction /\ b.chunks[c].code[o].op \in Ops
<1>1. b.chunks[c] \in Chunk
  BY BufferFacts DEF Compiled, Sound
<1>2. Tiled(b.chunks[c])
  BY DEF Compiled, Sound, AllTiled
<1>3. \A o \in DOMAIN b.chunks[c].code : b.chunks[c].code[o].op \in Ops
  BY DEF Compiled, OpsIn
<1> QED
  BY <1>1, <1>2, <1>3, ChunkFacts

\* A chunk's start is an edge: it has an instruction there, or none at all.
LEMMA StartIsEdge ==
  ASSUME NEW b, NEW f, Compiled(b, f), NEW m, m.chunk \in DOMAIN b.chunks, m.ip = 0
  PROVE  AtEdge(b, m) /\ AtInstruction(b, m)
<1>1. b.chunks[m.chunk].size \in Nat /\ Tiled(b.chunks[m.chunk])
  BY ChunkOfCode
<1>2. b.chunks[m.chunk].size > 0 => 0 \in DOMAIN b.chunks[m.chunk].code
  BY <1>1 DEF Tiled
<1> QED
  BY <1>1, <1>2 DEF AtEdge, AtInstruction

\* After the last instruction comes the first.
LEMMA GoKeeps ==
  ASSUME Compiled(buffer, functions), status = "running", NEW m, Placed(buffer, m), Go(m)
  PROVE  Kept
<1>1. Fine(buffer, m) /\ AtEdge(buffer, m) /\ m.chunk \in DOMAIN buffer.chunks /\ m.ip \in Nat
  BY DEF Placed, Fine
<1>2. buffer.chunks[m.chunk].size \in Nat
  BY <1>1, ChunkOfCode
<1>3. CASE m.ip >= buffer.chunks[m.chunk].size
  <2> DEFINE d == [m EXCEPT !.ip = 0]
  <2>1. vm' = d
    BY <1>3 DEF Go
  <2>2. Fine(buffer, d) /\ d.chunk = m.chunk /\ d.ip = 0
    BY <1>1, RepositionedFine
  <2> HIDE DEF d
  <2>3. AtInstruction(buffer, d)
    BY <1>1, <2>2, StartIsEdge
  <2> QED
    BY <2>1, <2>2, <2>3 DEF Go, Kept, Statuses
<1>4. CASE ~(m.ip >= buffer.chunks[m.chunk].size)
  <2>1. vm' = m
    BY <1>4 DEF Go
  <2>2. m.ip \in DOMAIN buffer.chunks[m.chunk].code
    BY <1>1, <1>2, <1>4 DEF AtEdge
  <2> QED
    BY <1>1, <2>1, <2>2 DEF Go, Kept, Statuses, AtInstruction
<1> QED
  BY <1>3, <1>4

LEMMA StopKeeps ==
  ASSUME NEW m, Fine(buffer, m), NEW why \in Statuses \ {"off", "running"}, Stop(m, why)
  PROVE  Kept
  BY DEF Stop, Kept

LEMMA BreakKeeps ==
  ASSUME NEW m, Fine(buffer, m), NEW why \in Statuses \ {"off", "running"}, Break(m, why)
  PROVE  Kept
<1>1. Fine(buffer, vm_pop(m)) /\ Stop(vm_pop(m), why)
  BY PoppedFine DEF Break
<1> QED
  BY <1>1, StopKeeps

LEMMA Endings == {"failed", "crashed", "exited", "halted", "derailed"} \subseteq Statuses \ {"off", "running"}
  BY DEF Statuses

-----------------------------------------------------------------------------
LEMMA PushedPlaced ==
  ASSUME NEW b, NEW m, Placed(b, m), NEW v
  PROVE  Placed(b, vm_push(m, v))
<1> DEFINE d == vm_push(m, v)
<1>1. Fine(b, d) /\ d.chunk = m.chunk /\ d.ip = m.ip
  BY PushedFine DEF Placed
<1> HIDE DEF d
<1>2. AtEdge(b, d)
  BY <1>1 DEF Placed, AtEdge
<1> QED
  BY <1>1, <1>2 DEF Placed, d

LEMMA PoppedPlaced ==
  ASSUME NEW b, NEW m, Placed(b, m)
  PROVE  Placed(b, vm_pop(m))
<1> DEFINE d == vm_pop(m)
<1>1. Fine(b, d) /\ d.chunk = m.chunk /\ d.ip = m.ip
  BY PoppedFine DEF Placed
<1> HIDE DEF d
<1>2. AtEdge(b, d)
  BY <1>1 DEF Placed, AtEdge
<1> QED
  BY <1>1, <1>2 DEF Placed, d

LEMMA StoredPlaced ==
  ASSUME NEW b, NEW m, Placed(b, m), NEW r
  PROVE  Placed(b, [m EXCEPT !.registers = r])
<1> DEFINE d == [m EXCEPT !.registers = r]
<1>1. Fine(b, d) /\ d.chunk = m.chunk /\ d.ip = m.ip
  BY StoredFine DEF Placed
<1> HIDE DEF d
<1>2. AtEdge(b, d)
  BY <1>1 DEF Placed, AtEdge
<1> QED
  BY <1>1, <1>2 DEF Placed, d

(* The machine stands after the instruction it has fetched. *)
LEMMA FetchFacts ==
  ASSUME Compiled(buffer, functions), Fine(buffer, vm), NEW ops, Fetching(ops)
  PROVE  /\ status = "running" /\ Fetched.op \in ops /\ Fetched \in Instruction
         /\ vm.chunk \in DOMAIN buffer.chunks /\ vm.ip \in DOMAIN buffer.chunks[vm.chunk].code
         /\ Fetched = buffer.chunks[vm.chunk].code[vm.ip]
         /\ Placed(buffer, Advanced)
         /\ Advanced.chunk = vm.chunk /\ Advanced.ip = vm.ip + Fetched.len
         /\ Advanced.sp = vm.sp /\ Advanced.values = vm.values
         /\ Advanced.frames = vm.frames /\ Advanced.sp_reset = vm.sp_reset
<1>1. /\ status = "running" /\ vm.ip \in DOMAIN buffer.chunks[vm.chunk].code /\ Fetched.op \in ops
      /\ Fetched = buffer.chunks[vm.chunk].code[vm.ip]
  BY DEF Fetching, Decodable, Code, Fetched
<1>2. vm.chunk \in DOMAIN buffer.chunks /\ vm.ip \in Nat /\ Shaped(vm)
  BY DEF Fine
<1>3. Fetched \in Instruction /\ Tiled(buffer.chunks[vm.chunk])
  BY <1>1, <1>2, ChunkOfCode
<1>4. Fetched.len \in Nat
  BY <1>3, InstructionFacts
<1> DEFINE p == vm.ip + Fetched.len
           d == [vm EXCEPT !.ip = p]
<1>5. d = Advanced
  BY DEF Advanced
<1>6. p \in Nat /\ p \in DOMAIN buffer.chunks[vm.chunk].code \union {buffer.chunks[vm.chunk].size}
  BY <1>1, <1>2, <1>3, <1>4, SMTT(30) DEF Tiled
<1> HIDE DEF p
<1>7. /\ d.chunk = vm.chunk /\ d.ip = p /\ d.sp = vm.sp /\ d.values = vm.values
      /\ d.sp_reset = vm.sp_reset /\ d.frames = vm.frames
  BY <1>2, Repositioned
<1>8. Fine(buffer, d)
  BY <1>6, RepositionedFine
<1> HIDE DEF d
<1>9. Placed(buffer, d)
  BY <1>6, <1>7, <1>8 DEF Placed, AtEdge
<1> QED
  BY <1>1, <1>2, <1>3, <1>5, <1>7, <1>9 DEF p

-----------------------------------------------------------------------------
(* One lemma per handler. *)
LEMMA PushingKeeps ==
  ASSUME Compiled(buffer, functions), Fine(buffer, vm), NEW ops, Fetching(ops),
         NEW v, Go(vm_push(Advanced, v))
  PROVE  Kept
<1>1. status = "running" /\ Placed(buffer, Advanced)
  BY FetchFacts
<1>2. Placed(buffer, vm_push(Advanced, v))
  BY <1>1, PushedPlaced
<1> QED
  BY <1>1, <1>2, GoKeeps

LEMMA LoadConstKeeps ==
  ASSUME Compiled(buffer, functions), Fine(buffer, vm), handle_load_const
  PROVE  Kept
  BY PushingKeeps DEF handle_load_const

LEMMA LoadFloatKeeps ==
  ASSUME Compiled(buffer, functions), Fine(buffer, vm), handle_load_const_float
  PROVE  Kept
  BY PushingKeeps DEF handle_load_const_float

LEMMA BinaryKeeps ==
  ASSUME Compiled(buffer, functions), Fine(buffer, vm), handle_binary
  PROVE  Kept
<1>1. status = "running" /\ Placed(buffer, Advanced)
  BY FetchFacts DEF handle_binary
<1> DEFINE d == vm_pop(vm_pop(Advanced))
<1>2. Placed(buffer, d)
  BY <1>1, PoppedPlaced
<1>3. \/ Break(Advanced, "failed") \/ Break(d, "failed")
      \/ \E r : Go(vm_push(d, r))
  BY DEF handle_binary
<1> HIDE DEF d
<1>4. CASE Break(Advanced, "failed")
  BY <1>1, <1>4, BreakKeeps, Endings DEF Placed
<1>5. CASE Break(d, "failed")
  BY <1>2, <1>5, BreakKeeps, Endings DEF Placed
<1>6. ASSUME NEW r, Go(vm_push(d, r)) PROVE Kept
  <2>1. Placed(buffer, vm_push(d, r))
    BY <1>2, PushedPlaced
  <2> QED
    BY <1>1, <1>6, <2>1, GoKeeps
<1> QED
  BY <1>3, <1>4, <1>5, <1>6

LEMMA GoOrFailKeeps ==
  ASSUME Compiled(buffer, functions), status = "running", NEW m, Placed(buffer, m),
         NEW ok, GoOrFail(m, ok)
  PROVE  Kept
<1>1. Go(m) \/ Break(m, "failed")
  BY DEF GoOrFail
<1> QED
  BY <1>1, GoKeeps, BreakKeeps, Endings DEF Placed

LEMMA NotKeeps ==
  ASSUME Compiled(buffer, functions), Fine(buffer, vm), handle_not
  PROVE  Kept
<1>1. status = "running" /\ Placed(buffer, Advanced)
  BY FetchFacts DEF handle_not
<1> DEFINE d == vm_pop(Advanced)
           e == vm_push(d, make_bool(Operand(0).v = 0))
           isBool == Operand(0).type = "VAL_BOOL"
<1>2. Placed(buffer, d)
  BY <1>1, PoppedPlaced
<1>3. Placed(buffer, e)
  BY <1>2, PushedPlaced
<1>4. Break(Advanced, "failed") \/ GoOrFail(IF isBool THEN e ELSE d, isBool)
  BY DEF handle_not
<1> HIDE DEF d, e, isBool
<1>5. CASE Break(Advanced, "failed")
  BY <1>1, <1>5, BreakKeeps, Endings DEF Placed
<1>6. CASE GoOrFail(IF isBool THEN e ELSE d, isBool)
  <2> DEFINE m == IF isBool THEN e ELSE d
  <2>1. Placed(buffer, m)
    BY <1>2, <1>3
  <2>2. GoOrFail(m, isBool)
    BY <1>6
  <2> HIDE DEF m
  <2> QED
    BY <1>1, <2>1, <2>2, GoOrFailKeeps
<1> QED
  BY <1>4, <1>5, <1>6

\* The jumps of a compiled program lead to instructions or to the end of a chunk.
LEMMA JumpTarget ==
  ASSUME Compiled(buffer, functions), NEW c \in DOMAIN buffer.chunks,
         NEW o \in DOMAIN buffer.chunks[c].code, buffer.chunks[c].code[o].op \in JumpOps
  PROVE  LET i == buffer.chunks[c].code[o] IN
         /\ i.x + 1 \in DOMAIN buffer.chunks
         /\ i.y \in DOMAIN buffer.chunks[i.x + 1].code \union {buffer.chunks[i.x + 1].size}
<1>1. Lands(buffer, buffer.chunks[c].stream, buffer.chunks[c].code[o].x + 1, buffer.chunks[c].code[o].y)
  BY DEF Compiled, Sound, JumpsLead
<1> QED
  BY <1>1 DEF Lands

LEMMA JumpToKeeps ==
  ASSUME Compiled(buffer, functions), status = "running", NEW m, Fine(buffer, m),
         NEW id, NEW y, id + 1 \in DOMAIN buffer.chunks,
         y \in DOMAIN buffer.chunks[id + 1].code \union {buffer.chunks[id + 1].size},
         JumpTo(m, id, y)
  PROVE  Kept
<1> DEFINE d == Sent(m, id + 1, y)
<1>1. y \in Nat
  BY ChunkOfCode
<1>2. Fine(buffer, d) /\ d.chunk = id + 1 /\ d.ip = y
  BY <1>1, SentFine
<1>3. Go(d)
  BY DEF JumpTo, Sent
<1> HIDE DEF d
<1>4. Placed(buffer, d)
  BY <1>2 DEF Placed, AtEdge
<1> QED
  BY <1>3, <1>4, GoKeeps

LEMMA JmpKeeps ==
  ASSUME Compiled(buffer, functions), Fine(buffer, vm), handle_jmp
  PROVE  Kept
<1>1. Fetching({"OP_JMP"}) /\ JumpTo(Advanced, Fetched.x, Fetched.y)
  BY DEF handle_jmp
<1>2. status = "running" /\ Fine(buffer, Advanced) /\ Fetched.op \in JumpOps
  BY <1>1, FetchFacts DEF JumpOps, Placed
<1>3. /\ Fetched.x + 1 \in DOMAIN buffer.chunks
      /\ Fetched.y \in DOMAIN buffer.chunks[Fetched.x + 1].code \union {buffer.chunks[Fetched.x + 1].size}
  BY <1>1, <1>2, FetchFacts, JumpTarget
<1> QED
  BY <1>1, <1>2, <1>3, JumpToKeeps

LEMMA JmpIfFalseKeeps ==
  ASSUME Compiled(buffer, functions), Fine(buffer, vm), handle_jmp_if_false
  PROVE  Kept
<1> DEFINE d == vm_pop(Advanced)
<1>1. /\ Fetching({"OP_JMP_IF_FALSE"})
      /\ \/ Break(Advanced, "failed") \/ JumpTo(d, Fetched.x, Fetched.y)
         \/ GoOrFail(d, Operand(0).type = "VAL_BOOL")
  BY DEF handle_jmp_if_false
<1>2. status = "running" /\ Placed(buffer, Advanced) /\ Fetched.op \in JumpOps
  BY <1>1, FetchFacts DEF JumpOps
<1>3. /\ Fetched.x + 1 \in DOMAIN buffer.chunks
      /\ Fetched.y \in DOMAIN buffer.chunks[Fetched.x + 1].code \union {buffer.chunks[Fetched.x + 1].size}
  BY <1>1, <1>2, FetchFacts, JumpTarget
<1>4. Placed(buffer, d)
  BY <1>2, PoppedPlaced
<1> HIDE DEF d
<1>5. CASE Break(Advanced, "failed")
  BY <1>2, <1>5, BreakKeeps, Endings DEF Placed
<1>6. CASE JumpTo(d, Fetched.x, Fetched.y)
  BY <1>2, <1>3, <1>4, <1>6, JumpToKeeps DEF Placed
<1>7. CASE GoOrFail(d, Operand(0).type = "VAL_BOOL")
  BY <1>2, <1>4, <1>7, GoOrFailKeeps
<1> QED
  BY <1>1, <1>5, <1>6, <1>7

\* A link leads to a chunk, and to its start.
LEMMA JmpAdrKeeps ==
  ASSUME Compiled(buffer, functions), Fine(buffer, vm), handle_jmp_adr
  PROVE  Kept
<1> DEFINE c == Fetched.x + 1
           d == Sent(Advanced, c, 0)
<1>1. Fetching({"OP_JMP_ADR"}) /\ Go(d)
  BY DEF handle_jmp_adr, Sent
<1>2. /\ status = "running" /\ Fine(buffer, Advanced) /\ Fetched.op = "OP_JMP_ADR"
      /\ vm.chunk \in DOMAIN buffer.chunks /\ vm.ip \in DOMAIN buffer.chunks[vm.chunk].code
      /\ Fetched = buffer.chunks[vm.chunk].code[vm.ip]
  BY <1>1, FetchFacts DEF Placed
<1>3. c \in DOMAIN buffer.chunks
  BY <1>2 DEF Compiled, Sound, LinksLead
<1> HIDE DEF c
<1>4. Fine(buffer, d) /\ d.chunk = c /\ d.ip = 0
  BY <1>2, <1>3, SentFine
<1> HIDE DEF d
<1>5. Placed(buffer, d)
  BY <1>3, <1>4, StartIsEdge DEF Placed
<1> QED
  BY <1>1, <1>2, <1>5, GoKeeps

(* print takes a value and gives one; any other function is entered at the start
   of its chunk, and the frame remembers the place after the call. *)
LEMMA PrintKeeps ==
  ASSUME Compiled(buffer, functions), status = "running", NEW m, Placed(buffer, m), std_out(m)
  PROVE  Kept
<1> DEFINE d == vm_pop(m)
           e == vm_push(d, make_null)
<1>1. Placed(buffer, d)
  BY PoppedPlaced
<1>2. Placed(buffer, e)
  BY <1>1, PushedPlaced
<1>3. Go(e) \/ Stop(d, "exited")
  BY DEF std_out
<1> HIDE DEF d, e
<1>4. CASE Go(e)
  BY <1>2, <1>4, GoKeeps
<1>5. CASE Stop(d, "exited")
  BY <1>1, <1>5, StopKeeps, Endings DEF Placed
<1> QED
  BY <1>3, <1>4, <1>5

LEMMA EnteringKeeps ==
  ASSUME Compiled(buffer, functions), Fine(buffer, vm), Fetching({"OP_CALL"}),
         Fetched.fn \in DOMAIN functions, Fetched.fn # "print",
         Go(Framed(Advanced, << push_call_frame(Advanced) >> \o Advanced.frames,
                   functions[Fetched.fn].chunk, 0))
  PROVE  Kept
<1> DEFINE frame == push_call_frame(Advanced)
           f == << frame >> \o vm.frames
           c == functions[Fetched.fn].chunk
           d == Framed(Advanced, f, c, 0)
<1>1. /\ status = "running" /\ Fine(buffer, Advanced) /\ Fetched.op = "OP_CALL"
      /\ vm.chunk \in DOMAIN buffer.chunks /\ vm.ip \in DOMAIN buffer.chunks[vm.chunk].code
      /\ Fetched = buffer.chunks[vm.chunk].code[vm.ip]
      /\ Advanced.chunk = vm.chunk /\ Advanced.ip = vm.ip + Fetched.len
      /\ Advanced.frames = vm.frames
  BY FetchFacts DEF Placed
<1>2. c \in DOMAIN buffer.chunks
  BY DEF Compiled, Registered
<1>3. frame.chunk = vm.chunk /\ frame.ip = vm.ip + Fetched.len
  BY <1>1 DEF push_call_frame
<1>4. Go(d)
  BY <1>1
<1> HIDE DEF frame, c
<1>5. AfterCall(buffer, frame)
  BY <1>1, <1>3 DEF AfterCall
<1>6. vm.frames \in Seq(Items(vm.frames)) /\ \A i \in DOMAIN vm.frames : AfterCall(buffer, vm.frames[i])
  BY DEF Fine
<1>7. /\ f \in Seq(Items(f))
      /\ \A i \in DOMAIN f : f[i] = frame \/ \E j \in DOMAIN vm.frames : f[i] = vm.frames[j]
  BY <1>6, FirstFrame
<1> HIDE DEF f
<1>8. \A i \in DOMAIN f : AfterCall(buffer, f[i])
  BY <1>5, <1>6, <1>7
<1>9. Fine(buffer, d) /\ d.chunk = c /\ d.ip = 0
  <2>1. Fine(buffer, Advanced) /\ f \in Seq(Items(f)) /\ 0 \in Nat
    BY <1>1, <1>7
  <2> QED
    BY ONLY <1>2, <1>8, <2>1, FramedFine
<1> HIDE DEF d
<1>10. Placed(buffer, d)
  BY <1>2, <1>9, StartIsEdge DEF Placed
<1> QED
  BY <1>1, <1>4, <1>10, GoKeeps

LEMMA CallKeeps ==
  ASSUME Compiled(buffer, functions), Fine(buffer, vm), handle_call
  PROVE  Kept
<1>1. Fetching({"OP_CALL"})
  BY DEF handle_call
<1>2. status = "running" /\ Placed(buffer, Advanced)
  BY <1>1, FetchFacts
<1>3. CASE Fetched.fn \notin DOMAIN functions
  <2>1. Stop(Advanced, "crashed")
    BY <1>3 DEF handle_call
  <2> QED
    BY <1>2, <2>1, StopKeeps, Endings DEF Placed
<1>4. CASE Fetched.fn \in DOMAIN functions /\ Fetched.fn = "print"
  <2>1. std_out(Advanced)
    BY <1>4 DEF handle_call
  <2> QED
    BY <1>2, <2>1, PrintKeeps
<1>5. CASE Fetched.fn \in DOMAIN functions /\ Fetched.fn # "print"
  <2>1. Go(Framed(Advanced, << push_call_frame(Advanced) >> \o Advanced.frames,
                  functions[Fetched.fn].chunk, 0))
    BY <1>5 DEF handle_call, Framed
  <2> QED
    BY <1>1, <1>5, <2>1, EnteringKeeps
<1> QED
  BY <1>3, <1>4, <1>5

\* The place after a call is an edge of the caller's chunk.
LEMMA ReturnPlace ==
  ASSUME NEW b, NEW f, Compiled(b, f), NEW frame, AfterCall(b, frame)
  PROVE  /\ frame.chunk \in DOMAIN b.chunks /\ frame.ip \in Nat
         /\ frame.ip \in DOMAIN b.chunks[frame.chunk].code \union {b.chunks[frame.chunk].size}
<1> DEFINE c == b.chunks[frame.chunk]
<1>1. frame.chunk \in DOMAIN b.chunks
  BY DEF AfterCall
<1>2. PICK o \in DOMAIN c.code : o + c.code[o].len = frame.ip
  BY DEF AfterCall
<1>3. c.size \in Nat /\ DOMAIN c.code \subseteq Nat /\ Tiled(c)
  BY <1>1, ChunkOfCode
<1> HIDE DEF c
<1>4. frame.ip = c.size \/ frame.ip \in DOMAIN c.code
  BY <1>2, <1>3 DEF Tiled
<1> QED
  BY <1>1, <1>3, <1>4 DEF c

LEMMA ReturnKeeps ==
  ASSUME Compiled(buffer, functions), Fine(buffer, vm), handle_return
  PROVE  Kept
<1> DEFINE f == Tail(vm.frames)
           frame == Head(vm.frames)
           d == Framed(Advanced, f, frame.chunk, frame.ip)
<1>1. Fetching({"OP_RETURN"})
  BY DEF handle_return
<1>2. /\ status = "running" /\ Fine(buffer, Advanced) /\ Advanced.frames = vm.frames
  BY <1>1, FetchFacts DEF Placed
<1>3. CASE vm.sp = 0 \/ vm.frames = <<>>
  <2>1. Break(Advanced, "failed")
    BY <1>3 DEF handle_return
  <2> QED
    BY <1>2, <2>1, BreakKeeps, Endings
<1>4. CASE ~(vm.sp = 0 \/ vm.frames = <<>>)
  <2>1. Go(d)
    BY <1>2, <1>4 DEF handle_return, Framed
  <2>2. vm.frames \in Seq(Items(vm.frames)) /\ \A i \in DOMAIN vm.frames : AfterCall(buffer, vm.frames[i])
    BY DEF Fine
  <2>3. /\ f \in Seq(Items(f)) /\ 1 \in DOMAIN vm.frames /\ frame = vm.frames[1]
        /\ \A i \in DOMAIN f : \E j \in DOMAIN vm.frames : f[i] = vm.frames[j]
    BY <1>4, <2>2, OtherFrames
  <2> HIDE DEF f, frame
  <2>4. (\A i \in DOMAIN f : AfterCall(buffer, f[i])) /\ AfterCall(buffer, frame)
    BY <2>2, <2>3
  <2>5. /\ frame.chunk \in DOMAIN buffer.chunks /\ frame.ip \in Nat
        /\ frame.ip \in DOMAIN buffer.chunks[frame.chunk].code \union {buffer.chunks[frame.chunk].size}
    BY <2>4, ReturnPlace
  <2>6. Fine(buffer, d) /\ d.chunk = frame.chunk /\ d.ip = frame.ip
    BY <1>2, <2>3, <2>4, <2>5, FramedFine
  <2> HIDE DEF d
  <2>7. Placed(buffer, d)
    BY <2>5, <2>6 DEF Placed, AtEdge
  <2> QED
    BY <1>2, <2>1, <2>7, GoKeeps
<1> QED
  BY <1>3, <1>4

LEMMA HaltKeeps ==
  ASSUME Compiled(buffer, functions), Fine(buffer, vm), handle_halt
  PROVE  Kept
<1>1. Fine(buffer, Advanced) /\ Break(Advanced, "halted")
  BY FetchFacts DEF handle_halt, Placed
<1> QED
  BY <1>1, BreakKeeps, Endings

LEMMA StoreVarKeeps ==
  ASSUME Compiled(buffer, functions), Fine(buffer, vm), handle_store_var
  PROVE  Kept
<1> DEFINE d == vm_pop(Advanced)
<1>1. status = "running" /\ Placed(buffer, Advanced)
  BY FetchFacts DEF handle_store_var
<1>2. Placed(buffer, d)
  BY <1>1, PoppedPlaced
<1>3. PICK v : Go([d EXCEPT !.registers[Fetched.x] = v])
  BY DEF handle_store_var
<1> HIDE DEF d
<1> DEFINE r == [d.registers EXCEPT ![Fetched.x] = v]
           e == [d EXCEPT !.registers = r]
<1>4. Go(e)
  BY <1>3
<1> HIDE DEF r
<1>5. Placed(buffer, e)
  BY <1>2, StoredPlaced
<1> HIDE DEF e
<1> QED
  BY <1>1, <1>4, <1>5, GoKeeps

LEMMA LoadVarKeeps ==
  ASSUME Compiled(buffer, functions), Fine(buffer, vm), handle_load_var
  PROVE  Kept
  BY PushingKeeps DEF handle_load_var

LEMMA IncRegKeeps ==
  ASSUME Compiled(buffer, functions), Fine(buffer, vm), handle_inc_reg
  PROVE  Kept
<1>1. status = "running" /\ Placed(buffer, Advanced)
  BY FetchFacts DEF handle_inc_reg
<1> DEFINE n == make_int(vm.registers[Fetched.x].v + 1)
           r == [Advanced.registers EXCEPT ![Fetched.x] = n]
           e == [Advanced EXCEPT !.registers = r]
<1>2. Go(Advanced) \/ Go(e)
  BY DEF handle_inc_reg
<1> HIDE DEF n, r
<1>3. Placed(buffer, e)
  BY <1>1, StoredPlaced
<1> HIDE DEF e
<1> QED
  BY <1>1, <1>2, <1>3, GoKeeps

LEMMA PopKeeps ==
  ASSUME Compiled(buffer, functions), Fine(buffer, vm), handle_pop
  PROVE  Kept
<1>1. status = "running" /\ Placed(buffer, Advanced) /\ Go(vm_pop(Advanced))
  BY FetchFacts DEF handle_pop
<1> QED
  BY <1>1, PoppedPlaced, GoKeeps

LEMMA SaveKeeps ==
  ASSUME Compiled(buffer, functions), Fine(buffer, vm), handle_save_sp
  PROVE  Kept
<1> DEFINE d == [Advanced EXCEPT !.sp_reset = vm.sp]
<1>1. /\ status = "running" /\ Placed(buffer, Advanced)
      /\ Advanced.sp = vm.sp /\ Advanced.values = vm.values
  BY FetchFacts DEF handle_save_sp
<1>2. Go(d)
  BY DEF handle_save_sp
<1>3. vm.sp \in 0 .. Len(Advanced.values)
  BY <1>1 DEF Fine
<1>4. Fine(buffer, d) /\ d.chunk = Advanced.chunk /\ d.ip = Advanced.ip
  BY <1>1, <1>3, SavedFine DEF Placed
<1> HIDE DEF d
<1>5. Placed(buffer, d)
  BY <1>1, <1>4 DEF Placed, AtEdge
<1> QED
  BY <1>1, <1>2, <1>5, GoKeeps

LEMMA ResetKeeps ==
  ASSUME Compiled(buffer, functions), Fine(buffer, vm), handle_reset_sp
  PROVE  Kept
<1> DEFINE d == [Advanced EXCEPT !.sp = vm.sp_reset]
<1>1. /\ status = "running" /\ Placed(buffer, Advanced) /\ Advanced.values = vm.values
  BY FetchFacts DEF handle_reset_sp
<1>2. CASE vm.sp_reset = Unset
  <2>1. Stop(Advanced, "derailed")
    BY <1>2 DEF handle_reset_sp
  <2> QED
    BY <1>1, <2>1, StopKeeps, Endings DEF Placed
<1>3. CASE vm.sp_reset # Unset
  <2>1. Go(d)
    BY <1>3 DEF handle_reset_sp
  <2>2. vm.sp_reset \in 0 .. Len(Advanced.values)
    BY <1>1, <1>3 DEF Fine
  <2>3. Fine(buffer, d) /\ d.chunk = Advanced.chunk /\ d.ip = Advanced.ip
    BY <1>1, <2>2, LoweredFine DEF Placed
  <2> HIDE DEF d
  <2>4. Placed(buffer, d)
    BY <1>1, <2>3 DEF Placed, AtEdge
  <2> QED
    BY <1>1, <2>1, <2>4, GoKeeps
<1> QED
  BY <1>2, <1>3

LEMMA DerailKeeps ==
  ASSUME Fine(buffer, vm), Derail
  PROVE  Kept
  BY StopKeeps, Endings DEF Derail

-----------------------------------------------------------------------------
(* A turn of vm_execute keeps the machine where it belongs. *)
LEMMA ExecuteKeeps ==
  ASSUME Compiled(buffer, functions), Fine(buffer, vm), vm_execute
  PROVE  Kept
<1>1. CASE handle_load_const
  BY <1>1, LoadConstKeeps
<1>2. CASE handle_load_const_float
  BY <1>2, LoadFloatKeeps
<1>3. CASE handle_binary
  BY <1>3, BinaryKeeps
<1>4. CASE handle_not
  BY <1>4, NotKeeps
<1>5. CASE handle_jmp
  BY <1>5, JmpKeeps
<1>6. CASE handle_jmp_adr
  BY <1>6, JmpAdrKeeps
<1>7. CASE handle_jmp_if_false
  BY <1>7, JmpIfFalseKeeps
<1>8. CASE handle_call
  BY <1>8, CallKeeps
<1>9. CASE handle_return
  BY <1>9, ReturnKeeps
<1>10. CASE handle_halt
  BY <1>10, HaltKeeps
<1>11. CASE handle_store_var
  BY <1>11, StoreVarKeeps
<1>12. CASE handle_load_var
  BY <1>12, LoadVarKeeps
<1>13. CASE handle_inc_reg
  BY <1>13, IncRegKeeps
<1>14. CASE handle_pop
  BY <1>14, PopKeeps
<1>15. CASE handle_save_sp
  BY <1>15, SaveKeeps
<1>16. CASE handle_reset_sp
  BY <1>16, ResetKeeps
<1>17. CASE Derail
  BY <1>17, DerailKeeps
<1> QED
  BY <1>1, <1>2, <1>3, <1>4, <1>5, <1>6, <1>7, <1>8, <1>9, <1>10, <1>11, <1>12, <1>13, <1>14,
     <1>15, <1>16, <1>17 DEF vm_execute

\* Nothing is compiled any more once the compiler is through.
LEMMA CompilingOnly ==
  ASSUME compile_node
  PROVE  outcome = "compiling"
<1>1. CASE compile_expression
  <2>1. \E k : Doing(k)
    BY <1>1 DEF compile_expression, compile_literal, compile_unary_op, compile_ternary_op,
       compile_true_expr, compile_false_expr, compile_end_ternary, compile_assign_other,
       compile_assign_store, emit, compile_error, compile_binary_op, compile_symbol,
       compile_assign, compile_call
  <2> QED
    BY <2>1 DEF Doing
<1>2. CASE compile_statement
  <2>1. \E k : Doing(k)
    BY <1>2 DEF compile_statement, compile_expression_statement, compile_block,
       compile_next_statement, compile_return, compile_if, compile_then_branch,
       compile_else_branch, compile_end_if, compile_for_body, compile_end_for,
       compile_var_decl, compile_for, compile_ast_end, compile_end_fn, compile_fn_decl
  <2> QED
    BY <2>1 DEF Doing
<1> QED
  BY <1>1, <1>2 DEF compile_node

LEMMA TigeStarts ==
  ASSUME Init
  PROVE  TInv
  BY CompilerStarts DEF Init, VMInit, TInv, Statuses

LEMMA CompileStep ==
  ASSUME TInv, Compile
  PROVE  TInv'
<1>1. CInv' /\ outcome = "compiling" /\ UNCHANGED status
  BY CompilerPreserves, CompilingOnly DEF TInv, Compile, machineVars
<1>2. status = "off"
  BY <1>1 DEF TInv
<1> QED
  BY <1>1, <1>2 DEF TInv, Statuses

LEMMA CInvUnchanged ==
  ASSUME CInv, UNCHANGED compilerVars
  PROVE  CInv' /\ buffer' = buffer /\ functions' = functions /\ outcome' = outcome
  BY DEF CInv, compilerVars

LEMMA CompiledCode ==
  ASSUME CInv, outcome = "compiled"
  PROVE  Compiled(buffer, functions)
  BY DEF CInv

\* The machine as it is when execution begins.
LEMMA Loaded ==
  ASSUME NEW b, NEW f, Compiled(b, f), NEW r
  PROVE  LET m == [chunk |-> b.current_chunk, ip |-> 0, sp |-> 0, values |-> <<>>,
                   sp_reset |-> Unset, registers |-> r, frames |-> <<>>]
         IN Fine(b, m) /\ AtInstruction(b, m)
<1> DEFINE m == [chunk |-> b.current_chunk, ip |-> 0, sp |-> 0, values |-> <<>>,
                 sp_reset |-> Unset, registers |-> r, frames |-> <<>>]
<1>1. Shaped(m)
  BY DEF Shaped
<1>2. m.chunk = b.current_chunk /\ m.ip = 0 /\ m.sp = 0 /\ m.values = <<>>
      /\ m.sp_reset = Unset /\ m.frames = <<>>
  OBVIOUS
<1>3. b.current_chunk \in DOMAIN b.chunks
  BY DEF Compiled, Sound, Typed
<1>4. \A S : <<>> \in Seq(S) /\ Len(<<>>) = 0 /\ DOMAIN <<>> = {}
  BY EmptySeq
<1> HIDE DEF m
<1>5. AtInstruction(b, m)
  BY <1>2, <1>3, StartIsEdge
<1>6. Fine(b, m)
  BY <1>1, <1>2, <1>3, <1>4 DEF Fine
<1> QED
  BY <1>5, <1>6 DEF m

LEMMA LoadStep ==
  ASSUME TInv, Load
  PROVE  TInv'
<1>1. /\ CInv' /\ buffer' = buffer /\ outcome' = outcome /\ outcome = "compiled"
      /\ Compiled(buffer, functions)
  BY CInvUnchanged, CompiledCode DEF TInv, Load
<1>2. Fine(buffer, vm') /\ AtInstruction(buffer, vm') /\ status' = "running"
  BY <1>1, Loaded DEF Load, vm_swap_code_buffer
<1> QED
  BY <1>1, <1>2 DEF TInv, Statuses

LEMMA ExecuteStep ==
  ASSUME TInv, Execute
  PROVE  TInv'
<1>1. status = "running"
  BY DEF Execute, vm_execute, Fetching, handle_load_const, handle_load_const_float,
     handle_binary, handle_not, handle_jmp, handle_jmp_adr, handle_jmp_if_false, handle_call,
     handle_return, handle_halt, handle_store_var, handle_load_var, handle_inc_reg, handle_pop,
     handle_save_sp, handle_reset_sp, Derail
<1>2. outcome = "compiled" /\ Fine(buffer, vm) /\ CInv
  BY <1>1 DEF TInv
<1>3. /\ CInv' /\ buffer' = buffer /\ outcome' = outcome /\ Compiled(buffer, functions)
  BY <1>2, CInvUnchanged, CompiledCode DEF Execute
<1>4. Kept
  BY <1>2, <1>3, ExecuteKeeps DEF Execute
<1> QED
  BY <1>2, <1>3, <1>4 DEF TInv, Kept

LEMMA StutterStep ==
  ASSUME TInv, UNCHANGED vars
  PROVE  TInv'
<1>1. /\ CInv' /\ buffer' = buffer /\ outcome' = outcome
  BY CInvUnchanged DEF TInv, vars, compilerVars
<1>2. vm' = vm /\ status' = status
  BY DEF vars
<1> QED
  BY <1>1, <1>2 DEF TInv

LEMMA TigePreserves ==
  ASSUME TInv, [Next]_vars
  PROVE  TInv'
  BY CompileStep, LoadStep, ExecuteStep, StutterStep DEF Next

LEMMA Invariance == Spec => []TInv
<1>1. Init => TInv
  BY TigeStarts
<1>2. TInv /\ [Next]_vars => TInv'
  BY TigePreserves
<1> QED
  BY <1>1, <1>2, PTL DEF Spec

-----------------------------------------------------------------------------
(* Whatever is compiled and executed, the machine is in an existing chunk, its
   stack pointer and the one it saved are within what the stack holds, and every
   frame belongs to an existing chunk. *)
THEOREM Typing == Spec => []TypeOK
<1>1. ASSUME TInv PROVE TypeOK
  <2>1. outcome \in {"compiling", "compiled", "rejected"} /\ Typed(buffer)
    BY <1>1 DEF TInv, CInv, Compiling, Compiled, Sound
  <2>2. buffer.current_chunk \in DOMAIN buffer.chunks
    BY <2>1 DEF Typed
  <2>3. ASSUME status # "off"
        PROVE  /\ vm.chunk \in DOMAIN buffer.chunks /\ vm.ip \in Nat
               /\ vm.sp \in 0 .. Len(vm.values)
               /\ vm.sp_reset \in {Unset} \union 0 .. Len(vm.values)
               /\ \A i \in DOMAIN vm.frames : vm.frames[i].chunk \in DOMAIN buffer.chunks
    BY <1>1, <2>3 DEF TInv, Fine, AfterCall
  <2> QED
    BY <1>1, <2>1, <2>2, <2>3 DEF TypeOK, TInv
<1> QED
  BY <1>1, Invariance, PTL

(* Every call that is being executed returns to the instruction after an OP_CALL:
   "Save the current execution context". *)
THEOREM Returns == Spec => []FramesReturnAfterCalls
<1>1. ASSUME TInv PROVE FramesReturnAfterCalls
  BY <1>1 DEF TInv, Fine, AfterCall, FramesReturnAfterCalls
<1> QED
  BY <1>1, Invariance, PTL

(* "each handler increments the ip with the required size": in programs without
   negation the machine never decodes bytes that no emission laid out as an
   instruction, wherever jumps, links, calls and returns take it. *)
THEOREM OnInstructions ==
  ASSUME "minus" \notin Constructs
  PROVE  Spec => []StaysOnInstructions
<1>1. "int64" \notin Ops
  BY OpcodesAssumption DEF Ops, Opcodes, JumpOps
<1>2. ASSUME TInv PROVE StaysOnInstructions
  <2>1. SUFFICES ASSUME Running, buffer.chunks[vm.chunk].size > 0
                 PROVE  Decodable
    BY DEF StaysOnInstructions
  <2>2. outcome = "compiled" /\ Fine(buffer, vm) /\ AtInstruction(buffer, vm) /\ CInv
    BY <1>2, <2>1 DEF TInv, Running
  <2>3. Compiled(buffer, functions) /\ vm.chunk \in DOMAIN buffer.chunks
    BY <2>2, CompiledCode DEF Fine
  <2>4. vm.ip \in DOMAIN buffer.chunks[vm.chunk].code
    BY <2>1, <2>2 DEF AtInstruction
  <2>5. buffer.chunks[vm.chunk].code[vm.ip].op \in Ops
    BY <2>3, <2>4, ChunkOfCode
  <2> QED
    BY <1>1, <2>4, <2>5 DEF Decodable, Code
<1> QED
  BY <1>2, Invariance, PTL
=============================================================================
