------------------------------ MODULE ParserProofs ------------------------------
(***************************************************************************)
(* Proofs about Parser, for all lists of tokens: the cursor stays within   *)
(* the list and every call returns one whole tree; an accepted program     *)
(* without a ternary has matching parentheses and braces; and one without  *)
(* an unfinished operator either has all its names and literals in its     *)
(* tree.                                                                   *)
(***************************************************************************)
EXTENDS Parsing, SequenceTheorems, WellFoundedInduction, TLAPS

-----------------------------------------------------------------------------
(* Induction over the naturals, with the statement as a set. *)
LEMMA SetInduction ==
  ASSUME NEW S \in SUBSET Nat, 0 \in S, \A n \in S : n + 1 \in S
  PROVE  S = Nat
<1> DEFINE R == OpToRel(<, Nat)
<1>1. IsWellFoundedOn(R, Nat)
  BY NatLessThanWellFounded
<1>2. \A x, y \in Nat : x < y => <<x, y>> \in R
  BY DEF OpToRel
<1> HIDE DEF R
<1>3. SUFFICES ASSUME Nat \ S # {} PROVE FALSE
  OBVIOUS
<1>4. PICK n \in Nat \ S : \A m \in Nat \ S : ~(<<m, n>> \in R)
  BY <1>1, <1>3, WFMin
<1>5. n \in Nat /\ n # 0 /\ n \notin S
  BY <1>4
<1>6. n - 1 \in Nat /\ n - 1 < n /\ (n - 1) + 1 = n
  BY <1>5
<1>7. n - 1 \in S
  BY <1>2, <1>4, <1>6
<1> QED
  BY <1>5, <1>6, <1>7

(* Counting the nodes that are still missing along a list of nodes t, of which
   a are missing before it. *)
Counts(t, a, h) ==
  /\ h[0] = a
  /\ \A k \in 1 .. Len(t) : h[k] = h[k - 1] - 1 + t[k].arity

\* t supplies all but b of the nodes that were missing, and not before its end.
Covers(t, a, b) ==
  \E h : /\ Counts(t, a, h) /\ h[Len(t)] = b
         /\ \A k \in 0 .. Len(t) : h[k] \in Nat /\ (k < Len(t) => h[k] > b)

Counted(t) == \A k \in 1 .. Len(t) : t[k].arity \in Nat

\* What the recursive definition in IsTree computes.
TreeCounts(t, h) == /\ Counts(t, 1, h)
                    /\ IsTree(t) <=> \A k \in 0 .. Len(t) : h[k] = 0 <=> k = Len(t)

LEMMA CountsExist ==
  ASSUME NEW t, Len(t) \in Nat
  PROVE  \E h : TreeCounts(t, h)
<1> DEFINE Fills(f, n) == f = [k \in 0 .. n |-> IF k = 0 THEN 1 ELSE f[k - 1] - 1 + t[k].arity]
           S == {n \in Nat : \E f : Fills(f, n)}
<1>1. 0 \in S
  <2> DEFINE f == [k \in 0 .. 0 |-> 1]
  <2>1. Fills(f, 0)
    OBVIOUS
  <2> QED
    BY <2>1
<1>2. ASSUME NEW n \in S PROVE n + 1 \in S
  <2>1. PICK f : Fills(f, n)
    OBVIOUS
  <2> DEFINE e == [k \in 0 .. n + 1 |-> IF k = n + 1 THEN f[n] - 1 + t[n + 1].arity ELSE f[k]]
  <2>2. \A k \in 0 .. n + 1 : e[k] = IF k = 0 THEN 1 ELSE e[k - 1] - 1 + t[k].arity
    <3> TAKE k \in 0 .. n + 1
    <3>1. n \in Nat /\ (k = n + 1 \/ k \in 0 .. n)
      OBVIOUS
    <3>2. CASE k = n + 1
      <4>1. k # 0 /\ k - 1 = n /\ k - 1 \in 0 .. n + 1 /\ k - 1 # n + 1
        BY <3>1, <3>2
      <4>2. e[k - 1] = f[n] /\ e[k] = f[n] - 1 + t[n + 1].arity
        BY <3>2, <4>1
      <4> QED
        BY <3>2, <4>1, <4>2
    <3>3. CASE k \in 0 .. n
      <4>1. e[k] = f[k] /\ f[k] = IF k = 0 THEN 1 ELSE f[k - 1] - 1 + t[k].arity
        BY <2>1, <3>1, <3>3
      <4>2. k # 0 => k - 1 \in 0 .. n + 1 /\ k - 1 # n + 1 /\ e[k - 1] = f[k - 1]
        BY <3>1, <3>3
      <4> QED
        BY <4>1, <4>2
    <3> QED
      BY <3>1, <3>2, <3>3
  <2>3. e = [k \in 0 .. n + 1 |-> e[k]]
    OBVIOUS
  <2> HIDE DEF e
  <2>4. Fills(e, n + 1)
    BY <2>2, <2>3
  <2>5. n + 1 \in Nat
    OBVIOUS
  <2> HIDE DEF Fills
  <2> QED
    BY <2>4, <2>5
<1>3. S = Nat
  <2> HIDE DEF S
  <2>1. S \in SUBSET Nat
    BY DEF S
  <2> QED
    BY <1>1, <1>2, <2>1, SetInduction
<1> DEFINE h == CHOOSE f : Fills(f, Len(t))
<1>4. Fills(h, Len(t))
  <2> HIDE DEF Fills
  <2>1. \E f : Fills(f, Len(t))
    BY <1>3
  <2> QED
    BY <2>1
<1>5. IsTree(t) <=> \A k \in 0 .. Len(t) : h[k] = 0 <=> k = Len(t)
  BY DEF IsTree
<1> HIDE DEF h
<1>6. Counts(t, 1, h)
  BY <1>4 DEF Counts
<1> QED
  BY <1>5, <1>6 DEF TreeCounts

LEMMA TreeCovers ==
  ASSUME NEW t, Len(t) \in Nat, Counted(t), IsTree(t)
  PROVE  Covers(t, 1, 0)
<1>1. PICK h : TreeCounts(t, h)
  BY CountsExist
<1>2. \A k \in 0 .. Len(t) : h[k] = 0 <=> k = Len(t)
  BY <1>1 DEF TreeCounts
<1> DEFINE S == {n \in Nat : n <= Len(t) => h[n] \in Nat}
<1>3. 0 \in S
  BY <1>1 DEF TreeCounts, Counts
<1>4. ASSUME NEW n \in S PROVE n + 1 \in S
  <2>1. SUFFICES ASSUME n + 1 <= Len(t) PROVE h[n + 1] \in Nat
    OBVIOUS
  <2>2. n \in Nat /\ n + 1 \in 1 .. Len(t) /\ (n + 1) - 1 = n /\ h[n] \in Nat /\ n # Len(t)
    BY <2>1
  <2>3. h[n] # 0
    BY <1>2, <2>2
  <2>4. h[n + 1] = h[n] - 1 + t[n + 1].arity /\ t[n + 1].arity \in Nat
    BY <1>1, <2>2 DEF TreeCounts, Counts, Counted
  <2> QED
    BY <2>2, <2>3, <2>4
<1>5. S = Nat
  <2> HIDE DEF S
  <2>1. S \in SUBSET Nat
    BY DEF S
  <2> QED
    BY <1>3, <1>4, <2>1, SetInduction
<1>6. \A k \in 0 .. Len(t) : h[k] \in Nat /\ (k < Len(t) => h[k] > 0)
  BY <1>2, <1>5
<1>7. Counts(t, 1, h) /\ h[Len(t)] = 0
  BY <1>1, <1>2 DEF TreeCounts
<1> QED
  BY <1>6, <1>7 DEF Covers

LEMMA CoversTree ==
  ASSUME NEW t, Len(t) \in Nat, Covers(t, 1, 0)
  PROVE  IsTree(t)
<1>1. PICK o : TreeCounts(t, o)
  BY CountsExist
<1>2. PICK h : /\ Counts(t, 1, h) /\ h[Len(t)] = 0
               /\ \A k \in 0 .. Len(t) : h[k] \in Nat /\ (k < Len(t) => h[k] > 0)
  BY DEF Covers
<1> DEFINE S == {n \in Nat : n <= Len(t) => o[n] = h[n]}
<1>3. 0 \in S
  BY <1>1, <1>2 DEF TreeCounts, Counts
<1>4. ASSUME NEW n \in S PROVE n + 1 \in S
  <2>1. SUFFICES ASSUME n + 1 <= Len(t) PROVE o[n + 1] = h[n + 1]
    OBVIOUS
  <2>2. n \in Nat /\ n + 1 \in 1 .. Len(t) /\ (n + 1) - 1 = n /\ o[n] = h[n]
    BY <2>1
  <2>3. o[n + 1] = o[n] - 1 + t[n + 1].arity /\ h[n + 1] = h[n] - 1 + t[n + 1].arity
    BY <1>1, <1>2, <2>2 DEF TreeCounts, Counts
  <2> QED
    BY <2>2, <2>3
<1>5. S = Nat
  <2> HIDE DEF S
  <2>1. S \in SUBSET Nat
    BY DEF S
  <2> QED
    BY <1>3, <1>4, <2>1, SetInduction
<1>6. \A k \in 0 .. Len(t) : o[k] = 0 <=> k = Len(t)
  BY <1>2, <1>5
<1> QED
  BY <1>1, <1>6 DEF TreeCounts

LEMMA CoversMore ==
  ASSUME NEW t, Len(t) \in Nat, Counted(t), NEW a \in Nat, NEW b \in Nat, Covers(t, a, b),
         NEW d \in Nat
  PROVE  Covers(t, a + d, b + d)
<1>1. PICK h : /\ Counts(t, a, h) /\ h[Len(t)] = b
               /\ \A k \in 0 .. Len(t) : h[k] \in Nat /\ (k < Len(t) => h[k] > b)
  BY DEF Covers
<1> DEFINE g == [k \in 0 .. Len(t) |-> h[k] + d]
<1>2. \A k \in 1 .. Len(t) : g[k] = g[k - 1] - 1 + t[k].arity
  <2> TAKE k \in 1 .. Len(t)
  <2>1. k \in 0 .. Len(t) /\ k - 1 \in 0 .. Len(t) /\ t[k].arity \in Nat
    BY DEF Counted
  <2>2. h[k] = h[k - 1] - 1 + t[k].arity /\ h[k - 1] \in Nat /\ h[k] \in Nat
    BY <1>1, <2>1 DEF Counts
  <2>3. g[k] = h[k] + d /\ g[k - 1] = h[k - 1] + d
    BY <2>1
  <2> HIDE DEF g
  <2>4. PICK x \in Nat, y \in Nat : x = h[k - 1] /\ y = t[k].arity
    BY <2>1, <2>2
  <2>5. (x - 1 + y) + d = (x + d) - 1 + y
    OBVIOUS
  <2> QED
    BY <2>2, <2>3, <2>4, <2>5
<1>3. g[0] = a + d /\ g[Len(t)] = b + d
  BY <1>1 DEF Counts
<1>4. \A k \in 0 .. Len(t) : g[k] \in Nat /\ (k < Len(t) => g[k] > b + d)
  BY <1>1
<1> HIDE DEF g
<1> QED
  BY <1>2, <1>3, <1>4 DEF Covers, Counts

LEMMA CoversBoth ==
  ASSUME NEW s, Len(s) \in Nat, NEW t, Len(t) \in Nat, NEW u, Len(u) = Len(s) + Len(t),
         \A k \in 1 .. Len(s) : u[k] = s[k], \A k \in 1 .. Len(t) : u[Len(s) + k] = t[k],
         NEW a \in Nat, NEW b \in Nat, NEW c \in Nat, c <= b, Covers(s, a, b), Covers(t, b, c)
  PROVE  Covers(u, a, c)
<1>1. PICK h : /\ Counts(s, a, h) /\ h[Len(s)] = b
               /\ \A k \in 0 .. Len(s) : h[k] \in Nat /\ (k < Len(s) => h[k] > b)
  BY DEF Covers
<1>2. PICK f : /\ Counts(t, b, f) /\ f[Len(t)] = c
               /\ \A k \in 0 .. Len(t) : f[k] \in Nat /\ (k < Len(t) => f[k] > c)
  BY DEF Covers
<1> DEFINE g == [k \in 0 .. Len(u) |-> IF k <= Len(s) THEN h[k] ELSE f[k - Len(s)]]
<1>3. \A k \in 0 .. Len(s) : g[k] = h[k]
  OBVIOUS
<1>4. \A k \in 0 .. Len(t) : g[Len(s) + k] = f[k]
  <2> TAKE k \in 0 .. Len(t)
  <2>1. CASE k = 0
    BY <1>1, <1>2, <1>3, <2>1 DEF Counts
  <2>2. CASE k # 0
    <3>1. Len(s) + k \in 0 .. Len(u) /\ ~(Len(s) + k <= Len(s)) /\ (Len(s) + k) - Len(s) = k
      BY <2>2
    <3> QED
      BY <3>1
  <2> QED
    BY <2>1, <2>2
<1> HIDE DEF g
<1>5. \A k \in 1 .. Len(u) : g[k] = g[k - 1] - 1 + u[k].arity
  <2> TAKE k \in 1 .. Len(u)
  <2>1. CASE k <= Len(s)
    <3>1. k \in 1 .. Len(s) /\ k \in 0 .. Len(s) /\ k - 1 \in 0 .. Len(s)
      BY <2>1
    <3>2. h[k] = h[k - 1] - 1 + s[k].arity
      BY <1>1, <3>1 DEF Counts
    <3> QED
      BY <1>3, <3>1, <3>2
  <2>2. CASE ~(k <= Len(s))
    <3> DEFINE j == k - Len(s)
    <3>1. /\ j \in 1 .. Len(t) /\ j \in 0 .. Len(t) /\ j - 1 \in 0 .. Len(t)
          /\ Len(s) + j = k /\ Len(s) + (j - 1) = k - 1
      BY <2>2
    <3> HIDE DEF j
    <3>2. f[j] = f[j - 1] - 1 + t[j].arity
      BY <1>2, <3>1 DEF Counts
    <3>3. g[k] = f[j] /\ g[k - 1] = f[j - 1] /\ u[k] = t[j]
      BY <1>4, <3>1
    <3> QED
      BY <3>2, <3>3
  <2> QED
    BY <2>1, <2>2
<1>6. g[0] = a /\ g[Len(u)] = c
  BY <1>1, <1>2, <1>3, <1>4 DEF Counts
<1>7. \A k \in 0 .. Len(u) : g[k] \in Nat /\ (k < Len(u) => g[k] > c)
  <2> TAKE k \in 0 .. Len(u)
  <2>1. CASE k < Len(s)
    <3>1. k \in 0 .. Len(s) /\ h[k] \in Nat /\ h[k] > b /\ g[k] = h[k]
      BY <1>1, <1>3, <2>1
    <3> QED
      BY <3>1
  <2>2. CASE ~(k < Len(s))
    <3> DEFINE j == k - Len(s)
    <3>1. j \in 0 .. Len(t) /\ Len(s) + j = k /\ (k < Len(u) => j < Len(t))
      BY <2>2
    <3> HIDE DEF j
    <3>2. g[k] = f[j]
      BY <1>4, <3>1
    <3> QED
      BY <1>2, <3>1, <3>2
  <2> QED
    BY <2>1, <2>2
<1> QED
  BY <1>5, <1>6, <1>7 DEF Covers, Counts
-----------------------------------------------------------------------------
(* Concatenating a list of lists from the left: h[k] is what the first k make. *)
Sums(h, parts) ==
  /\ h[0] = <<>>
  /\ \A k \in 1 .. Len(parts) : h[k] = h[k - 1] \o parts[k]

Summed(parts) == \E h : Sums(h, parts) /\ FlattenSeq(parts) = h[Len(parts)]

LEMMA FlattenSums ==
  ASSUME NEW A, NEW parts \in Seq(Seq(A))
  PROVE  Summed(parts)
<1>0. Len(parts) \in Nat /\ \A k \in 1 .. Len(parts) : parts[k] \in Seq(A)
  BY LenProperties, ElementOfSeq
<1>1. CASE Len(parts) = 0
  <2>1. FlattenSeq(parts) = parts /\ parts = <<>>
    BY <1>1, EmptySeq DEF FlattenSeq
  <2> DEFINE h == [k \in {0} |-> <<>>]
  <2>2. Sums(h, parts)
    BY <1>1 DEF Sums
  <2>3. FlattenSeq(parts) = h[Len(parts)]
    BY <1>1, <2>1
  <2> QED
    BY <2>2, <2>3 DEF Summed
<1>2. CASE Len(parts) # 0
  <2> DEFINE Fills(f, n) == f = [i \in 1 .. n |-> IF i = 1 THEN parts[i] ELSE f[i - 1] \o parts[i]]
             S == {n \in Nat : \E f : Fills(f, n)}
  <2>1. 0 \in S
    <3> DEFINE f == [i \in 1 .. 0 |-> <<>>]
    <3>1. Fills(f, 0)
      OBVIOUS
    <3> QED
      BY <3>1
  <2>2. ASSUME NEW n \in S PROVE n + 1 \in S
    <3>1. PICK f : Fills(f, n)
      OBVIOUS
    <3> DEFINE e == [i \in 1 .. n + 1 |-> IF i = n + 1
                                          THEN IF i = 1 THEN parts[i] ELSE f[n] \o parts[i]
                                          ELSE f[i]]
    <3>2. \A i \in 1 .. n + 1 : e[i] = IF i = 1 THEN parts[i] ELSE e[i - 1] \o parts[i]
      <4> TAKE i \in 1 .. n + 1
      <4>1. n \in Nat /\ (i = n + 1 \/ i \in 1 .. n)
        OBVIOUS
      <4>2. CASE i = n + 1
        <5>1. i # 1 => i - 1 = n /\ i - 1 \in 1 .. n + 1 /\ i - 1 # n + 1
          BY <4>1, <4>2
        <5>2. i # 1 => e[i - 1] = f[n]
          BY <5>1
        <5> QED
          BY <4>2, <5>1, <5>2
      <4>3. CASE i \in 1 .. n
        <5>0. f[i] = IF i = 1 THEN parts[i] ELSE f[i - 1] \o parts[i]
          <6> HIDE DEF e
          <6> QED
            BY <3>1, <4>3
        <5>1. e[i] = f[i]
          BY <4>1, <4>3
        <5>2. i # 1 => i - 1 \in 1 .. n + 1 /\ i - 1 # n + 1
          BY <4>1, <4>3
        <5>3. i # 1 => e[i - 1] = f[i - 1]
          BY <5>2
        <5> HIDE DEF e
        <5> QED
          BY <5>0, <5>1, <5>3
      <4> QED
        BY <4>1, <4>2, <4>3
    <3>3. e = [i \in 1 .. n + 1 |-> e[i]]
      OBVIOUS
    <3> HIDE DEF e
    <3>4. Fills(e, n + 1)
      BY <3>2, <3>3
    <3>5. n + 1 \in Nat
      OBVIOUS
    <3> HIDE DEF Fills
    <3> QED
      BY <3>4, <3>5
  <2>3. S = Nat
    <3> HIDE DEF S
    <3>1. S \in SUBSET Nat
      BY DEF S
    <3> QED
      BY <2>1, <2>2, <3>1, SetInduction
  <2> DEFINE f == CHOOSE f : Fills(f, Len(parts))
  <2>4. Fills(f, Len(parts))
    <3> HIDE DEF Fills
    <3>1. \E g : Fills(g, Len(parts))
      BY <1>0, <2>3
    <3> QED
      BY <3>1
  <2>5. FlattenSeq(parts) = f[Len(parts)]
    BY <1>2 DEF FlattenSeq
  <2> HIDE DEF f
  <2> DEFINE h == [k \in 0 .. Len(parts) |-> IF k = 0 THEN <<>> ELSE f[k]]
  <2>6. \A k \in 1 .. Len(parts) : h[k] = h[k - 1] \o parts[k]
    <3> TAKE k \in 1 .. Len(parts)
    <3>0. h[k] = f[k]
      BY <1>0
    <3>1. f[k] = IF k = 1 THEN parts[k] ELSE f[k - 1] \o parts[k]
      <4> HIDE DEF h
      <4> QED
        BY <2>4
    <3>2. CASE k = 1
      <4>1. h[k - 1] = <<>>
        BY <1>0, <3>2
      <4>2. <<>> \o parts[k] = parts[k]
        BY <1>0, ConcatEmptySeq
      <4> QED
        BY <3>0, <3>1, <3>2, <4>1, <4>2
    <3>3. CASE k # 1
      <4>1. h[k - 1] = f[k - 1]
        BY <1>0, <3>3
      <4> QED
        BY <3>0, <3>1, <3>3, <4>1
    <3> QED
      BY <3>2, <3>3
  <2>7. h[0] = <<>> /\ h[Len(parts)] = f[Len(parts)]
    BY <1>0, <1>2
  <2> HIDE DEF h
  <2>8. Sums(h, parts)
    BY <2>6, <2>7 DEF Sums
  <2> QED
    BY <2>5, <2>7, <2>8 DEF Summed
<1> QED
  BY <1>1, <1>2

LEMMA SumsTyped ==
  ASSUME NEW A, NEW parts \in Seq(Seq(A)), NEW h, Sums(h, parts)
  PROVE  \A k \in 0 .. Len(parts) : h[k] \in Seq(A)
<1>0. Len(parts) \in Nat /\ \A k \in 1 .. Len(parts) : parts[k] \in Seq(A)
  BY LenProperties, ElementOfSeq
<1> DEFINE S == {n \in Nat : n <= Len(parts) => h[n] \in Seq(A)}
<1>1. 0 \in S
  BY EmptySeq DEF Sums
<1>2. ASSUME NEW n \in S PROVE n + 1 \in S
  <2>1. SUFFICES ASSUME n + 1 <= Len(parts) PROVE h[n + 1] \in Seq(A)
    OBVIOUS
  <2>2. n \in Nat /\ n + 1 \in 1 .. Len(parts) /\ (n + 1) - 1 = n /\ h[n] \in Seq(A)
    BY <1>0, <2>1
  <2>3. h[n + 1] = h[n] \o parts[n + 1]
    BY <2>2 DEF Sums
  <2> QED
    BY <1>0, <2>2, <2>3, ConcatProperties
<1>3. S = Nat
  <2> HIDE DEF S
  <2>1. S \in SUBSET Nat
    BY DEF S
  <2> QED
    BY <1>1, <1>2, <2>1, SetInduction
<1> QED
  BY <1>0, <1>3

(* Lists that begin with the same lists. *)
-----------------------------------------------------------------------------
\* The trees over tokens up to a position.
TreesUpTo(last) == {t \in Seq(Nodes(last)) : IsTree(t)}

LEMMA TreeIsCounted ==
  ASSUME NEW last \in Nat, NEW t \in Seq(Nodes(last))
  PROVE  Len(t) \in Nat /\ Counted(t)
<1>1. Len(t) \in Nat /\ \A k \in 1 .. Len(t) : t[k] \in Nodes(last)
  BY LenProperties, ElementOfSeq
<1> QED
  BY <1>1 DEF Counted, Nodes

(* A list of trees, one for each of the nodes that are missing. *)
LEMMA TreesCover ==
  ASSUME NEW last \in Nat, NEW children \in Seq(TreesUpTo(last))
  PROVE  /\ FlattenSeq(children) \in Seq(Nodes(last))
         /\ Covers(FlattenSeq(children), Len(children), 0)
<1> DEFINE n == Len(children)
<1>0. /\ n \in Nat
      /\ \A k \in 1 .. n : children[k] \in Seq(Nodes(last)) /\ IsTree(children[k])
  <2>1. n \in Nat /\ \A k \in 1 .. n : children[k] \in TreesUpTo(last)
    BY LenProperties, ElementOfSeq
  <2> QED
    BY <2>1 DEF TreesUpTo
<1>1. children \in Seq(Seq(Nodes(last)))
  <2>1. TreesUpTo(last) \subseteq Seq(Nodes(last))
    BY DEF TreesUpTo
  <2> QED
    BY <2>1
<1>2. PICK f : Sums(f, children) /\ FlattenSeq(children) = f[n]
  BY <1>1, FlattenSums DEF Summed
<1>3. \A k \in 0 .. n : f[k] \in Seq(Nodes(last))
  BY <1>1, <1>2, SumsTyped
<1> HIDE DEF n
<1> DEFINE S == {k \in Nat : k <= n => Covers(f[k], n, n - k)}
<1>4. 0 \in S
  <2> DEFINE h == [k \in {0} |-> n]
  <2>1. f[0] = <<>> /\ Len(f[0]) = 0
    BY <1>2 DEF Sums
  <2>2. Counts(f[0], n, h)
    BY <2>1 DEF Counts
  <2>3. h[Len(f[0])] = n - 0
    BY <1>0, <2>1
  <2>4. \A k \in 0 .. Len(f[0]) : h[k] \in Nat /\ (k < Len(f[0]) => h[k] > n - 0)
    BY <1>0, <2>1
  <2> HIDE DEF h
  <2>5. Covers(f[0], n, n - 0)
    BY <2>2, <2>3, <2>4 DEF Covers
  <2> QED
    BY <2>5
<1>5. ASSUME NEW k \in S PROVE k + 1 \in S
  <2>1. SUFFICES ASSUME k + 1 <= n PROVE Covers(f[k + 1], n, n - (k + 1))
    OBVIOUS
  <2>2. /\ k \in Nat /\ k + 1 \in 1 .. n /\ (k + 1) - 1 = k /\ k \in 0 .. n /\ k + 1 \in 0 .. n
        /\ Covers(f[k], n, n - k)
    BY <1>0, <2>1
  <2>3. PICK s, c, u : s = f[k] /\ c = children[k + 1] /\ u = f[k + 1]
    OBVIOUS
  <2>4. u = s \o c /\ s \in Seq(Nodes(last)) /\ c \in Seq(Nodes(last)) /\ IsTree(c)
    BY <1>0, <1>2, <1>3, <2>2, <2>3 DEF Sums, n
  <2>5. Len(s) \in Nat /\ Len(c) \in Nat /\ Counted(c)
    BY <2>4, TreeIsCounted
  <2>6. Covers(c, 1, 0)
    BY <2>4, <2>5, TreeCovers
  <2>7. PICK b \in Nat : b = n - (k + 1)
    BY <1>0, <2>2
  <2>8. PICK m \in Nat : m = n - k /\ 1 + b = m /\ 0 + b = b /\ b <= m
    BY <1>0, <2>2, <2>7
  <2>9. Covers(c, m, b)
    BY <2>5, <2>6, <2>8, CoversMore
  <2>10. /\ Len(u) = Len(s) + Len(c)
         /\ \A j \in 1 .. Len(s) : u[j] = s[j]
         /\ \A j \in 1 .. Len(c) : u[Len(s) + j] = c[j]
    BY <2>4, <2>5
  <2>11. Covers(s, n, m)
    BY <2>2, <2>3, <2>8
  <2>12. Covers(u, n, b)
    BY ONLY <1>0, <2>5, <2>8, <2>9, <2>10, <2>11, m \in Nat, b \in Nat, CoversBoth
  <2> QED
    BY <2>3, <2>7, <2>12
<1>6. S = Nat
  <2> HIDE DEF S
  <2>1. S \in SUBSET Nat
    BY DEF S
  <2> QED
    BY <1>4, <1>5, <2>1, SetInduction
<1>7. n \in 0 .. n /\ n - n = 0
  BY <1>0
<1>8. Covers(f[n], n, n - n)
  BY <1>0, <1>6, <1>7
<1> QED
  BY <1>2, <1>3, <1>7, <1>8 DEF n

(* A node and as many trees as it has children make a tree. *)
LEMMA NodeIsTree ==
  ASSUME NEW last \in Nat, NEW type \in NodeTypes, NEW at \in 0 .. last,
         NEW children \in Seq(TreesUpTo(last))
  PROVE  Node(type, at, children) \in TreesUpTo(last)
<1>1. PICK n \in Nat : n = Len(children)
  BY LenProperties
<1>2. PICK t \in Seq(Nodes(last)) : t = FlattenSeq(children) /\ Covers(t, n, 0)
  BY <1>1, TreesCover
<1>3. PICK r : r = [type |-> type, at |-> at, arity |-> n]
  OBVIOUS
<1>4. r \in Nodes(last) /\ r.arity = n
  BY <1>3 DEF Nodes
<1>5. PICK u : u = << r >> \o t
  OBVIOUS
<1>6. Node(type, at, children) = u
  BY <1>1, <1>2, <1>3, <1>5 DEF Node
<1>7. /\ u \in Seq(Nodes(last)) /\ Len(u) = Len(t) + 1 /\ Len(t) \in Nat /\ u[1] = r
      /\ \A k \in 2 .. Len(u) : u[k] = t[k - 1]
  BY <1>4, <1>5
<1>8. PICK h : /\ Counts(t, n, h) /\ h[Len(t)] = 0
               /\ \A k \in 0 .. Len(t) : h[k] \in Nat /\ (k < Len(t) => h[k] > 0)
  BY <1>2 DEF Covers
<1> DEFINE g == [k \in 0 .. Len(u) |-> IF k = 0 THEN 1 ELSE h[k - 1]]
<1>9. g[0] = 1 /\ g[Len(u)] = 0
  BY <1>7, <1>8
<1>10. \A k \in 1 .. Len(u) : g[k] = h[k - 1]
  BY <1>7
<1> HIDE DEF g
<1>11. \A k \in 1 .. Len(u) : g[k] = g[k - 1] - 1 + u[k].arity
  <2> TAKE k \in 1 .. Len(u)
  <2>1. CASE k = 1
    <3>1. g[k] = n /\ g[k - 1] = 1 /\ u[k].arity = n
      BY <1>4, <1>7, <1>8, <1>9, <1>10, <2>1 DEF Counts
    <3> QED
      BY <3>1
  <2>2. CASE k # 1
    <3>1. k \in 2 .. Len(u) /\ k - 1 \in 1 .. Len(u) /\ k - 1 \in 1 .. Len(t)
      BY <1>7, <2>2
    <3>2. g[k] = h[k - 1] /\ g[k - 1] = h[(k - 1) - 1] /\ u[k] = t[k - 1]
      BY <1>7, <1>10, <3>1
    <3>3. h[k - 1] = h[(k - 1) - 1] - 1 + t[k - 1].arity
      BY <1>8, <3>1 DEF Counts
    <3> QED
      BY <3>2, <3>3
  <2> QED
    BY <2>1, <2>2
<1>12. \A k \in 0 .. Len(u) : g[k] \in Nat /\ (k < Len(u) => g[k] > 0)
  <2> TAKE k \in 0 .. Len(u)
  <2>1. CASE k = 0
    BY <1>9, <2>1
  <2>2. CASE k # 0
    <3>1. k \in 1 .. Len(u) /\ k - 1 \in 0 .. Len(t) /\ (k < Len(u) => k - 1 < Len(t))
      BY <1>7, <2>2
    <3>2. g[k] = h[k - 1]
      BY <1>10, <3>1
    <3> QED
      BY <1>8, <3>1, <3>2
  <2> QED
    BY <2>1, <2>2
<1>13. Covers(u, 1, 0)
  BY <1>9, <1>11, <1>12 DEF Covers, Counts
<1>14. IsTree(u)
  BY <1>7, <1>13, CoversTree
<1> QED
  BY <1>6, <1>7, <1>14 DEF TreesUpTo

-----------------------------------------------------------------------------
(* What a pending call keeps: positions of tokens up to the last one, trees over
   them, and levels of the binary operators. *)
PlainCalls == {"statement", "expression_stmt", "condition", "return", "expression", "assignment",
               "ternary", "unary", "primary", "parenthesis", "callee"}

Inner(last) ==
  LET Tree == TreesUpTo(last) At == 0 .. last
  IN UNION {
      [do : PlainCalls],
      [do : {"block", "stmt"}, list : Seq(Tree)],
      [do : {"var_decl", "start", "operand"}, at : At],
      [do : {"fn"}, at : At, params : Seq(Tree)],
      [do : {"end"}, at : At, start : Tree],
      [do : {"body"}, at : At, range : Tree],
      [do : {"then", "true_expr"}, condition : Tree],
      [do : {"else"}, parts : Seq(Tree)],
      [do : {"false_expr"}, condition : Tree, true_expr : Tree],
      [do : {"assign"}, at : At, left : Tree],
      [do : {"operators"}, low : 1 .. 7, high : 1 .. 6],
      [do : {"right"}, level : 1 .. 6, at : At, left : Tree],
      [do : {"arguments"}, callee : Tree, list : Seq(Tree)]}

Declared(last) == [do : {"declaration"}]
                    \union [do : {"params"}, at : 0 .. last, params : Seq(TreesUpTo(last))]

Outer(last) == [do : {"program", "decl"}, list : Seq(TreesUpTo(last))]

Item(last) == Inner(last) \union Declared(last) \union Outer(last)

OuterCalls == {"program", "decl"}

(* The outermost call is that of the program, and a declaration is parsed for it
   alone. *)
Stacked(s, last) ==
  /\ s \in Seq(Item(last)) /\ s # <<>>
  /\ \A k \in 1 .. Len(s) : s[k].do \in OuterCalls <=> k = Len(s)
  /\ \A k \in 1 .. Len(s) :
       s[k].do \in {"declaration", "params"} => k + 1 = Len(s) /\ s[k + 1].do = "decl"

\* What may take the place of the innermost call h.
Replaces(pending, h, last) ==
  \/ h.do \notin OuterCalls /\ pending \in Seq(Inner(last))
  \/ h.do \in {"declaration", "params"} /\ \E x \in Declared(last) : pending = << x >>
  \/ h.do = "program" /\ \E l \in Seq(TreesUpTo(last)) :
                           pending = << Call("declaration"), [do |-> "decl", list |-> l] >>
  \/ h.do = "decl" /\ \E l \in Seq(TreesUpTo(last)) : pending = << [do |-> "program", list |-> l] >>

LEMMA InnerCalls ==
  ASSUME NEW last \in Nat, NEW x \in Inner(last)
  PROVE  x.do \in Calls \ {"program", "decl", "declaration", "params"}
  BY DEF Inner, PlainCalls, Calls

LEMMA ItemCalls ==
  ASSUME NEW last \in Nat, NEW x \in Item(last)
  PROVE  x.do \in Calls
  BY InnerCalls DEF Item, Declared, Outer, Calls

LEMMA StackedAfter ==
  ASSUME NEW last \in Nat, NEW s, Stacked(s, last), NEW pending, Replaces(pending, Head(s), last)
  PROVE  Stacked(pending \o Tail(s), last)
<1> DEFINE h == Head(s)
           t == Tail(s)
<1>1. /\ s \in Seq(Item(last)) /\ Len(s) \in Nat \ {0} /\ h = s[1]
      /\ t \in Seq(Item(last)) /\ Len(t) = Len(s) - 1 /\ \A k \in 1 .. Len(t) : t[k] = s[k + 1]
  BY DEF Stacked
<1>2. /\ \A k \in 1 .. Len(s) : s[k].do \in OuterCalls <=> k = Len(s)
      /\ \A k \in 1 .. Len(s) :
           s[k].do \in {"declaration", "params"} => k + 1 = Len(s) /\ s[k + 1].do = "decl"
  BY DEF Stacked
<1> HIDE DEF h, t
<1>3. ASSUME h.do \notin OuterCalls, NEW p \in Seq(Item(last)), pending = p,
             \A k \in 1 .. Len(p) :
               /\ p[k].do \notin OuterCalls
               /\ p[k].do \in {"declaration", "params"} =>
                    k = Len(p) /\ h.do \in {"declaration", "params"}
      PROVE  Stacked(p \o t, last)
  <2> DEFINE u == p \o t
  <2>0. Len(t) \in Nat \ {0} /\ Len(p) \in Nat
    <3>1. 1 \in 1 .. Len(s) /\ s[1].do \notin OuterCalls
      BY <1>1, <1>3
    <3>2. Len(s) # 1
      BY <1>2, <3>1
    <3> QED
      BY <1>1, <1>3, <3>2
  <2>1. /\ u \in Seq(Item(last)) /\ Len(u) = Len(p) + Len(t) /\ Len(p) \in Nat /\ Len(t) \in Nat \ {0}
        /\ \A k \in 1 .. Len(p) : u[k] = p[k]
        /\ \A k \in Len(p) + 1 .. Len(u) : u[k] = t[k - Len(p)]
    <3>0. p \in Seq(Item(last)) /\ t \in Seq(Item(last))
      BY <1>1
    <3>1. /\ u \in Seq(Item(last)) /\ Len(u) = Len(p) + Len(t)
          /\ \A i \in 1 .. Len(p) + Len(t) : u[i] = IF i <= Len(p) THEN p[i] ELSE t[i - Len(p)]
      BY ONLY <3>0, ConcatProperties
    <3> HIDE DEF u
    <3> QED
      BY <2>0, <3>1
  <2> HIDE DEF u
  <2>2. u # <<>>
    BY <2>1
  <2>3. ASSUME NEW k \in 1 .. Len(u)
        PROVE  u[k].do \in OuterCalls <=> k = Len(u)
    <3>1. CASE k <= Len(p)
      BY <1>3, <2>1, <3>1
    <3>2. CASE ~(k <= Len(p))
      <4> DEFINE j == k - Len(p)
      <4>1. j \in 1 .. Len(t) /\ j + 1 \in 1 .. Len(s) /\ (k = Len(u) <=> j + 1 = Len(s))
        BY <1>1, <2>1, <3>2
      <4>2. u[k] = t[j]
        BY <2>1, <3>2
      <4> HIDE DEF j
      <4>3. u[k] = s[j + 1]
        BY <1>1, <4>1, <4>2
      <4> QED
        BY <1>2, <4>1, <4>3
    <3> QED
      BY <3>1, <3>2
  <2>4. ASSUME NEW k \in 1 .. Len(u), u[k].do \in {"declaration", "params"}
        PROVE  k + 1 = Len(u) /\ u[k + 1].do = "decl"
    <3>1. CASE k <= Len(p)
      <4>1. k = Len(p) /\ h.do \in {"declaration", "params"}
        BY <1>3, <2>1, <2>4, <3>1
      <4>2. 1 + 1 = Len(s) /\ s[1 + 1].do = "decl"
        BY <1>1, <1>2, <4>1
      <4>3. u[k + 1] = t[1] /\ t[1] = s[1 + 1] /\ Len(t) = 1
        BY <1>1, <2>1, <4>1, <4>2, SMTT(30)
      <4> QED
        BY <2>1, <4>1, <4>2, <4>3
    <3>2. CASE ~(k <= Len(p))
      <4> DEFINE j == k - Len(p)
      <4>1. j \in 1 .. Len(t) /\ j + 1 \in 1 .. Len(s) /\ k = j + Len(p) /\ Len(p) \in Nat
        BY <1>1, <2>1, <3>2
      <4>6. u[k] = t[j]
        BY <2>1, <3>2
      <4> HIDE DEF j
      <4>2. u[k] = s[j + 1]
        BY <1>1, <4>1, <4>6
      <4>3. (j + 1) + 1 = Len(s) /\ s[(j + 1) + 1].do = "decl"
        BY <1>2, <2>4, <4>1, <4>2
      <4>4. k + 1 = Len(u) /\ j + 1 \in 1 .. Len(t) /\ (k + 1) - Len(p) = j + 1
        <5>1. j \in Nat /\ Len(s) \in Nat /\ Len(t) = Len(s) - 1 /\ (j + 1) + 1 = Len(s)
          BY <1>1, <2>0, <4>1, <4>3
        <5>2. j + 1 = Len(t)
          BY ONLY <5>1
        <5>3. k = j + Len(p) /\ Len(u) = Len(p) + Len(t) /\ Len(p) \in Nat /\ Len(t) \in Nat \ {0}
          BY <2>0, <2>1, <4>1
        <5> QED
          BY ONLY <5>1, <5>2, <5>3
      <4>5. u[k + 1] = s[(j + 1) + 1]
        BY <1>1, <2>1, <4>1, <4>4, SMTT(30)
      <4> QED
        BY <4>3, <4>4, <4>5
    <3> QED
      BY <3>1, <3>2
  <2>5. Stacked(u, last)
    BY <2>1, <2>2, <2>3, <2>4 DEF Stacked
  <2> QED
    BY <2>5 DEF u
<1>4. CASE h.do \notin OuterCalls /\ pending \in Seq(Inner(last))
  <2>1. pending \in Seq(Item(last))
    <3>1. Inner(last) \subseteq Item(last)
      BY DEF Item
    <3> QED
      BY <1>4, <3>1, SeqMonotonic
  <2>2. \A k \in 1 .. Len(pending) : pending[k].do \in Calls \ {"program", "decl", "declaration", "params"}
    <3> TAKE k \in 1 .. Len(pending)
    <3>1. pending[k] \in Inner(last)
      BY <1>4, ElementOfSeq
    <3> QED
      BY <3>1, InnerCalls
  <2> QED
    BY <1>3, <1>4, <2>1, <2>2 DEF OuterCalls, t
<1>5. CASE h.do \in {"declaration", "params"} /\ \E x \in Declared(last) : pending = << x >>
  <2>1. PICK x \in Declared(last) : pending = << x >>
    BY <1>5
  <2>2. x.do \in {"declaration", "params"} /\ x \in Item(last)
    BY DEF Declared, Item
  <2>3. pending \in Seq(Item(last)) /\ Len(pending) = 1 /\ pending[1] = x
    BY <2>1, <2>2
  <2>4. \A k \in 1 .. Len(pending) : k = 1 /\ k = Len(pending) /\ pending[k].do \in {"declaration", "params"}
    BY <2>2, <2>3
  <2>5. h.do \notin OuterCalls /\ \A c \in {"declaration", "params"} : c \notin OuterCalls
    BY <1>5 DEF OuterCalls
  <2>6. Stacked(pending \o t, last)
    BY <1>3, <1>5, <2>3, <2>4, <2>5
  <2> QED
    BY <2>6 DEF t
<1>6. CASE h.do \in OuterCalls
  <2>1. Len(s) = 1 /\ t = <<>>
    BY <1>1, <1>2, <1>6, EmptySeq
  <2>2. ASSUME NEW p \in Seq(Item(last)), pending = p
        PROVE  pending \o t = p
    BY <2>1, <2>2
  <2>3. CASE h.do = "program"
    <3>1. PICK l \in Seq(TreesUpTo(last)) :
            pending = << Call("declaration"), [do |-> "decl", list |-> l] >>
      BY <2>3 DEF Replaces, OuterCalls, h
    <3>2. Call("declaration") \in Item(last) /\ [do |-> "decl", list |-> l] \in Item(last)
      BY DEF Call, Item, Declared, Outer
    <3>3. PICK p : p = pending /\ p = << Call("declaration"), [do |-> "decl", list |-> l] >>
      BY <3>1
    <3>4. p \in Seq(Item(last)) /\ Len(p) = 2 /\ 1 .. Len(p) = {1, 2} /\ p # <<>> /\ p[1].do = "declaration" /\ p[2].do = "decl"
      BY <3>2, <3>3 DEF Call
    <3>5. Stacked(p, last)
      BY <3>4 DEF Stacked, OuterCalls
    <3> QED
      BY <2>2, <3>3, <3>4, <3>5 DEF t
  <2>4. CASE h.do = "decl"
    <3>1. PICK l \in Seq(TreesUpTo(last)) : pending = << [do |-> "program", list |-> l] >>
      BY <2>4 DEF Replaces, OuterCalls, h
    <3>2. [do |-> "program", list |-> l] \in Item(last)
      BY DEF Item, Outer
    <3>3. PICK p : p = pending /\ p = << [do |-> "program", list |-> l] >>
      BY <3>1
    <3>4. p \in Seq(Item(last)) /\ Len(p) = 1 /\ 1 .. Len(p) = {1} /\ p # <<>> /\ p[1].do = "program"
      BY <3>2, <3>3
    <3>5. Stacked(p, last)
      BY <3>4 DEF Stacked, OuterCalls
    <3> QED
      BY <2>2, <3>3, <3>4, <3>5 DEF t
  <2> QED
    BY <1>6, <2>3, <2>4 DEF OuterCalls
<1> QED
  BY <1>4, <1>5, <1>6 DEF Replaces, OuterCalls, h

-----------------------------------------------------------------------------
Brackets == Opening \union {"wrong"}

\* The bracket a pending call is to close.
BracketOf(call) ==
  CASE call.do \in {"parenthesis", "arguments", "params"} -> << "LPAREN" >>
    [] call.do \in {"block", "stmt"} -> << "LBRACE" >>
    [] OTHER -> <<>>

\* b is what the pending calls s are to close, the innermost bracket first.
Closes(s, b) ==
  \E g : /\ g[1] = b /\ g[Len(s) + 1] = <<>>
         /\ \A k \in 1 .. Len(s) + 1 : g[k] \in Seq(Brackets)
         /\ \A k \in 1 .. Len(s) : g[k] = BracketOf(s[k]) \o g[k + 1]

\* b is what the calls of a step are to close: at most one of them closes something.
Adds(pending, b) ==
  \/ b = <<>> /\ \A k \in 1 .. Len(pending) : BracketOf(pending[k]) = <<>>
  \/ \E j \in 1 .. Len(pending) :
       /\ b = BracketOf(pending[j])
       /\ \A k \in 1 .. Len(pending) : k # j => BracketOf(pending[k]) = <<>>

LEMMA OneElement ==
  ASSUME NEW A, NEW x \in A
  PROVE  << x >> \in Seq(A)
  OBVIOUS

LEMMA BracketTyped ==
  ASSUME NEW call
  PROVE  BracketOf(call) \in Seq(Brackets)
<1>1. << "LPAREN" >> \in Seq(Brackets) /\ << "LBRACE" >> \in Seq(Brackets) /\ <<>> \in Seq(Brackets)
  <2>1. "LPAREN" \in Brackets /\ "LBRACE" \in Brackets
    BY DEF Brackets, Opening
  <2>2. \A x \in Brackets : << x >> \in Seq(Brackets)
    BY OneElement
  <2> QED
    BY <2>1, <2>2, EmptySeq
<1>2. \/ BracketOf(call) = << "LPAREN" >>
      \/ BracketOf(call) = << "LBRACE" >>
      \/ BracketOf(call) = <<>>
  BY Zenon DEF BracketOf
<1> QED
  BY <1>1, <1>2

LEMMA ClosesLess ==
  ASSUME NEW A, NEW s \in Seq(A), s # <<>>, NEW b, Closes(s, b)
  PROVE  \E r \in Seq(Brackets) : b = BracketOf(Head(s)) \o r /\ Closes(Tail(s), r)
<1>1. PICK g : /\ g[1] = b /\ g[Len(s) + 1] = <<>>
               /\ \A k \in 1 .. Len(s) + 1 : g[k] \in Seq(Brackets)
               /\ \A k \in 1 .. Len(s) : g[k] = BracketOf(s[k]) \o g[k + 1]
  BY DEF Closes
<1>2. PICK t : t = Tail(s)
  OBVIOUS
<1>3. /\ Len(s) \in Nat \ {0} /\ Head(s) = s[1]
      /\ Len(t) = Len(s) - 1 /\ \A k \in 1 .. Len(t) : t[k] = s[k + 1]
  BY <1>2
<1> DEFINE f == [k \in 1 .. Len(s) |-> g[k + 1]]
<1>4. f[1] = g[2] /\ f[Len(t) + 1] = <<>>
  BY <1>1, <1>3
<1>5. \A k \in 1 .. Len(t) + 1 : f[k] \in Seq(Brackets)
  <2> TAKE k \in 1 .. Len(t) + 1
  <2>1. k \in 1 .. Len(s) /\ k + 1 \in 1 .. Len(s) + 1
    BY <1>3
  <2> QED
    BY <1>1, <2>1
<1>6. \A k \in 1 .. Len(t) : f[k] = BracketOf(t[k]) \o f[k + 1]
  <2> TAKE k \in 1 .. Len(t)
  <2>1. k \in 1 .. Len(s) /\ k + 1 \in 1 .. Len(s) /\ t[k] = s[k + 1]
    BY <1>3
  <2>2. f[k] = g[k + 1] /\ f[k + 1] = g[(k + 1) + 1]
    BY <2>1
  <2> HIDE DEF f
  <2> QED
    BY <1>1, <2>1, <2>2
<1> HIDE DEF f
<1>7. Closes(t, f[1])
  BY <1>4, <1>5, <1>6 DEF Closes
<1>8. 1 \in 1 .. Len(s) /\ 1 + 1 = 2 /\ 1 \in 1 .. Len(t) + 1
  BY <1>3
<1>9. b = BracketOf(Head(s)) \o f[1] /\ f[1] \in Seq(Brackets)
  BY <1>1, <1>3, <1>4, <1>5, <1>8
<1> QED
  BY <1>2, <1>7, <1>9

LEMMA ClosesMore ==
  ASSUME NEW A, NEW s \in Seq(A), NEW B, NEW pending \in Seq(B), NEW r, Closes(s, r),
         NEW b, Adds(pending, b)
  PROVE  Closes(pending \o s, b \o r)
<1>1. PICK g : /\ g[1] = r /\ g[Len(s) + 1] = <<>>
               /\ \A k \in 1 .. Len(s) + 1 : g[k] \in Seq(Brackets)
               /\ \A k \in 1 .. Len(s) : g[k] = BracketOf(s[k]) \o g[k + 1]
  BY DEF Closes
<1>2. PICK u : u = pending \o s
  OBVIOUS
<1>3. PICK n \in Nat : n = Len(pending)
  BY LenProperties
<1>4. /\ Len(s) \in Nat /\ Len(u) = n + Len(s)
      /\ \A k \in 1 .. n : u[k] = pending[k]
      /\ \A k \in n + 1 .. n + Len(s) : u[k] = s[k - n]
  <2>1. pending \in Seq(A \union B) /\ s \in Seq(A \union B)
    BY SeqMonotonic
  <2> QED
    BY <1>2, <1>3, <2>1
<1>5. PICK j \in 0 .. n :
        /\ j = 0 => b = <<>>
        /\ j > 0 => b = BracketOf(u[j])
        /\ \A k \in 1 .. n : k # j => BracketOf(u[k]) = <<>>
  <2>1. CASE b = <<>> /\ \A k \in 1 .. Len(pending) : BracketOf(pending[k]) = <<>>
    <3>1. 0 \in 0 .. n /\ ~(0 > 0) /\ \A k \in 1 .. n : BracketOf(u[k]) = <<>>
      BY <1>3, <1>4, <2>1
    <3> QED
      BY <2>1, <3>1
  <2>2. CASE \E j \in 1 .. Len(pending) :
                 /\ b = BracketOf(pending[j])
                 /\ \A k \in 1 .. Len(pending) : k # j => BracketOf(pending[k]) = <<>>
    <3>1. PICK j \in 1 .. n :
              /\ b = BracketOf(pending[j])
              /\ \A k \in 1 .. n : k # j => BracketOf(pending[k]) = <<>>
      BY <1>3, <2>2
    <3>2. j \in 0 .. n /\ j # 0 /\ b = BracketOf(u[j])
      BY <1>4, <3>1
    <3>3. \A k \in 1 .. n : k # j => BracketOf(u[k]) = <<>>
      BY <1>4, <3>1
    <3> QED
      BY <3>2, <3>3
  <2> QED
    BY <2>1, <2>2 DEF Adds
<1>6. r \in Seq(Brackets)
  <2>1. 1 \in 1 .. Len(s) + 1
    BY <1>4
  <2> QED
    BY <1>1, <2>1
<1>7. b \in Seq(Brackets) /\ b \o r \in Seq(Brackets) /\ <<>> \o r = r
  <2>1. b = <<>> \/ b = BracketOf(u[j])
    BY <1>5
  <2>2. b \in Seq(Brackets)
    BY <2>1, BracketTyped, EmptySeq
  <2> QED
    BY <1>6, <2>2, ConcatProperties, ConcatEmptySeq
<1> DEFINE f == [k \in 1 .. Len(u) + 1 |->
                   IF k <= j THEN b \o r ELSE IF k <= n THEN r ELSE g[k - n]]
<1>8. /\ \A k \in 1 .. j : f[k] = b \o r
      /\ \A k \in j + 1 .. n + 1 : f[k] = r
      /\ \A k \in n + 1 .. n + Len(s) + 1 : f[k] = g[k - n]
  BY <1>1, <1>4
<1> HIDE DEF f
<1>9. f[1] = b \o r
  <2>1. CASE j > 0
    BY <1>8, <2>1
  <2>2. CASE j = 0
    BY <1>5, <1>7, <1>8, <2>2
  <2> QED
    BY <2>1, <2>2
<1>10. f[Len(u) + 1] = <<>>
  <2>1. Len(u) + 1 \in n + 1 .. n + Len(s) + 1 /\ (Len(u) + 1) - n = Len(s) + 1
    BY <1>4
  <2> QED
    BY <1>1, <1>8, <2>1
<1>11. \A k \in 1 .. Len(u) + 1 : f[k] \in Seq(Brackets)
  <2> TAKE k \in 1 .. Len(u) + 1
  <2>1. CASE k <= j
    <3>1. k \in 1 .. j
      BY <1>4, <2>1
    <3> QED
      BY <1>7, <1>8, <3>1
  <2>2. CASE j < k /\ k <= n
    BY <1>6, <1>8, <2>2
  <2>3. CASE n < k
    <3>1. k \in n + 1 .. n + Len(s) + 1 /\ k - n \in 1 .. Len(s) + 1
      BY <1>4, <2>3
    <3> QED
      BY <1>1, <1>8, <3>1
  <2> QED
    BY <2>1, <2>2, <2>3
<1>12. \A k \in 1 .. Len(u) : f[k] = BracketOf(u[k]) \o f[k + 1]
  <2> TAKE k \in 1 .. Len(u)
  <2>1. CASE k < j
    <3>1. k \in 1 .. n /\ k # j /\ k \in 1 .. j /\ k + 1 \in 1 .. j
      BY <2>1
    <3>2. BracketOf(u[k]) = <<>> /\ f[k] = b \o r /\ f[k + 1] = b \o r
      BY <1>5, <1>8, <3>1
    <3> QED
      BY <1>7, <3>2, ConcatEmptySeq
  <2>2. CASE k = j
    <3>1. k \in 1 .. j /\ k + 1 \in j + 1 .. n + 1 /\ j > 0
      BY <2>2
    <3>2. f[k] = b \o r /\ f[k + 1] = r /\ b = BracketOf(u[k])
      BY <1>5, <1>8, <2>2, <3>1
    <3> QED
      BY <3>2
  <2>3. CASE j < k /\ k <= n
    <3>1. k \in 1 .. n /\ k # j /\ k \in j + 1 .. n + 1 /\ k + 1 \in j + 1 .. n + 1
      BY <2>3
    <3>2. BracketOf(u[k]) = <<>> /\ f[k] = r /\ f[k + 1] = r
      BY <1>5, <1>8, <3>1
    <3> QED
      BY <1>7, <3>2
  <2>4. CASE n < k
    <3>1. PICK i \in 1 .. Len(s) : i = k - n
      BY <1>4, <2>4
    <3>2. /\ k \in n + 1 .. n + Len(s) /\ k \in n + 1 .. n + Len(s) + 1
          /\ k + 1 \in n + 1 .. n + Len(s) + 1 /\ (k + 1) - n = i + 1
      BY <1>4, <2>4, <3>1
    <3>3. u[k] = s[i] /\ f[k] = g[i] /\ f[k + 1] = g[i + 1]
      BY <1>4, <1>8, <3>1, <3>2
    <3> QED
      BY <1>1, <3>3
  <2> QED
    BY <1>4, <2>1, <2>2, <2>3, <2>4
<1>13. Closes(u, b \o r)
  BY <1>9, <1>10, <1>11, <1>12 DEF Closes
<1> QED
  BY <1>2, <1>13

-----------------------------------------------------------------------------
(* Brackets while tokens are read. *)
LEMMA OpenAfterSteps ==
  ASSUME Len(tokens) \in Nat
  PROVE  /\ OpenAfter(0) = <<>>
         /\ \A k \in 1 .. Len(tokens) : OpenAfter(k) = Nested(OpenAfter(k - 1), tokens[k])
<1> DEFINE Fills(f, n) ==
             f = [k \in 0 .. n |-> IF k = 0 THEN <<>> ELSE Nested(f[k - 1], tokens[k])]
           S == {n \in Nat : \E f : Fills(f, n)}
<1>1. 0 \in S
  <2> DEFINE f == [k \in 0 .. 0 |-> <<>>]
  <2>1. Fills(f, 0)
    OBVIOUS
  <2> QED
    BY <2>1
<1>2. ASSUME NEW n \in S PROVE n + 1 \in S
  <2>1. PICK f : Fills(f, n)
    OBVIOUS
  <2> DEFINE e == [k \in 0 .. n + 1 |-> IF k = n + 1 THEN Nested(f[n], tokens[n + 1]) ELSE f[k]]
  <2>2. \A k \in 0 .. n + 1 : e[k] = IF k = 0 THEN <<>> ELSE Nested(e[k - 1], tokens[k])
    <3> TAKE k \in 0 .. n + 1
    <3>1. n \in Nat /\ (k = n + 1 \/ k \in 0 .. n)
      OBVIOUS
    <3>2. CASE k = n + 1
      <4>1. k # 0 /\ k - 1 = n /\ k - 1 \in 0 .. n + 1 /\ k - 1 # n + 1
        BY <3>1, <3>2
      <4>2. e[k - 1] = f[n] /\ e[k] = Nested(f[n], tokens[n + 1])
        BY <3>2, <4>1
      <4> QED
        BY <3>2, <4>1, <4>2
    <3>3. CASE k \in 0 .. n
      <4>1. e[k] = f[k] /\ f[k] = IF k = 0 THEN <<>> ELSE Nested(f[k - 1], tokens[k])
        BY <2>1, <3>1, <3>3
      <4>2. k # 0 => k - 1 \in 0 .. n + 1 /\ k - 1 # n + 1 /\ e[k - 1] = f[k - 1]
        BY <3>1, <3>3
      <4> QED
        BY <4>1, <4>2
    <3> QED
      BY <3>1, <3>2, <3>3
  <2>3. e = [k \in 0 .. n + 1 |-> e[k]]
    OBVIOUS
  <2> HIDE DEF e
  <2>4. Fills(e, n + 1)
    BY <2>2, <2>3
  <2>5. n + 1 \in Nat
    OBVIOUS
  <2> HIDE DEF Fills
  <2> QED
    BY <2>4, <2>5
<1>3. S = Nat
  <2> HIDE DEF S
  <2>1. S \in SUBSET Nat
    BY DEF S
  <2> QED
    BY <1>1, <1>2, <2>1, SetInduction
<1> DEFINE h == CHOOSE f : Fills(f, Len(tokens))
<1>4. Fills(h, Len(tokens))
  <2> HIDE DEF Fills
  <2>1. \E f : Fills(f, Len(tokens))
    BY <1>3
  <2> QED
    BY <2>1
<1>5. \A k \in 0 .. Len(tokens) : OpenAfter(k) = h[k]
  BY DEF OpenAfter
<1> HIDE DEF h
<1>6. /\ h[0] = <<>>
      /\ \A k \in 1 .. Len(tokens) : h[k] = Nested(h[k - 1], tokens[k]) /\ k - 1 \in 0 .. Len(tokens)
  BY <1>4
<1>7. 0 \in 0 .. Len(tokens) /\ 1 .. Len(tokens) \subseteq 0 .. Len(tokens)
  OBVIOUS
<1> QED
  BY <1>5, <1>6, <1>7

-----------------------------------------------------------------------------
(* The cursor. *)
Places == [index : 1 .. End, current : 0 .. End]

TokensOk == tokens \in Seq(STRING \ {"EOF"})

\* What is open before the next token.
Before(c) == OpenAfter(c.index - 1)

Brackety == Opening \union DOMAIN Partner

LEMMA PartnerFacts ==
  /\ DOMAIN Partner = {"RPAREN", "RBRACE"}
  /\ Partner["RPAREN"] = "LPAREN" /\ Partner["RBRACE"] = "LBRACE"
  /\ Brackety = {"LPAREN", "LBRACE", "RPAREN", "RBRACE"}
<1>1. DOMAIN Partner = {"RPAREN", "RBRACE"}
  BY DEF Partner
<1>2. Partner["RPAREN"] = "LPAREN" /\ Partner["RBRACE"] = "LBRACE"
  BY DEF Partner
<1> QED
  BY <1>1, <1>2 DEF Brackety, Opening

LEMMA KindFacts ==
  ASSUME TokensOk
  PROVE  /\ Len(tokens) \in Nat /\ End = Len(tokens) + 1
         /\ \A i \in 1 .. Len(tokens) : Kind(i) = tokens[i] /\ Kind(i) # "EOF"
         /\ Kind(End) = "EOF" /\ Kind(0) = "none"
<1>1. Len(tokens) \in Nat /\ DOMAIN tokens = 1 .. Len(tokens) /\ End = Len(tokens) + 1
  BY LenProperties DEF TokensOk, End
<1>2. ASSUME NEW i \in 1 .. Len(tokens)
      PROVE  Kind(i) = tokens[i] /\ Kind(i) # "EOF"
  <2>1. tokens[i] \in STRING \ {"EOF"}
    BY ElementOfSeq DEF TokensOk
  <2> QED
    BY <1>1, <2>1 DEF Kind
<1>3. End \notin DOMAIN tokens /\ 0 \notin DOMAIN tokens /\ 0 # End
  BY <1>1
<1> QED
  BY <1>1, <1>2, <1>3 DEF Kind

LEMMA SeesToken ==
  ASSUME TokensOk, NEW c \in Places, peek(c) # "EOF"
  PROVE  /\ c.index \in 1 .. Len(tokens) /\ c.index \in 0 .. Len(tokens)
         /\ tokens[c.index] = peek(c) /\ c.index < End
<1>1. c.index \in 1 .. End
  BY DEF Places
<1>2. c.index # End
  BY KindFacts DEF peek
<1> QED
  BY <1>1, <1>2, KindFacts DEF peek

LEMMA AdvanceFacts ==
  ASSUME TokensOk, NEW c \in Places
  PROVE  /\ advance(c) \in Places
         /\ peek(c) # "EOF" => advance(c).index = c.index + 1 /\ advance(c).current = c.index
         /\ peek(c) = "EOF" => advance(c).index = c.index /\ advance(c).current = End
<1>1. c.index \in 1 .. End /\ c.current \in 0 .. End /\ End \in Nat \ {0}
  BY KindFacts DEF Places
<1>2. CASE c.index < End
  <2>1. advance(c) = [index |-> c.index + 1, current |-> c.index]
    BY <1>2 DEF advance
  <2>2. c.index + 1 \in 1 .. End /\ c.index \in 0 .. End /\ c.index \in 1 .. Len(tokens)
    BY <1>1, <1>2, KindFacts
  <2>3. peek(c) # "EOF"
    BY <2>2, KindFacts DEF peek
  <2> QED
    BY <2>1, <2>2, <2>3 DEF Places
<1>3. CASE ~(c.index < End)
  <2>1. advance(c) = [c EXCEPT !.current = End] /\ c.index = End
    BY <1>1, <1>3 DEF advance
  <2>2. peek(c) = "EOF"
    BY <2>1, KindFacts DEF peek
  <2> QED
    BY <1>1, <2>1, <2>2 DEF Places
<1> QED
  BY <1>2, <1>3

LEMMA MatchedFacts ==
  ASSUME TokensOk, NEW c \in Places, NEW kinds
  PROVE  matched(c, kinds) \in Places
  BY AdvanceFacts DEF matched

LEMMA OpenAfterTyped ==
  ASSUME Len(tokens) \in Nat
  PROVE  \A k \in 0 .. Len(tokens) : OpenAfter(k) \in Seq(Brackets)
<1> DEFINE S == {n \in Nat : n <= Len(tokens) => OpenAfter(n) \in Seq(Brackets)}
<1>1. 0 \in S
  BY OpenAfterSteps, EmptySeq
<1>2. ASSUME NEW n \in S PROVE n + 1 \in S
  <2>1. SUFFICES ASSUME n + 1 <= Len(tokens) PROVE OpenAfter(n + 1) \in Seq(Brackets)
    OBVIOUS
  <2>2. n \in Nat /\ n + 1 \in 1 .. Len(tokens) /\ (n + 1) - 1 = n /\ OpenAfter(n) \in Seq(Brackets)
    BY <2>1
  <2>3. PICK before, t : before = OpenAfter(n) /\ t = tokens[n + 1]
    OBVIOUS
  <2>4. OpenAfter(n + 1) = Nested(before, t) /\ before \in Seq(Brackets)
    BY <2>2, <2>3, OpenAfterSteps
  <2>5. << "wrong" >> \in Seq(Brackets) /\ (t \in Opening => << t >> \in Seq(Brackets))
    <3>1. "wrong" \in Brackets /\ Opening \subseteq Brackets
      BY DEF Brackets
    <3> QED
      BY <3>1, OneElement
  <2>6. before # <<>> => Tail(before) \in Seq(Brackets)
    BY <2>4
  <2>7. \A x \in Seq(Brackets) : x \o before \in Seq(Brackets)
    BY <2>4, ConcatProperties
  <2> QED
    BY <2>4, <2>5, <2>6, <2>7 DEF Nested
<1>3. S = Nat
  <2> HIDE DEF S
  <2>1. S \in SUBSET Nat
    BY DEF S
  <2> QED
    BY <1>1, <1>2, <2>1, SetInduction
<1> QED
  BY <1>3

LEMMA BeforeTyped ==
  ASSUME TokensOk, NEW c \in Places
  PROVE  Before(c) \in Seq(Brackets)
<1>1. c.index - 1 \in 0 .. Len(tokens) /\ Len(tokens) \in Nat
  BY KindFacts DEF Places
<1> QED
  BY <1>1, OpenAfterTyped DEF Before

LEMMA AdvanceNests ==
  ASSUME TokensOk, NEW c \in Places
  PROVE  Before(advance(c)) = IF peek(c) = "EOF" THEN Before(c) ELSE Nested(Before(c), peek(c))
<1>1. CASE peek(c) = "EOF"
  BY <1>1, AdvanceFacts DEF Before
<1>2. CASE peek(c) # "EOF"
  <2>1. /\ c.index \in 1 .. Len(tokens) /\ (c.index + 1) - 1 = c.index
        /\ advance(c).index = c.index + 1 /\ tokens[c.index] = peek(c) /\ Len(tokens) \in Nat
    BY <1>2, AdvanceFacts, SeesToken, KindFacts
  <2>2. OpenAfter(c.index) = Nested(OpenAfter(c.index - 1), tokens[c.index])
    BY <2>1, OpenAfterSteps
  <2> QED
    BY <1>2, <2>1, <2>2 DEF Before
<1> QED
  BY <1>1, <1>2

(* Tokens that are no brackets leave open what was open. *)
LEMMA AdvanceQuiet ==
  ASSUME TokensOk, NEW c \in Places, peek(c) \notin Brackety
  PROVE  Before(advance(c)) = Before(c)
  BY AdvanceNests DEF Nested, Brackety

LEMMA MatchedQuiet ==
  ASSUME TokensOk, NEW c \in Places, NEW kinds, kinds \intersect Brackety = {}
  PROVE  Before(matched(c, kinds)) = Before(c)
<1>1. "EOF" \notin Brackety
  BY PartnerFacts
<1> QED
  BY <1>1, AdvanceQuiet DEF matched, matches

LEMMA AdvanceOpens ==
  ASSUME TokensOk, NEW c \in Places, peek(c) \in Opening
  PROVE  Before(advance(c)) = << peek(c) >> \o Before(c)
<1>1. peek(c) # "EOF"
  BY DEF Opening
<1> QED
  BY <1>1, AdvanceNests DEF Nested

LEMMA AdvanceCloses ==
  ASSUME TokensOk, NEW c \in Places, peek(c) \in DOMAIN Partner,
         NEW r \in Seq(Brackets), Before(c) = << Partner[peek(c)] >> \o r
  PROVE  Before(advance(c)) = r
<1>1. peek(c) # "EOF" /\ peek(c) \notin Opening
  BY PartnerFacts DEF Opening
<1>2. PICK t, b, p : t = peek(c) /\ b = Before(c) /\ p = Partner[peek(c)]
  OBVIOUS
<1>3. Partner[peek(c)] \in Brackets
  BY PartnerFacts DEF Brackets, Opening
<1>4. b # <<>> /\ Head(b) = p /\ Tail(b) = r
  BY ONLY <1>2, <1>3, r \in Seq(Brackets), Before(c) = << Partner[peek(c)] >> \o r
<1> QED
  BY <1>1, <1>2, <1>4, AdvanceNests DEF Nested

-----------------------------------------------------------------------------
Tree == TreesUpTo(Len(tokens))

NoTernary == \A k \in DOMAIN tokens : tokens[k] # "QUESTION"

\* A declaration parsed to nothing: the program is given up.
GivesUp == Head(calls).do = "decl" /\ value = Missing

(* While a program without a ternary is parsed without a complaint, the brackets
   that are open are those the pending calls are to close. *)
Balanced ==
  NoTernary /\ ~reported =>
    /\ outcome = "parsing" =>
         /\ \A k \in 1 .. Len(calls) : calls[k].do # "true_expr"
         /\ GivesUp \/ Closes(calls, Before(cursor))
    /\ outcome = "parsed" /\ value # Missing => OpenAfter(Len(tokens)) = <<>>

\* The inductive invariant.
PInv ==
  /\ TokensOk
  /\ cursor \in Places
  /\ value \in Tree
  /\ outcome \in {"parsing", "parsed", "exited", "crashed"} /\ reported \in BOOLEAN
  /\ outcome = "parsing" => Stacked(calls, Len(tokens))
  /\ outcome # "parsing" => calls = <<>>
  /\ Balanced

(* What a step does to the brackets: it gives up a declaration, or closes and
   opens what it reads. *)
Fits(pending, v, c) ==
  \/ Head(calls).do = "params" /\ pending = <<>> /\ v = Missing
  \/ \A r \in Seq(Brackets) :
       Before(cursor) = BracketOf(Head(calls)) \o r =>
         \E b : Adds(pending, b) /\ Before(c) = b \o r

Works(pending, v, c, complaint) ==
  /\ Replaces(pending, Head(calls), Len(tokens))
  /\ v \in Tree /\ c \in Places
  /\ NoTernary /\ ~complaint /\ Head(calls).do # "true_expr" =>
       (\A k \in 1 .. Len(pending) : pending[k].do # "true_expr") /\ Fits(pending, v, c)

LEMMA MissingIsTree ==
  ASSUME NEW last \in Nat
  PROVE  Missing \in TreesUpTo(last)
<1>1. "NULL" \in NodeTypes /\ 0 \in 0 .. last /\ <<>> \in Seq(TreesUpTo(last))
  BY EmptySeq DEF NodeTypes
<1> QED
  BY <1>1, NodeIsTree DEF Missing, Leaf

LEMMA StepSound ==
  ASSUME PInv, outcome = "parsing", NEW pending, NEW v, NEW c, NEW complaint,
         Works(pending, v, c, complaint), Step(pending, v, c, complaint),
         Head(calls).do = "decl" => value # Missing
  PROVE  PInv'
<1>0. /\ calls' = pending \o Tail(calls) /\ value' = v /\ cursor' = c
      /\ reported' = (reported \/ complaint) /\ tokens' = tokens /\ outcome' = outcome
  BY DEF Step
<1>1. /\ TokensOk /\ cursor \in Places /\ Len(tokens) \in Nat /\ reported \in BOOLEAN
      /\ Stacked(calls, Len(tokens)) /\ Balanced
  BY KindFacts DEF PInv
<1>2. Stacked(calls', Len(tokens))
  BY <1>0, <1>1, StackedAfter DEF Works
<1>3. v \in Tree /\ c \in Places
  BY DEF Works
<1>4. reported' \in BOOLEAN
  BY <1>0
<1>5. PICK A : A = Item(Len(tokens)) /\ calls \in Seq(A) /\ calls # <<>>
  BY <1>1 DEF Stacked
<1>6. PICK B : pending \in Seq(B)
  <2>1. \A x : << x >> \in Seq({x})
    BY OneElement
  <2>2. \A x, y : << x, y >> \in Seq({x, y})
    OBVIOUS
  <2>3. \/ pending \in Seq(Inner(Len(tokens)))
        \/ \E x : pending = << x >>
        \/ \E x, y : pending = << x, y >>
    BY DEF Works, Replaces
  <2>4. CASE \E x : pending = << x >>
    <3>1. PICK x : pending = << x >>
      BY <2>4
    <3>2. pending \in Seq({x})
      BY <2>1, <3>1
    <3> QED
      BY <3>2
  <2>5. CASE \E x, y : pending = << x, y >>
    <3>1. PICK x, y : pending = << x, y >>
      BY <2>5
    <3>2. pending \in Seq({x, y})
      BY <2>2, <3>1
    <3> QED
      BY <3>2
  <2> QED
    BY <2>3, <2>4, <2>5
<1>7. ASSUME NoTernary, ~reported, ~complaint
      PROVE  /\ \A k \in 1 .. Len(calls') : calls'[k].do # "true_expr"
             /\ GivesUp' \/ Closes(calls', Before(c))
  <2>1. /\ \A k \in 1 .. Len(calls) : calls[k].do # "true_expr"
        /\ Closes(calls, Before(cursor))
    BY <1>1, <1>7 DEF Balanced, GivesUp
  <2>2. /\ Head(calls) = calls[1] /\ 1 \in 1 .. Len(calls) /\ Len(calls) \in Nat \ {0}
        /\ Tail(calls) \in Seq(A) /\ Len(Tail(calls)) = Len(calls) - 1
        /\ \A k \in 1 .. Len(Tail(calls)) : Tail(calls)[k] = calls[k + 1]
    BY <1>5
  <2>3. Head(calls).do # "true_expr"
    BY <2>1, <2>2
  <2>4. (\A k \in 1 .. Len(pending) : pending[k].do # "true_expr") /\ Fits(pending, v, c)
    BY <1>7, <2>3 DEF Works
  <2>5. \A k \in 1 .. Len(calls') : calls'[k].do # "true_expr"
    <3>1. PICK t, p, u : t = Tail(calls) /\ p = pending /\ u = calls'
      OBVIOUS
    <3>2. /\ t \in Seq(A \union B) /\ p \in Seq(A \union B) /\ u = p \o t
      BY <1>0, <1>6, <2>2, <3>1, SeqMonotonic
    <3>3. /\ Len(t) \in Nat /\ Len(p) \in Nat /\ Len(u) = Len(p) + Len(t)
          /\ \A k \in 1 .. Len(u) : u[k] = IF k <= Len(p) THEN p[k] ELSE t[k - Len(p)]
      BY <3>2, ConcatProperties, LenProperties
    <3>4. \A k \in 1 .. Len(t) : t[k].do # "true_expr"
      <4> TAKE k \in 1 .. Len(t)
      <4>1. k + 1 \in 1 .. Len(calls) /\ t[k] = calls[k + 1]
        BY <2>2, <3>1
      <4> QED
        BY <2>1, <4>1
    <3>5. ASSUME NEW k \in 1 .. Len(u) PROVE u[k].do # "true_expr"
      <4>1. CASE k <= Len(p)
        <5>1. k \in 1 .. Len(p) /\ u[k] = p[k]
          BY <3>3, <4>1
        <5> QED
          BY <2>4, <3>1, <5>1
      <4>2. CASE ~(k <= Len(p))
        <5>1. k - Len(p) \in 1 .. Len(t) /\ u[k] = t[k - Len(p)]
          BY <3>3, <4>2
        <5> QED
          BY <3>4, <5>1
      <4> QED
        BY <4>1, <4>2
    <3> QED
      BY <3>1, <3>5
  <2>6. CASE Head(calls).do = "params" /\ pending = <<>> /\ v = Missing
    <3>1. 1 + 1 = Len(calls) /\ calls[1 + 1].do = "decl"
      BY <1>1, <2>2, <2>6 DEF Stacked
    <3>2. calls' = Tail(calls)
      BY <1>0, <2>2, <2>6, ConcatEmptySeq
    <3>3. Len(Tail(calls)) = 1 /\ Tail(calls)[1] = calls[1 + 1]
      <4>1. PICK t, n : t = Tail(calls) /\ n = Len(t)
        OBVIOUS
      <4>3. \A m \in Nat : 1 + 1 = m => m - 1 = 1
        OBVIOUS
      <4>2. n = 1
        BY <2>2, <3>1, <4>1, <4>3
      <4>4. 1 \in 1 .. Len(Tail(calls)) /\ Len(Tail(calls)) = 1
        BY <4>1, <4>2
      <4> QED
        BY <2>2, <4>4
    <3>4. Head(calls').do = "decl"
      BY <2>2, <3>1, <3>2, <3>3
    <3> QED
      BY <1>0, <2>5, <2>6, <3>4 DEF GivesUp
  <2>7. CASE \A r \in Seq(Brackets) :
               Before(cursor) = BracketOf(Head(calls)) \o r =>
                 \E b : Adds(pending, b) /\ Before(c) = b \o r
    <3>1. PICK r \in Seq(Brackets) :
            Before(cursor) = BracketOf(Head(calls)) \o r /\ Closes(Tail(calls), r)
      BY <1>5, <2>1, ClosesLess
    <3>2. PICK b : Adds(pending, b) /\ Before(c) = b \o r
      BY <2>7, <3>1
    <3>3. Closes(pending \o Tail(calls), b \o r)
      BY <1>6, <2>2, <3>1, <3>2, ClosesMore
    <3> QED
      BY <1>0, <2>5, <3>2, <3>3
  <2> QED
    BY <2>4, <2>6, <2>7 DEF Fits
<1>8. NoTernary' = NoTernary /\ Before(c)' = OpenAfter(c.index - 1)'
  BY <1>0 DEF NoTernary, Before
<1>9. \A k : OpenAfter(k)' = OpenAfter(k)
  BY <1>0 DEF OpenAfter
<1>10. Before(cursor)' = Before(c)
  BY <1>0, <1>9 DEF Before
<1>11. Balanced'
  <2>1. SUFFICES ASSUME NoTernary', ~reported'
        PROVE  /\ \A k \in 1 .. Len(calls') : calls'[k].do # "true_expr"
               /\ GivesUp' \/ Closes(calls', Before(cursor)')
    BY <1>0 DEF Balanced
  <2> QED
    BY <1>0, <1>7, <1>8, <1>10, <2>1
<1>12. TokensOk' /\ cursor' \in Places' /\ value' \in Tree'
  BY <1>0, <1>1, <1>3 DEF TokensOk, Places, End, Tree
<1> QED
  BY <1>0, <1>2, <1>4, <1>11, <1>12 DEF PInv

LEMMA StopSound ==
  ASSUME PInv, NEW how \in {"parsed", "exited", "crashed"}, NEW v \in Tree, Stop(how, v),
         how = "parsed" /\ v # Missing /\ NoTernary /\ ~reported => OpenAfter(Len(tokens)) = <<>>
  PROVE  PInv'
<1>1. /\ outcome' = how /\ value' = v /\ calls' = <<>>
      /\ tokens' = tokens /\ cursor' = cursor /\ reported' = reported
  BY DEF Stop
<1>2. NoTernary' = NoTernary /\ OpenAfter(Len(tokens))' = OpenAfter(Len(tokens))
  BY <1>1 DEF NoTernary, OpenAfter
<1>3. Balanced'
  BY <1>1, <1>2 DEF Balanced
<1>4. TokensOk' /\ cursor' \in Places' /\ value' \in Tree'
  BY <1>1 DEF PInv, TokensOk, Places, End, Tree
<1> QED
  BY <1>1, <1>3, <1>4 DEF PInv

-----------------------------------------------------------------------------
LEMMA InnerFields ==
  ASSUME NEW last \in Nat, NEW h \in Inner(last)
  PROVE  /\ h.do \in {"block", "stmt"} => h.list \in Seq(TreesUpTo(last))
         /\ h.do \in {"var_decl", "start", "operand", "fn", "end", "body", "assign", "right"} =>
              h.at \in 0 .. last
         /\ h.do = "fn" => h.params \in Seq(TreesUpTo(last))
         /\ h.do = "end" => h.start \in TreesUpTo(last)
         /\ h.do = "body" => h.range \in TreesUpTo(last)
         /\ h.do \in {"then", "true_expr", "false_expr"} => h.condition \in TreesUpTo(last)
         /\ h.do = "false_expr" => h.true_expr \in TreesUpTo(last)
         /\ h.do = "else" => h.parts \in Seq(TreesUpTo(last))
         /\ h.do \in {"assign", "right"} => h.left \in TreesUpTo(last)
         /\ h.do = "right" => h.level \in 1 .. 6
         /\ h.do = "operators" => h \in [do : {"operators"}, low : 1 .. 7, high : 1 .. 6]
         /\ h.do = "arguments" =>
              h \in [do : {"arguments"}, callee : TreesUpTo(last), list : Seq(TreesUpTo(last))]
  BY DEF Inner, PlainCalls

LEMMA ItemKinds ==
  ASSUME NEW last \in Nat, NEW h \in Item(last)
  PROVE  /\ h.do \notin OuterCalls \union {"declaration", "params"} => h \in Inner(last)
         /\ h.do \in OuterCalls => h \in Outer(last)
         /\ h.do = "params" => h \in [do : {"params"}, at : 0 .. last, params : Seq(TreesUpTo(last))]
<1>1. CASE h \in Inner(last)
  BY <1>1, InnerCalls DEF OuterCalls
<1>2. CASE h \in Declared(last)
  BY <1>2 DEF Declared, OuterCalls
<1>3. CASE h \in Outer(last)
  BY <1>3 DEF Outer, OuterCalls
<1> QED
  BY <1>1, <1>2, <1>3 DEF Item

\* What holds while the parser works.
LEMMA Working ==
  ASSUME PInv, outcome = "parsing"
  PROVE  /\ TokensOk /\ Len(tokens) \in Nat /\ cursor \in Places /\ value \in Tree
         /\ Head(calls) \in Item(Len(tokens))
<1>1. TokensOk /\ cursor \in Places /\ value \in Tree /\ Stacked(calls, Len(tokens))
  BY DEF PInv
<1>2. calls \in Seq(Item(Len(tokens))) /\ calls # <<>>
  BY <1>1 DEF Stacked
<1>3. Head(calls) \in Item(Len(tokens))
  <2>1. PICK A : A = Item(Len(tokens))
    OBVIOUS
  <2> QED
    BY <1>2, <2>1
<1> QED
  BY <1>1, <1>3, KindFacts

(* The pending calls of a step: they close what b says, and no ternary. *)
Pends(pending, b) ==
  /\ pending \in Seq(Inner(Len(tokens)))
  /\ Adds(pending, b)
  /\ \A k \in 1 .. Len(pending) : pending[k].do # "true_expr"

LEMMA PendsNothing == Pends(<<>>, <<>>)
<1>1. <<>> \in Seq(Inner(Len(tokens))) /\ 1 .. Len(<<>>) = {}
  BY EmptySeq
<1> QED
  BY <1>1 DEF Pends, Adds

LEMMA PendsOne ==
  ASSUME NEW x \in Inner(Len(tokens)), x.do # "true_expr"
  PROVE  Pends(<< x >>, BracketOf(x))
<1>1. PICK s : s = << x >>
  OBVIOUS
<1>2. PICK A : A = Inner(Len(tokens)) /\ x \in A
  OBVIOUS
<1>3. s \in Seq(A) /\ Len(s) = 1 /\ s[1] = x /\ 1 .. Len(s) = {1}
  BY <1>1, <1>2
<1>4. Adds(s, BracketOf(x))
  BY <1>3 DEF Adds
<1>5. Pends(s, BracketOf(x))
  BY <1>2, <1>3, <1>4 DEF Pends
<1> QED
  BY <1>1, <1>5

LEMMA PendsTwo ==
  ASSUME NEW x \in Inner(Len(tokens)), x.do # "true_expr", BracketOf(x) = <<>>,
         NEW y \in Inner(Len(tokens)), y.do # "true_expr"
  PROVE  Pends(<< x, y >>, BracketOf(y))
<1>1. PICK s : s = << x, y >>
  OBVIOUS
<1>2. PICK A : A = Inner(Len(tokens)) /\ x \in A /\ y \in A
  OBVIOUS
<1>3. s \in Seq(A) /\ Len(s) = 2 /\ s[1] = x /\ s[2] = y /\ 1 .. Len(s) = {1, 2}
  BY <1>1, <1>2
<1>4. Adds(s, BracketOf(y))
  BY <1>3 DEF Adds
<1>5. Pends(s, BracketOf(y))
  BY <1>2, <1>3, <1>4 DEF Pends
<1> QED
  BY <1>1, <1>5

LEMMA PendsAfter ==
  ASSUME NEW p, Pends(p, <<>>), NEW q, NEW b, Pends(q, b)
  PROVE  Pends(p \o q, b)
<1>1. PICK A : A = Inner(Len(tokens)) /\ p \in Seq(A) /\ q \in Seq(A)
  BY DEF Pends
<1>2. PICK u : u = p \o q
  OBVIOUS
<1>3. /\ u \in Seq(A) /\ Len(u) = Len(p) + Len(q) /\ Len(p) \in Nat /\ Len(q) \in Nat
      /\ \A k \in 1 .. Len(p) : u[k] = p[k]
      /\ \A k \in 1 .. Len(q) : Len(p) + k \in 1 .. Len(u) /\ u[Len(p) + k] = q[k]
      /\ \A k \in 1 .. Len(u) : k <= Len(p) \/ k - Len(p) \in 1 .. Len(q)
  BY <1>1, <1>2
<1>4. \A k \in 1 .. Len(p) : BracketOf(p[k]) = <<>>
  BY DEF Pends, Adds
<1>5. ASSUME NEW k \in 1 .. Len(u)
      PROVE  \/ k \in 1 .. Len(p) /\ u[k] = p[k]
             \/ \E j \in 1 .. Len(q) : k = Len(p) + j /\ u[k] = q[j]
  <2>1. CASE k <= Len(p)
    BY <1>3, <2>1
  <2>2. CASE ~(k <= Len(p))
    <3>1. k - Len(p) \in 1 .. Len(q) /\ k = Len(p) + (k - Len(p))
      BY <1>3, <2>2
    <3> QED
      BY <1>3, <3>1
  <2> QED
    BY <2>1, <2>2
<1>6. \A k \in 1 .. Len(u) : u[k].do # "true_expr"
  BY <1>5 DEF Pends
<1>7. Adds(u, b)
  <2>1. CASE b = <<>> /\ \A k \in 1 .. Len(q) : BracketOf(q[k]) = <<>>
    <3>1. \A k \in 1 .. Len(u) : BracketOf(u[k]) = <<>>
      BY <1>4, <1>5, <2>1
    <3> QED
      BY <2>1, <3>1 DEF Adds
  <2>2. CASE \E j \in 1 .. Len(q) :
               /\ b = BracketOf(q[j])
               /\ \A k \in 1 .. Len(q) : k # j => BracketOf(q[k]) = <<>>
    <3>1. PICK j \in 1 .. Len(q) :
               /\ b = BracketOf(q[j])
               /\ \A k \in 1 .. Len(q) : k # j => BracketOf(q[k]) = <<>>
      BY <2>2
    <3>2. PICK i \in 1 .. Len(u) : i = Len(p) + j /\ u[i] = q[j]
      BY <1>3
    <3>3. \A k \in 1 .. Len(u) : k # i => BracketOf(u[k]) = <<>>
      BY <1>4, <1>5, <3>1, <3>2
    <3> QED
      BY <3>1, <3>2, <3>3 DEF Adds
  <2> QED
    BY <2>1, <2>2 DEF Pends, Adds
<1>8. Pends(u, b)
  BY <1>1, <1>3, <1>6, <1>7 DEF Pends
<1> QED
  BY <1>2, <1>8

\* A step leaves to do what closes b, which it reads up to c.
Reads(pending, c, complaint, b) ==
  NoTernary /\ ~complaint /\ Head(calls).do # "true_expr" =>
    /\ Pends(pending, b)
    /\ \A r \in Seq(Brackets) :
         Before(cursor) = BracketOf(Head(calls)) \o r => Before(c) = b \o r

\* A step of a call that is not of the program itself.
LEMMA InnerSound ==
  ASSUME PInv, outcome = "parsing", Head(calls).do \notin OuterCalls,
         NEW pending, NEW v, NEW c, NEW complaint, Step(pending, v, c, complaint),
         pending \in Seq(Inner(Len(tokens))), v \in Tree, c \in Places, NEW b,
         Reads(pending, c, complaint, b)
  PROVE  PInv'
<1>1. Replaces(pending, Head(calls), Len(tokens))
  BY DEF Replaces
<1>2. Works(pending, v, c, complaint)
  BY <1>1 DEF Works, Fits, Pends, Reads
<1> QED
  BY <1>2, StepSound DEF OuterCalls

\* One that reads no bracket.
LEMMA QuietSound ==
  ASSUME PInv, outcome = "parsing", Head(calls).do \notin OuterCalls,
         NEW pending, NEW v, NEW c, NEW complaint, Step(pending, v, c, complaint),
         Pends(pending, BracketOf(Head(calls))), v \in Tree, c \in Places,
         Before(c) = Before(cursor)
  PROVE  PInv'
<1>1. pending \in Seq(Inner(Len(tokens)))
  BY DEF Pends
<1>2. Reads(pending, c, complaint, BracketOf(Head(calls)))
  BY DEF Reads
<1> QED
  BY <1>1, <1>2, InnerSound

\* One that reads an opening bracket, or a closing one.
LEMMA OpeningSound ==
  ASSUME PInv, outcome = "parsing", Head(calls).do \notin OuterCalls, BracketOf(Head(calls)) = <<>>,
         NEW pending, NEW v, NEW c, NEW complaint, Step(pending, v, c, complaint),
         NEW b, Pends(pending, b), v \in Tree, c \in Places, Before(c) = b \o Before(cursor)
  PROVE  PInv'
<1>1. pending \in Seq(Inner(Len(tokens)))
  BY DEF Pends
<1>2. \A r \in Seq(Brackets) : <<>> \o r = r
  BY ConcatEmptySeq
<1>3. \A r \in Seq(Brackets) :
        Before(cursor) = BracketOf(Head(calls)) \o r => Before(c) = b \o r
  BY <1>2
<1>4. Reads(pending, c, complaint, b)
  BY <1>3 DEF Reads
<1> QED
  BY <1>1, <1>4, InnerSound

LEMMA ClosingSound ==
  ASSUME PInv, outcome = "parsing", Head(calls).do \notin OuterCalls,
         NEW pending, NEW v, NEW c, NEW complaint, Step(pending, v, c, complaint),
         Pends(pending, <<>>), v \in Tree, c \in Places,
         ~complaint => /\ peek(cursor) \in DOMAIN Partner /\ c = advance(cursor)
                       /\ BracketOf(Head(calls)) = << Partner[peek(cursor)] >>
  PROVE  PInv'
<1>1. pending \in Seq(Inner(Len(tokens)))
  BY DEF Pends
<1>2. ASSUME ~complaint, NEW r \in Seq(Brackets), Before(cursor) = BracketOf(Head(calls)) \o r
      PROVE  Before(c) = <<>> \o r
  <2>1. Before(c) = r
    BY <1>2, Working, AdvanceCloses
  <2> QED
    BY <2>1, ConcatEmptySeq
<1>3. Reads(pending, c, complaint, <<>>)
  BY <1>2 DEF Reads
<1> QED
  BY <1>1, <1>3, InnerSound

-----------------------------------------------------------------------------
LEMMA BracketCases ==
  ASSUME NEW x
  PROVE  /\ x.do \in {"parenthesis", "arguments", "params"} => BracketOf(x) = << "LPAREN" >>
         /\ x.do \in {"block", "stmt"} => BracketOf(x) = << "LBRACE" >>
         /\ x.do \notin {"parenthesis", "arguments", "params", "block", "stmt"} => BracketOf(x) = <<>>
  BY DEF BracketOf

LEMMA PlainCallFacts ==
  ASSUME NEW last \in Nat, NEW k \in PlainCalls
  PROVE  /\ Call(k) \in Inner(last) /\ Call(k).do = k /\ Call(k).do # "true_expr"
         /\ k # "parenthesis" => BracketOf(Call(k)) = <<>>
         /\ k = "parenthesis" => BracketOf(Call(k)) = << "LPAREN" >>
<1>1. Call(k) \in Inner(last) /\ Call(k).do = k
  BY DEF Call, Inner
<1>2. k \notin {"true_expr", "arguments", "params", "block", "stmt"}
  BY DEF PlainCalls
<1> QED
  BY <1>1, <1>2, BracketCases

LEMMA MadeItems ==
  ASSUME NEW last \in Nat, NEW at \in 0 .. last, NEW t \in TreesUpTo(last), NEW u \in TreesUpTo(last),
         NEW list \in Seq(TreesUpTo(last)), NEW l \in 1 .. 7, NEW h \in 1 .. 6
  PROVE  /\ \A k \in {"block", "stmt"} : [do |-> k, list |-> list] \in Inner(last)
         /\ \A k \in {"var_decl", "start", "operand"} : [do |-> k, at |-> at] \in Inner(last)
         /\ [do |-> "fn", at |-> at, params |-> list] \in Inner(last)
         /\ [do |-> "end", at |-> at, start |-> t] \in Inner(last)
         /\ [do |-> "body", at |-> at, range |-> t] \in Inner(last)
         /\ \A k \in {"then", "true_expr"} : [do |-> k, condition |-> t] \in Inner(last)
         /\ [do |-> "else", parts |-> list] \in Inner(last)
         /\ [do |-> "false_expr", condition |-> t, true_expr |-> u] \in Inner(last)
         /\ [do |-> "assign", at |-> at, left |-> t] \in Inner(last)
         /\ [do |-> "operators", low |-> l, high |-> h] \in Inner(last)
         /\ [do |-> "right", level |-> h, at |-> at, left |-> t] \in Inner(last)
         /\ [do |-> "arguments", callee |-> t, list |-> list] \in Inner(last)
  BY DEF Inner

LEMMA LevelsPend ==
  ASSUME Len(tokens) \in Nat, NEW l \in 1 .. 7
  PROVE  Pends(Levels(l), <<>>)
<1>1. PICK x, y : x = Call("unary") /\ y = [do |-> "operators", low |-> l, high |-> 6]
  OBVIOUS
<1>2. x \in Inner(Len(tokens)) /\ x.do # "true_expr" /\ BracketOf(x) = <<>>
  BY <1>1, PlainCallFacts DEF PlainCalls
<1>3. y \in Inner(Len(tokens)) /\ y.do # "true_expr" /\ BracketOf(y) = <<>>
  <2>1. 6 \in 1 .. 6 /\ 0 \in 0 .. Len(tokens) /\ <<>> \in Seq(TreesUpTo(Len(tokens)))
    BY EmptySeq
  <2>2. y \in Inner(Len(tokens)) /\ y.do = "operators"
    BY <1>1, <2>1, MissingIsTree, MadeItems
  <2> QED
    BY <2>2, BracketCases
<1>4. Pends(<< x, y >>, BracketOf(y))
  BY <1>2, <1>3, PendsTwo
<1> QED
  BY <1>1, <1>3, <1>4 DEF Levels

LEMMA CallPends ==
  ASSUME Len(tokens) \in Nat, NEW k \in PlainCalls, k # "parenthesis"
  PROVE  Pends(<< Call(k) >>, <<>>)
<1>1. Call(k) \in Inner(Len(tokens)) /\ Call(k).do # "true_expr" /\ BracketOf(Call(k)) = <<>>
  BY PlainCallFacts
<1>2. Pends(<< Call(k) >>, BracketOf(Call(k)))
  BY <1>1, PendsOne
<1> QED
  BY <1>1, <1>2

LEMMA ExpressionsPend ==
  ASSUME Len(tokens) \in Nat
  PROVE  Pends(Ternary, <<>>) /\ Pends(Expression, <<>>)
<1>1. Pends(Levels(1), <<>>) /\ Pends(<< Call("ternary") >>, <<>>) /\ Pends(<< Call("assignment") >>, <<>>)
  BY LevelsPend, CallPends DEF PlainCalls
<1>2. Pends(Ternary, <<>>)
  BY <1>1, PendsAfter DEF Ternary
<1> QED
  BY <1>1, <1>2, PendsAfter DEF Expression

\* A plain call and then the rest of a function.
LEMMA CallThenPends ==
  ASSUME Len(tokens) \in Nat, NEW k \in PlainCalls, k # "parenthesis",
         NEW y \in Inner(Len(tokens)), y.do # "true_expr"
  PROVE  Pends(<< Call(k), y >>, BracketOf(y))
<1>1. Call(k) \in Inner(Len(tokens)) /\ Call(k).do # "true_expr" /\ BracketOf(Call(k)) = <<>>
  BY PlainCallFacts
<1> QED
  BY <1>1, PendsTwo

LEMMA NodeInTree ==
  ASSUME Len(tokens) \in Nat, NEW type \in NodeTypes, NEW at \in 0 .. Len(tokens),
         NEW children \in Seq(Tree)
  PROVE  Node(type, at, children) \in Tree
  BY NodeIsTree DEF Tree

LEMMA SomeTypes ==
  {"UNARY_OP", "CALL", "TERNARY_OP", "ASSIGN", "EXPRESSION_STMT", "VAR_DECL", "RANGE", "FOR", "IF",
   "BREAK", "RETURN", "BLOCK", "FN_DECL", "COMPARE", "BINARY_OP", "SYMBOL"} \subseteq NodeTypes
  BY DEF NodeTypes, Named, Leaves

LEMMA LiteralFacts ==
  /\ DOMAIN Literal = {"INTEGER", "FLOAT", "TRUE", "STRING", "IDENTIFIER"}
  /\ \A k \in DOMAIN Literal : Literal[k] \in NodeTypes
<1>1. DOMAIN Literal = {"INTEGER", "FLOAT", "TRUE", "STRING", "IDENTIFIER"}
  BY DEF Literal
<1>2. /\ Literal["INTEGER"] = "INTEGER" /\ Literal["FLOAT"] = "FLOAT" /\ Literal["TRUE"] = "BOOL"
      /\ Literal["STRING"] = "STRING" /\ Literal["IDENTIFIER"] = "SYMBOL"
  BY DEF Literal
<1>3. {"INTEGER", "FLOAT", "BOOL", "STRING", "SYMBOL"} \subseteq NodeTypes
  BY DEF NodeTypes, Named, Leaves
<1> QED
  BY <1>1, <1>2, <1>3

LEMMA LevelFacts ==
  ASSUME NEW l \in 1 .. 6
  PROVE  /\ BinaryOps[l] \intersect Brackety = {} /\ "EOF" \notin BinaryOps[l]
         /\ NodeOf[l] \in NodeTypes
<1>1. l = 1 \/ l = 2 \/ l = 3 \/ l = 4 \/ l = 5 \/ l = 6
  OBVIOUS
<1>2. /\ BinaryOps[1] = {"OR"} /\ BinaryOps[2] = {"AND"} /\ BinaryOps[3] = {"EQ", "NEQ"}
      /\ BinaryOps[4] = {"LT", "GT", "LTE", "GTE"} /\ BinaryOps[5] = {"PLUS", "MINUS"}
      /\ BinaryOps[6] = {"ASTERISK", "SLASH"}
  BY DEF BinaryOps
<1>3. /\ NodeOf[1] = "COMPARE" /\ NodeOf[2] = "BINARY_OP" /\ NodeOf[3] = "COMPARE"
      /\ NodeOf[4] = "COMPARE" /\ NodeOf[5] = "BINARY_OP" /\ NodeOf[6] = "BINARY_OP"
  BY DEF NodeOf
<1>4. NodeOf[l] \in NodeTypes
  BY <1>1, <1>3, SomeTypes
<1> QED
  BY <1>1, <1>2, <1>4, PartnerFacts

-----------------------------------------------------------------------------
LEMMA OperatorsSound ==
  ASSUME PInv, outcome = "parsing", parse_operators
  PROVE  PInv'
<1>1. /\ TokensOk /\ Len(tokens) \in Nat /\ cursor \in Places /\ value \in Tree
      /\ Head(calls) \in Item(Len(tokens)) /\ Missing \in Tree
  BY Working, MissingIsTree DEF Tree
<1>2. ASSUME NEW kinds
      PROVE  /\ matched(cursor, kinds) \in Places
             /\ kinds \intersect Brackety = {} => Before(matched(cursor, kinds)) = Before(cursor)
  BY <1>1, MatchedFacts, MatchedQuiet
<1>3. ASSUME NEW kinds, "EOF" \notin kinds, Sees(kinds)
      PROVE  /\ cursor.index \in 0 .. Len(tokens) /\ peek(cursor) \in kinds
             /\ matched(cursor, kinds) = advance(cursor) /\ advance(cursor) \in Places
  BY <1>1, <1>3, SeesToken, AdvanceFacts DEF Sees, matches, matched
<1>4. ASSUME NEW k, Doing(k), k \notin OuterCalls \union {"declaration", "params"}
      PROVE  Head(calls).do = k /\ Head(calls) \in Inner(Len(tokens))
  BY <1>1, <1>4, ItemKinds DEF Doing
<1>5. /\ {"MINUS", "BANG"} \intersect Brackety = {} /\ {"COMMA"} \intersect Brackety = {}
      /\ {"QUESTION"} \intersect Brackety = {} /\ {"EQUALS"} \intersect Brackety = {}
      /\ {"COLON"} \intersect Brackety = {} /\ {} \intersect Brackety = {}
      /\ DOMAIN Literal \intersect Brackety = {} /\ "EOF" \notin DOMAIN Literal
  BY PartnerFacts, LiteralFacts
<1>6. /\ \A v \in Tree : << v >> \in Seq(Tree)
      /\ \A u, v \in Tree : << u, v >> \in Seq(Tree)
      /\ \A u, v, w \in Tree : << u, v, w >> \in Seq(Tree)
  <2>1. PICK A : A = Tree
    OBVIOUS
  <2>2. \A v \in A : << v >> \in Seq(A)
    OBVIOUS
  <2>3. \A u, v \in A : << u, v >> \in Seq(A)
    OBVIOUS
  <2>4. \A u, v, w \in A : << u, v, w >> \in Seq(A)
    OBVIOUS
  <2> QED
    BY <2>1, <2>2, <2>3, <2>4
<1>7. CASE parse_expression
  <2>1. Head(calls).do = "expression" /\ Step(Expression, Missing, cursor, FALSE)
    BY <1>7, <1>4 DEF parse_expression, Go, OuterCalls
  <2>2. BracketOf(Head(calls)) = <<>> /\ Head(calls).do \notin OuterCalls
    BY <2>1, BracketCases DEF OuterCalls
  <2>3. Pends(Expression, BracketOf(Head(calls)))
    BY <1>1, <2>2, ExpressionsPend
  <2> QED
    BY <1>1, <2>1, <2>2, <2>3, QuietSound
<1>8. CASE parse_unary_expression
  <2> DEFINE signs == {"MINUS", "BANG"}
             c == matched(cursor, signs)
  <2>1. Head(calls).do = "unary" /\ BracketOf(Head(calls)) = <<>> /\ Head(calls).do \notin OuterCalls
    BY <1>4, <1>8, BracketCases DEF parse_unary_expression, OuterCalls
  <2>2. c \in Places /\ Before(c) = Before(cursor)
    BY <1>2, <1>5
  <2>3. CASE Sees(signs)
    <3> DEFINE x == [do |-> "operand", at |-> cursor.index]
    <3>1. Step(<< Call("unary"), x >>, Missing, c, FALSE)
      BY <1>8, <2>3 DEF parse_unary_expression, Go
    <3>2. cursor.index \in 0 .. Len(tokens)
      BY <1>3, <2>3
    <3>3. x \in Inner(Len(tokens)) /\ x.do # "true_expr" /\ BracketOf(x) = <<>>
      BY <1>1, <3>2, BracketCases DEF Inner
    <3> HIDE DEF x
    <3>4. Pends(<< Call("unary"), x >>, BracketOf(Head(calls)))
      BY <1>1, <2>1, <3>3, CallThenPends DEF PlainCalls
    <3> QED
      BY <1>1, <2>1, <2>2, <3>1, <3>4, QuietSound
  <2>4. CASE ~Sees(signs)
    <3>1. Step(<< Call("primary") >>, Missing, c, FALSE)
      BY <1>8, <2>4 DEF parse_unary_expression, Go
    <3>2. Pends(<< Call("primary") >>, BracketOf(Head(calls)))
      BY <1>1, <2>1, CallPends DEF PlainCalls
    <3> QED
      BY <1>1, <2>1, <2>2, <3>1, <3>2, QuietSound
  <2> QED
    BY <2>3, <2>4
<1>9. CASE parse_unary_operand
  <2> DEFINE signs == {"MINUS", "BANG"}
             c == matched(cursor, signs)
             node == Node("UNARY_OP", Head(calls).at, << value >>)
  <2>1. /\ Head(calls).do = "operand" /\ BracketOf(Head(calls)) = <<>> /\ Head(calls).do \notin OuterCalls
        /\ Head(calls).at \in 0 .. Len(tokens)
    BY <1>1, <1>4, <1>9, BracketCases, InnerFields DEF parse_unary_operand, OuterCalls
  <2>2. c \in Places /\ Before(c) = Before(cursor)
    BY <1>2, <1>5
  <2>3. node \in Tree
    BY <1>1, <1>6, <2>1, NodeInTree, SomeTypes
  <2> HIDE DEF node
  <2>4. CASE Sees(signs)
    <3> DEFINE x == [do |-> "operand", at |-> cursor.index]
    <3>1. Step(<< x >>, node, c, FALSE)
      BY <1>9, <2>4 DEF parse_unary_operand, node
    <3>2. cursor.index \in 0 .. Len(tokens)
      BY <1>3, <2>4
    <3>3. x \in Inner(Len(tokens)) /\ x.do # "true_expr" /\ BracketOf(x) = <<>>
      BY <1>1, <3>2, BracketCases DEF Inner
    <3> HIDE DEF x
    <3>4. Pends(<< x >>, BracketOf(x))
      BY <3>3, PendsOne
    <3>5. Pends(<< x >>, BracketOf(Head(calls)))
      BY <2>1, <3>3, <3>4
    <3> QED
      BY <1>1, <2>1, <2>2, <2>3, <3>1, <3>5, QuietSound
  <2>5. CASE ~Sees(signs)
    <3>1. Step(<<>>, node, c, FALSE)
      BY <1>9, <2>5 DEF parse_unary_operand, Return, node
    <3>2. Pends(<<>>, BracketOf(Head(calls)))
      BY <2>1, PendsNothing
    <3> QED
      BY <1>1, <2>1, <2>2, <2>3, <3>1, <3>2, QuietSound
  <2> QED
    BY <2>4, <2>5
<1>10. CASE parse_primary_expression
  <2> DEFINE c == matched(cursor, DOMAIN Literal \union {"LPAREN"})
  <2>1. Head(calls).do = "primary" /\ BracketOf(Head(calls)) = <<>> /\ Head(calls).do \notin OuterCalls
    BY <1>4, <1>10, BracketCases DEF parse_primary_expression, OuterCalls
  <2>2. c \in Places
    BY <1>2
  <2>3. \/ /\ Sees(DOMAIN Literal)
           /\ Step(<< Call("callee") >>, Leaf(Literal[peek(cursor)], cursor.index), c, FALSE)
        \/ Sees({"LPAREN"}) /\ Go(<< Call("expression"), Call("parenthesis") >>, c)
        \/ ~Sees(DOMAIN Literal) /\ ~Sees({"LPAREN"}) /\ Return(Missing, c)
    BY <1>10 DEF parse_primary_expression
  <2>4. CASE /\ Sees(DOMAIN Literal)
             /\ Step(<< Call("callee") >>, Leaf(Literal[peek(cursor)], cursor.index), c, FALSE)
    <3> DEFINE v == Leaf(Literal[peek(cursor)], cursor.index)
    <3>1. cursor.index \in 0 .. Len(tokens) /\ peek(cursor) \in DOMAIN Literal
      BY <1>3, <1>5, <2>4
    <3>2. v \in Tree
      BY <1>1, <3>1, LiteralFacts, NodeInTree, EmptySeq DEF Leaf
    <3>3. c = advance(cursor) /\ peek(cursor) \notin Brackety
      BY <1>5, <3>1 DEF matched, matches
    <3>4. Before(c) = Before(cursor)
      BY <1>1, <3>3, AdvanceQuiet
    <3>5. Pends(<< Call("callee") >>, BracketOf(Head(calls)))
      BY <1>1, <2>1, CallPends DEF PlainCalls
    <3> HIDE DEF v
    <3>6. Step(<< Call("callee") >>, v, c, FALSE)
      BY <2>4 DEF v
    <3> QED
      BY <2>1, <2>2, <3>2, <3>4, <3>5, <3>6, QuietSound
  <2>5. CASE Sees({"LPAREN"}) /\ Go(<< Call("expression"), Call("parenthesis") >>, c)
    <3> DEFINE p == << Call("expression"), Call("parenthesis") >>
    <3>1. Step(p, Missing, c, FALSE)
      BY <2>5 DEF Go
    <3>2. peek(cursor) = "LPAREN" /\ c = advance(cursor)
      BY <2>5 DEF Sees, matched, matches
    <3>3. Before(c) = << "LPAREN" >> \o Before(cursor)
      BY <1>1, <3>2, AdvanceOpens DEF Opening
    <3>4. Pends(p, << "LPAREN" >>)
      <4>1. /\ Call("parenthesis") \in Inner(Len(tokens)) /\ Call("parenthesis").do # "true_expr"
            /\ BracketOf(Call("parenthesis")) = << "LPAREN" >>
        BY <1>1, PlainCallFacts DEF PlainCalls
      <4>2. Pends(p, BracketOf(Call("parenthesis")))
        BY <1>1, <4>1, CallThenPends DEF PlainCalls
      <4> QED
        BY <4>1, <4>2
    <3> HIDE DEF p
    <3> QED
      BY <1>1, <2>1, <2>2, <3>1, <3>3, <3>4, OpeningSound
  <2>6. CASE ~Sees(DOMAIN Literal) /\ ~Sees({"LPAREN"}) /\ Return(Missing, c)
    <3>1. Step(<<>>, Missing, c, FALSE)
      BY <2>6 DEF Return
    <3>2. Before(c) = Before(cursor)
      <4>1. CASE peek(cursor) = "EOF"
        BY <1>1, <4>1, AdvanceQuiet, PartnerFacts DEF matched
      <4>2. CASE peek(cursor) # "EOF"
        BY <2>6, <4>2 DEF matched, matches, Sees
      <4> QED
        BY <4>1, <4>2
    <3>3. Pends(<<>>, BracketOf(Head(calls)))
      BY <2>1, PendsNothing
    <3> QED
      BY <1>1, <2>1, <2>2, <3>1, <3>2, <3>3, QuietSound
  <2> QED
    BY <2>3, <2>4, <2>5, <2>6
<1>11. CASE parse_parenthesis
  <2> DEFINE c == matched(cursor, {"RPAREN"})
             complaint == ~Sees({"RPAREN"})
  <2>1. /\ Head(calls).do = "parenthesis" /\ BracketOf(Head(calls)) = << "LPAREN" >>
        /\ Head(calls).do \notin OuterCalls
    BY <1>4, <1>11, BracketCases DEF parse_parenthesis, OuterCalls
  <2>2. Step(<< Call("callee") >>, value, c, complaint)
    BY <1>11 DEF parse_parenthesis
  <2>3. ~complaint => /\ peek(cursor) \in DOMAIN Partner /\ c = advance(cursor)
                      /\ BracketOf(Head(calls)) = << Partner[peek(cursor)] >>
    BY <2>1, PartnerFacts DEF Sees, matches, matched
  <2>4. Pends(<< Call("callee") >>, <<>>)
    BY <1>1, CallPends DEF PlainCalls
  <2>5. c \in Places
    BY <1>2
  <2> HIDE DEF c, complaint
  <2> QED
    BY <1>1, <2>1, <2>2, <2>3, <2>4, <2>5, ClosingSound
<1>12. CASE parse_callee
  <2> DEFINE c == matched(cursor, {"LPAREN"})
  <2>1. Head(calls).do = "callee" /\ BracketOf(Head(calls)) = <<>> /\ Head(calls).do \notin OuterCalls
    BY <1>4, <1>12, BracketCases DEF parse_callee, OuterCalls
  <2>2. c \in Places
    BY <1>2
  <2>3. CASE Sees({"LPAREN"})
    <3> DEFINE x == [do |-> "arguments", callee |-> value, list |-> <<>>]
    <3>1. Step(<< Call("expression"), x >>, Missing, c, FALSE)
      BY <1>12, <2>3 DEF parse_callee, Go
    <3>2. peek(cursor) = "LPAREN" /\ c = advance(cursor)
      BY <2>3 DEF Sees, matched, matches
    <3>3. Before(c) = << "LPAREN" >> \o Before(cursor)
      BY <1>1, <3>2, AdvanceOpens DEF Opening
    <3>4. x \in Inner(Len(tokens)) /\ x.do # "true_expr" /\ BracketOf(x) = << "LPAREN" >>
      BY <1>1, BracketCases, EmptySeq DEF Inner, Tree
    <3> HIDE DEF x
    <3>5. Pends(<< Call("expression"), x >>, << "LPAREN" >>)
      BY <1>1, <3>4, CallThenPends DEF PlainCalls
    <3> QED
      BY <1>1, <2>1, <2>2, <3>1, <3>3, <3>5, OpeningSound
  <2>4. CASE ~Sees({"LPAREN"})
    <3>1. Step(<<>>, value, c, FALSE)
      BY <1>12, <2>4 DEF parse_callee, Return
    <3>2. Before(c) = Before(cursor)
      <4>1. CASE peek(cursor) = "EOF"
        BY <1>1, <4>1, AdvanceQuiet, PartnerFacts DEF matched
      <4>2. CASE peek(cursor) # "EOF"
        BY <2>4, <4>2 DEF matched, Sees
      <4> QED
        BY <4>1, <4>2
    <3>3. Pends(<<>>, BracketOf(Head(calls)))
      BY <2>1, PendsNothing
    <3> QED
      BY <1>1, <2>1, <2>2, <3>1, <3>2, <3>3, QuietSound
  <2> QED
    BY <2>3, <2>4
<1>13. CASE parse_call_expression
  <2> DEFINE call == Head(calls)
             list == IF value = Missing THEN call.list ELSE Append(call.list, value)
             next == [call EXCEPT !.list = list]
  <2>1. /\ call.do = "arguments" /\ BracketOf(call) = << "LPAREN" >> /\ call.do \notin OuterCalls
        /\ call \in [do : {"arguments"}, callee : Tree, list : Seq(Tree)]
    <3>1. call.do = "arguments" /\ call \in Inner(Len(tokens))
      BY <1>4, <1>13 DEF parse_call_expression, OuterCalls
    <3> QED
      BY <1>1, <3>1, BracketCases, InnerFields DEF OuterCalls, Tree
  <2>2. list \in Seq(Tree) /\ call.callee \in Tree
    BY <1>1, <2>1
  <2> HIDE DEF list
  <2>3. next \in Inner(Len(tokens)) /\ next.do # "true_expr" /\ BracketOf(next) = << "LPAREN" >>
    <3>1. next \in [do : {"arguments"}, callee : Tree, list : Seq(Tree)] /\ next.do = "arguments"
      BY <2>1, <2>2
    <3> HIDE DEF next
    <3> QED
      BY <3>1, BracketCases DEF Inner, Tree
  <2>4. \/ Sees({"COMMA"}) /\ Go(<< Call("expression"), next >>, advance(cursor))
        \/ Sees({"RPAREN"}) /\ Return(Node("CALL", 0, << call.callee >> \o list), advance(cursor))
        \/ \E how \in Unclosed(call.callee) : Stop(how, Missing)
    BY <1>13 DEF parse_call_expression, list
  <2>5. CASE Sees({"COMMA"}) /\ Go(<< Call("expression"), next >>, advance(cursor))
    <3>1. Step(<< Call("expression"), next >>, Missing, advance(cursor), FALSE)
      BY <2>5 DEF Go
    <3>2. advance(cursor) \in Places /\ Before(advance(cursor)) = Before(cursor)
      <4>1. peek(cursor) \notin Brackety
        BY <1>5, <2>5 DEF Sees, matches
      <4> QED
        BY <1>1, <4>1, AdvanceFacts, AdvanceQuiet
    <3> HIDE DEF next
    <3>3. Pends(<< Call("expression"), next >>, BracketOf(call))
      BY <1>1, <2>1, <2>3, CallThenPends DEF PlainCalls
    <3> QED
      BY <1>1, <2>1, <3>1, <3>2, <3>3, QuietSound
  <2>6. CASE Sees({"RPAREN"}) /\ Return(Node("CALL", 0, << call.callee >> \o list), advance(cursor))
    <3> DEFINE v == Node("CALL", 0, << call.callee >> \o list)
    <3>1. Step(<<>>, v, advance(cursor), FALSE)
      BY <2>6 DEF Return
    <3>2. v \in Tree
      <4>1. << call.callee >> \o list \in Seq(Tree)
        BY <1>6, <2>2, ConcatProperties
      <4>2. "CALL" \in NodeTypes /\ 0 \in 0 .. Len(tokens)
        BY <1>1, SomeTypes
      <4> QED
        BY <1>1, <4>1, <4>2, NodeInTree
    <3> HIDE DEF v
    <3>3. peek(cursor) \in DOMAIN Partner /\ BracketOf(call) = << Partner[peek(cursor)] >>
      BY <2>1, <2>6, PartnerFacts DEF Sees, matches
    <3>4. advance(cursor) \in Places
      BY <1>1, AdvanceFacts
    <3> QED
      BY <2>1, <3>1, <3>2, <3>3, <3>4, PendsNothing, ClosingSound
  <2>7. CASE \E how \in Unclosed(call.callee) : Stop(how, Missing)
    <3>1. PICK how : how \in {"crashed", "exited"} /\ Stop(how, Missing)
      BY <2>7 DEF Unclosed
    <3> QED
      BY <1>1, <3>1, StopSound
  <2> QED
    BY <2>4, <2>5, <2>6, <2>7
<1>14. CASE parse_binary_operators
  <2> DEFINE call == Head(calls)
             found == {l \in call.low .. call.high :
                     Sees(BinaryOps[l]) /\ (l >= 5 => value # Missing)}
  <2>1. /\ call.do = "operators" /\ BracketOf(call) = <<>> /\ call.do \notin OuterCalls
        /\ call \in [do : {"operators"}, low : 1 .. 7, high : 1 .. 6]
    <3>1. call.do = "operators" /\ call \in Inner(Len(tokens))
      BY <1>4, <1>14 DEF parse_binary_operators, OuterCalls
    <3> QED
      BY <1>1, <3>1, BracketCases, InnerFields DEF OuterCalls
  <2>2. CASE found = {}
    <3> DEFINE c == matched(cursor, {})
    <3>1. Step(<<>>, value, c, FALSE)
      BY <1>14, <2>2 DEF parse_binary_operators, Return
    <3>2. c \in Places /\ Before(c) = Before(cursor)
      BY <1>2
    <3>3. Pends(<<>>, BracketOf(call))
      BY <2>1, PendsNothing
    <3> QED
      BY <1>1, <2>1, <3>1, <3>2, <3>3, QuietSound
  <2>3. CASE found # {}
    <3>1. PICK l \in found :
            Go(Levels(l + 1) \o
                 << [do |-> "right", level |-> l, at |-> cursor.index, left |-> value],
                    [call EXCEPT !.high = l] >>, advance(cursor))
      BY <1>14, <2>3 DEF parse_binary_operators
    <3> DEFINE x == [do |-> "right", level |-> l, at |-> cursor.index, left |-> value]
               y == [call EXCEPT !.high = l]
               c == advance(cursor)
    <3>2. l \in 1 .. 6 /\ l + 1 \in 1 .. 7 /\ Sees(BinaryOps[l])
      BY <2>1
    <3>3. c \in Places /\ cursor.index \in 0 .. Len(tokens) /\ peek(cursor) \notin Brackety
      BY <1>3, <3>2, LevelFacts
    <3>4. Before(c) = Before(cursor)
      BY <1>1, <3>3, AdvanceQuiet
    <3>5. x \in Inner(Len(tokens)) /\ x.do # "true_expr" /\ BracketOf(x) = <<>>
      BY <1>1, <3>2, <3>3, BracketCases DEF Inner, Tree
    <3>6. y \in Inner(Len(tokens)) /\ y.do # "true_expr" /\ BracketOf(y) = <<>>
      <4>1. y \in [do : {"operators"}, low : 1 .. 7, high : 1 .. 6] /\ y.do = "operators"
        BY <2>1, <3>2
      <4> HIDE DEF y
      <4> QED
        BY <4>1, BracketCases DEF Inner
    <3>7. Step(Levels(l + 1) \o << x, y >>, Missing, c, FALSE)
      BY <3>1 DEF Go
    <3> HIDE DEF x, y, c
    <3>8. Pends(<< x, y >>, BracketOf(y)) /\ Pends(Levels(l + 1), <<>>)
      BY <1>1, <3>2, <3>5, <3>6, PendsTwo, LevelsPend
    <3>9. Pends(Levels(l + 1) \o << x, y >>, BracketOf(call))
      BY <2>1, <3>6, <3>8, PendsAfter
    <3> QED
      BY <1>1, <2>1, <3>3, <3>4, <3>7, <3>9, QuietSound
  <2> QED
    BY <2>2, <2>3
<1>15. CASE parse_right_operand
  <2> DEFINE call == Head(calls)
             v == Node(NodeOf[call.level], call.at, << call.left, value >>)
  <2>1. /\ call.do = "right" /\ BracketOf(call) = <<>> /\ call.do \notin OuterCalls
        /\ call.level \in 1 .. 6 /\ call.at \in 0 .. Len(tokens) /\ call.left \in Tree
    <3>1. call.do = "right" /\ call \in Inner(Len(tokens))
      BY <1>4, <1>15 DEF parse_right_operand, OuterCalls
    <3> QED
      BY <1>1, <3>1, BracketCases, InnerFields DEF OuterCalls, Tree
  <2>2. v \in Tree
    BY <1>1, <1>6, <2>1, NodeInTree, LevelFacts
  <2> HIDE DEF v
  <2>3. \/ Stop("crashed", Missing)
        \/ \E u \in {Missing, v} : Step(<<>>, u, cursor, FALSE)
    BY <1>15 DEF parse_right_operand, Return, v
  <2>4. Pends(<<>>, BracketOf(call))
    BY <2>1, PendsNothing
  <2>5. CASE Stop("crashed", Missing)
    BY <1>1, <2>5, StopSound
  <2>6. CASE \E u \in {Missing, v} : Step(<<>>, u, cursor, FALSE)
    BY <1>1, <2>1, <2>2, <2>4, <2>6, QuietSound
  <2> QED
    BY <2>3, <2>5, <2>6
<1>16. CASE parse_ternary_expression
  <2>1. CASE Doing("ternary")
    <3> DEFINE c == matched(cursor, {"QUESTION"})
    <3>1. Head(calls).do = "ternary" /\ BracketOf(Head(calls)) = <<>> /\ Head(calls).do \notin OuterCalls
      BY <1>4, <2>1, BracketCases DEF OuterCalls
    <3>2. c \in Places
      BY <1>2
    <3>3. CASE Sees({"QUESTION"})
      <4> DEFINE x == [do |-> "true_expr", condition |-> value]
                 p == << Call("expression"), x >>
      <4>1. Step(p, Missing, advance(c), FALSE)
        BY <1>16, <2>1, <3>1, <3>3 DEF parse_ternary_expression, Doing, Go
      <4>2. ~NoTernary
        <5>1. peek(cursor) = "QUESTION"
          BY <3>3 DEF Sees, matches
        <5>2. cursor.index \in 1 .. Len(tokens) /\ tokens[cursor.index] = "QUESTION"
          BY <1>1, <5>1, SeesToken
        <5>3. cursor.index \in DOMAIN tokens
          BY <1>1, <5>2, LenProperties DEF TokensOk
        <5> QED
          BY <5>2, <5>3 DEF NoTernary
      <4>3. p \in Seq(Inner(Len(tokens)))
        <5>1. Call("expression") \in Inner(Len(tokens)) /\ x \in Inner(Len(tokens))
          BY <1>1, PlainCallFacts DEF PlainCalls, Inner, Tree
        <5> HIDE DEF x
        <5>2. PICK A, y : A = Inner(Len(tokens)) /\ y = Call("expression")
          OBVIOUS
        <5>3. << y, x >> \in Seq(A)
          BY <5>1, <5>2
        <5> QED
          BY <5>2, <5>3
      <4>4. advance(c) \in Places
        BY <1>1, <3>2, AdvanceFacts
      <4>5. Reads(p, advance(c), FALSE, <<>>)
        BY <4>2 DEF Reads
      <4> HIDE DEF p
      <4> QED
        BY <1>1, <3>1, <4>1, <4>3, <4>4, <4>5, InnerSound
    <3>4. CASE ~Sees({"QUESTION"})
      <4>1. Step(<<>>, value, c, FALSE)
        BY <1>16, <2>1, <3>1, <3>4 DEF parse_ternary_expression, Doing, Return
      <4>2. Pends(<<>>, BracketOf(Head(calls))) /\ Before(c) = Before(cursor)
        BY <1>2, <1>5, <3>1, PendsNothing
      <4> QED
        BY <1>1, <3>1, <3>2, <4>1, <4>2, QuietSound
    <3> QED
      BY <3>3, <3>4
  <2>2. CASE Doing("true_expr")
    <3> DEFINE x == [do |-> "false_expr", condition |-> Head(calls).condition, true_expr |-> value]
               c == advance(matched(cursor, {"COLON"}))
               complaint == ~Sees({"COLON"})
    <3>1. /\ Head(calls).do = "true_expr" /\ Head(calls).do \notin OuterCalls
          /\ Head(calls).condition \in Tree
      BY <1>1, <1>4, <2>2, InnerFields DEF OuterCalls, Tree
    <3>2. Step(Ternary \o << x >>, Missing, c, complaint)
      BY <1>16, <2>2, <3>1 DEF parse_ternary_expression, Doing
    <3>3. x \in Inner(Len(tokens)) /\ x.do # "true_expr"
      BY <1>1, <3>1 DEF Inner, Tree
    <3>4. c \in Places
      BY <1>1, <1>2, AdvanceFacts
    <3> HIDE DEF x, c, complaint
    <3>5. Ternary \o << x >> \in Seq(Inner(Len(tokens)))
      BY <1>1, <3>3, ExpressionsPend, PendsOne, PendsAfter DEF Pends
    <3>6. Reads(Ternary \o << x >>, c, complaint, <<>>)
      BY <3>1 DEF Reads
    <3> QED
      BY <1>1, <3>1, <3>2, <3>4, <3>5, <3>6, InnerSound
  <2>3. CASE Doing("false_expr")
    <3> DEFINE v == Node("TERNARY_OP", 0, << Head(calls).condition, Head(calls).true_expr, value >>)
    <3>1. /\ Head(calls).do = "false_expr" /\ Head(calls).do \notin OuterCalls
          /\ BracketOf(Head(calls)) = <<>>
          /\ Head(calls).condition \in Tree /\ Head(calls).true_expr \in Tree
      BY <1>1, <1>4, <2>3, InnerFields, BracketCases DEF OuterCalls, Tree
    <3>2. Step(<<>>, v, cursor, FALSE)
      BY <1>16, <2>3, <3>1 DEF parse_ternary_expression, Doing, Return
    <3>3. v \in Tree
      <4>1. /\ << Head(calls).condition, Head(calls).true_expr, value >> \in Seq(Tree)
            /\ "TERNARY_OP" \in NodeTypes /\ 0 \in 0 .. Len(tokens)
        BY <1>1, <1>6, <3>1, SomeTypes
      <4> QED
        BY <1>1, <4>1, NodeInTree
    <3> HIDE DEF v
    <3>4. Pends(<<>>, BracketOf(Head(calls)))
      BY <3>1, PendsNothing
    <3> QED
      BY <1>1, <3>1, <3>2, <3>3, <3>4, QuietSound
  <2> QED
    BY <1>16, <2>1, <2>2, <2>3 DEF parse_ternary_expression
<1>17. CASE parse_assignment_expression
  <2>1. CASE Doing("assignment")
    <3> DEFINE c == matched(cursor, {"EQUALS"})
    <3>1. Head(calls).do = "assignment" /\ BracketOf(Head(calls)) = <<>> /\ Head(calls).do \notin OuterCalls
      BY <1>4, <2>1, BracketCases DEF OuterCalls
    <3>2. c \in Places /\ Before(c) = Before(cursor)
      BY <1>2, <1>5
    <3>3. CASE Sees({"EQUALS"})
      <4> DEFINE x == [do |-> "assign", at |-> cursor.index, left |-> value]
      <4>1. Step(<< Call("expression"), x >>, Missing, c, FALSE)
        BY <1>17, <2>1, <3>1, <3>3 DEF parse_assignment_expression, Doing, Go
      <4>2. cursor.index \in 0 .. Len(tokens)
        BY <1>3, <3>3
      <4>3. x \in Inner(Len(tokens)) /\ x.do # "true_expr" /\ BracketOf(x) = <<>>
        BY <1>1, <4>2, BracketCases DEF Inner, Tree
      <4> HIDE DEF x
      <4>4. Pends(<< Call("expression"), x >>, BracketOf(Head(calls)))
        BY <1>1, <3>1, <4>3, CallThenPends DEF PlainCalls
      <4> QED
        BY <1>1, <3>1, <3>2, <4>1, <4>4, QuietSound
    <3>4. CASE ~Sees({"EQUALS"})
      <4>1. Step(<<>>, value, c, FALSE)
        BY <1>17, <2>1, <3>1, <3>4 DEF parse_assignment_expression, Doing, Return
      <4>2. Pends(<<>>, BracketOf(Head(calls)))
        BY <3>1, PendsNothing
      <4> QED
        BY <1>1, <3>1, <3>2, <4>1, <4>2, QuietSound
    <3> QED
      BY <3>3, <3>4
  <2>2. CASE Doing("assign")
    <3> DEFINE v == Node("ASSIGN", Head(calls).at, << Head(calls).left, value >>)
    <3>1. /\ Head(calls).do = "assign" /\ BracketOf(Head(calls)) = <<>> /\ Head(calls).do \notin OuterCalls
          /\ Head(calls).at \in 0 .. Len(tokens) /\ Head(calls).left \in Tree
      BY <1>1, <1>4, <2>2, InnerFields, BracketCases DEF OuterCalls, Tree
    <3>2. Step(<<>>, v, cursor, FALSE)
      BY <1>17, <2>2, <3>1 DEF parse_assignment_expression, Doing, Return
    <3>3. v \in Tree
      BY <1>1, <1>6, <3>1, NodeInTree, SomeTypes
    <3> HIDE DEF v
    <3>4. Pends(<<>>, BracketOf(Head(calls)))
      BY <3>1, PendsNothing
    <3> QED
      BY <1>1, <3>1, <3>2, <3>3, <3>4, QuietSound
  <2> QED
    BY <1>17, <2>1, <2>2 DEF parse_assignment_expression
<1> QED
  BY <1>7, <1>8, <1>9, <1>10, <1>11, <1>12, <1>13, <1>14, <1>15, <1>16, <1>17 DEF parse_operators

-----------------------------------------------------------------------------
\* A name after the keyword of a declaration.
LEMMA NameFacts ==
  ASSUME TokensOk, NEW c \in Places, peek(c) \notin Brackety,
         NEW name, name = matched(advance(c), {"IDENTIFIER"})
  PROVE  /\ name \in Places /\ Before(name) = Before(c)
         /\ ~is_parse_end(name) => name.current \in 0 .. Len(tokens)
<1>1. advance(c) \in Places /\ Before(advance(c)) = Before(c)
  BY AdvanceFacts, AdvanceQuiet
<1>2. {"IDENTIFIER"} \intersect Brackety = {}
  BY PartnerFacts
<1>3. name \in Places /\ Before(name) = Before(c)
  BY <1>1, <1>2, MatchedFacts, MatchedQuiet
<1>4. name.current \in 0 .. End /\ Len(tokens) \in Nat /\ End = Len(tokens) + 1
  BY <1>3, KindFacts DEF Places
<1>5. ~is_parse_end(name) => name.current # End
  BY KindFacts DEF is_parse_end, current
<1> QED
  BY <1>3, <1>4, <1>5

LEMMA AppendedTyped ==
  ASSUME NEW A, NEW list \in Seq(A), NEW v \in A
  PROVE  Appended(list, v) \in Seq(A)
  BY DEF Appended

\* A function that ends, after it has read no bracket.
LEMMA ReturnSound ==
  ASSUME PInv, outcome = "parsing", Head(calls).do \notin OuterCalls,
         BracketOf(Head(calls)) = <<>>,
         NEW v \in Tree, NEW c \in Places, Before(c) = Before(cursor),
         NEW complaint, Step(<<>>, v, c, complaint)
  PROVE  PInv'
<1>1. Pends(<<>>, BracketOf(Head(calls)))
  BY PendsNothing
<1> QED
  BY <1>1, QuietSound

\* A function that calls another one and then goes on, after it has read no bracket.
LEMMA CallSound ==
  ASSUME PInv, outcome = "parsing", Head(calls).do \notin OuterCalls,
         NEW k \in PlainCalls, k # "parenthesis",
         NEW y \in Inner(Len(tokens)), y.do # "true_expr", BracketOf(y) = BracketOf(Head(calls)),
         NEW c \in Places, Before(c) = Before(cursor),
         NEW complaint, Step(<< Call(k), y >>, Missing, c, complaint)
  PROVE  PInv'
<1>1. Len(tokens) \in Nat /\ Missing \in Tree
  BY Working, MissingIsTree DEF Tree
<1>2. Pends(<< Call(k), y >>, BracketOf(Head(calls)))
  BY <1>1, CallThenPends
<1> QED
  BY <1>1, <1>2, QuietSound

LEMMA StatementsSound ==
  ASSUME PInv, outcome = "parsing", parse_statement
  PROVE  PInv'
<1>1. /\ TokensOk /\ Len(tokens) \in Nat /\ cursor \in Places /\ value \in Tree
      /\ Head(calls) \in Item(Len(tokens)) /\ Missing \in Tree
  BY Working, MissingIsTree DEF Tree
<1>2. ASSUME NEW kinds
      PROVE  /\ matched(cursor, kinds) \in Places
             /\ kinds \intersect Brackety = {} => Before(matched(cursor, kinds)) = Before(cursor)
  BY <1>1, MatchedFacts, MatchedQuiet
<1>3. /\ advance(cursor) \in Places
      /\ peek(cursor) \notin Brackety => Before(advance(cursor)) = Before(cursor)
  BY <1>1, AdvanceFacts, AdvanceQuiet
<1>4. ASSUME NEW k, Doing(k), k \notin OuterCalls \union {"declaration", "params"}
      PROVE  /\ Head(calls).do = k /\ Head(calls).do \notin OuterCalls
             /\ Head(calls) \in Inner(Len(tokens))
             /\ k \notin {"parenthesis", "arguments", "block", "stmt"} => BracketOf(Head(calls)) = <<>>
  BY <1>1, <1>4, ItemKinds, BracketCases DEF Doing
<1>5. ASSUME NEW k, Begins(k)
      PROVE  /\ Head(calls).do = "statement" /\ peek(cursor) = k /\ Sees({k})
             /\ Head(calls).do \notin OuterCalls /\ BracketOf(Head(calls)) = <<>>
  BY <1>4, <1>5 DEF Begins, Sees, matches, OuterCalls
<1>6. /\ \A k \in {"SEMICOLON", "DOTDOT", "ELSE", "EQUALS", "IN"} : {k} \intersect Brackety = {}
      /\ \A k \in {"LET", "IF", "FOR", "LOOP", "BREAK", "RETURN"} : k \notin Brackety
      /\ {"expression", "statement", "expression_stmt", "condition", "return"} \subseteq PlainCalls
      /\ "parenthesis" \notin {"expression", "statement"}
  BY PartnerFacts DEF PlainCalls
<1>6a. ASSUME NEW k \in {"LET", "IF", "FOR", "LOOP", "BREAK", "RETURN"}, Begins(k)
       PROVE  /\ peek(cursor) \notin Brackety /\ Before(advance(cursor)) = Before(cursor)
              /\ Head(calls).do \notin OuterCalls /\ BracketOf(Head(calls)) = <<>>
  <2>1. peek(cursor) = k /\ Head(calls).do \notin OuterCalls /\ BracketOf(Head(calls)) = <<>>
    BY <1>5, <1>6a
  <2>2. k \notin Brackety
    BY <1>6a, PartnerFacts
  <2> QED
    BY <1>3, <2>1, <2>2
<1>7. /\ \A v \in Tree : << v >> \in Seq(Tree)
      /\ \A u, v \in Tree : << u, v >> \in Seq(Tree)
      /\ \A list \in Seq(Tree), v \in Tree : Append(list, v) \in Seq(Tree)
  <2>1. PICK A : A = Tree
    OBVIOUS
  <2>2. \A v \in A : << v >> \in Seq(A)
    OBVIOUS
  <2>3. \A u, v \in A : << u, v >> \in Seq(A)
    OBVIOUS
  <2>4. \A list \in Seq(A), v \in A : Append(list, v) \in Seq(A)
    OBVIOUS
  <2> QED
    BY <2>1, <2>2, <2>3, <2>4
<1>8. ASSUME NEW type \in {"EXPRESSION_STMT", "VAR_DECL", "RANGE", "FOR", "IF", "BREAK", "RETURN", "BLOCK"},
             NEW at \in 0 .. Len(tokens), NEW children \in Seq(Tree)
      PROVE  Node(type, at, children) \in Tree
  BY <1>1, NodeInTree, SomeTypes
<1>9. 0 \in 0 .. Len(tokens) /\ <<>> \in Seq(Tree)
  BY <1>1, EmptySeq
<1>10. CASE parse_var_decl_stmt
  <2>1. CASE Begins("LET") /\ Declaring("EQUALS", LAMBDA n :
                                << Call("expression"), [do |-> "var_decl", at |-> n] >>)
    <3> DEFINE name == matched(advance(cursor), {"IDENTIFIER"})
               wrong == current(name) # "IDENTIFIER" \/ ~matches(name, {"EQUALS"})
               x == [do |-> "var_decl", at |-> name.current]
               c == matched(name, {"EQUALS"})
    <3>1. /\ name \in Places /\ Before(name) = Before(cursor)
          /\ ~is_parse_end(name) => name.current \in 0 .. Len(tokens)
      BY <1>1, <1>6a, <2>1, NameFacts
    <3>2. \/ Stop("crashed", Missing)
          \/ ~is_parse_end(name) /\ Step(<< Call("expression"), x >>, Missing, c, wrong)
      BY <2>1 DEF Declaring
    <3>3. c \in Places /\ Before(c) = Before(cursor)
      BY <1>1, <1>6, <3>1, MatchedFacts, MatchedQuiet
    <3>4. CASE Stop("crashed", Missing)
      BY <1>1, <3>4, StopSound
    <3>5. CASE ~is_parse_end(name) /\ Step(<< Call("expression"), x >>, Missing, c, wrong)
      <4>1. name.current \in 0 .. Len(tokens)
        BY <3>1, <3>5
      <4>2. x \in Inner(Len(tokens)) /\ x.do # "true_expr" /\ BracketOf(x) = <<>>
        BY <1>1, <4>1, BracketCases DEF Inner
      <4> HIDE DEF x, c, wrong
      <4> QED
        BY <1>5, <1>6, <2>1, <3>3, <3>5, <4>2, CallSound
    <3> QED
      BY <3>2, <3>4, <3>5
  <2>2. CASE Doing("var_decl") /\ ReturnExpecting(Node("VAR_DECL", Head(calls).at, << value >>), "SEMICOLON")
    <3> DEFINE v == Node("VAR_DECL", Head(calls).at, << value >>)
               c == matched(cursor, {"SEMICOLON"})
    <3>1. /\ Head(calls).do = "var_decl" /\ Head(calls).do \notin OuterCalls
          /\ BracketOf(Head(calls)) = <<>> /\ Head(calls).at \in 0 .. Len(tokens)
      BY <1>1, <1>4, <2>2, InnerFields DEF OuterCalls
    <3>2. v \in Tree
      BY <1>1, <1>7, <1>8, <3>1
    <3> HIDE DEF v
    <3>3. Step(<<>>, v, c, ~Sees({"SEMICOLON"}))
      BY <2>2 DEF ReturnExpecting, v
    <3>4. c \in Places /\ Before(c) = Before(cursor)
      BY <1>2, <1>6
    <3> QED
      BY <3>1, <3>2, <3>3, <3>4, ReturnSound
  <2> QED
    BY <1>10, <2>1, <2>2 DEF parse_var_decl_stmt
<1>11. CASE parse_if_stmt
  <2>1. CASE Begins("IF") /\ Go(<< Call("expression"), Call("condition") >>, advance(cursor))
    <3>1. Step(<< Call("expression"), Call("condition") >>, Missing, advance(cursor), FALSE)
      BY <2>1 DEF Go
    <3>2. /\ Call("condition") \in Inner(Len(tokens)) /\ Call("condition").do # "true_expr"
          /\ BracketOf(Call("condition")) = <<>>
      BY <1>1, <1>6, PlainCallFacts
    <3> QED
      BY <1>3, <1>6, <1>6a, <2>1, <3>1, <3>2, CallSound
  <2>2. CASE Doing("condition")
    <3>1. Head(calls).do = "condition" /\ Head(calls).do \notin OuterCalls /\ BracketOf(Head(calls)) = <<>>
      BY <1>4, <2>2 DEF OuterCalls
    <3>2. CASE value = Missing
      <4>1. Step(<<>>, Missing, cursor, TRUE)
        BY <1>11, <2>2, <3>1, <3>2 DEF parse_if_stmt, Begins, Doing
      <4> QED
        BY <1>1, <3>1, <4>1, ReturnSound
    <3>3. CASE value # Missing
      <4> DEFINE x == [do |-> "then", condition |-> value]
      <4>1. Step(<< Call("statement"), x >>, Missing, cursor, FALSE)
        BY <1>11, <2>2, <3>1, <3>3 DEF parse_if_stmt, Begins, Doing, Go
      <4>2. x \in Inner(Len(tokens)) /\ x.do # "true_expr" /\ BracketOf(x) = <<>>
        BY <1>1, BracketCases DEF Inner, Tree
      <4> HIDE DEF x
      <4> QED
        BY <1>1, <1>6, <3>1, <4>1, <4>2, CallSound
    <3> QED
      BY <3>2, <3>3
  <2>3. CASE Doing("then")
    <3> DEFINE c == matched(cursor, {"ELSE"})
               parts == << Head(calls).condition, value >>
               complaint == (value = Missing)
    <3>1. /\ Head(calls).do = "then" /\ Head(calls).do \notin OuterCalls
          /\ BracketOf(Head(calls)) = <<>> /\ Head(calls).condition \in Tree
      BY <1>1, <1>4, <2>3, InnerFields DEF OuterCalls, Tree
    <3>2. parts \in Seq(Tree)
      BY <1>1, <1>7, <3>1
    <3>3. c \in Places /\ Before(c) = Before(cursor)
      BY <1>2, <1>6
    <3> HIDE DEF parts
    <3>4. CASE Sees({"ELSE"})
      <4> DEFINE x == [do |-> "else", parts |-> parts]
      <4>1. Step(<< Call("statement"), x >>, Missing, c, complaint)
        BY <1>11, <2>3, <3>1, <3>4 DEF parse_if_stmt, Begins, Doing, parts
      <4>2. x \in Inner(Len(tokens)) /\ x.do # "true_expr" /\ BracketOf(x) = <<>>
        BY <1>1, <3>2, BracketCases DEF Inner, Tree
      <4> HIDE DEF x
      <4> QED
        BY <1>1, <1>6, <3>1, <3>3, <4>1, <4>2, CallSound
    <3>5. CASE ~Sees({"ELSE"})
      <4> DEFINE v == Node("IF", 0, Append(parts, Missing))
      <4>1. Step(<<>>, v, c, complaint)
        BY <1>11, <2>3, <3>1, <3>5 DEF parse_if_stmt, Begins, Doing, parts
      <4>2. v \in Tree
        BY <1>1, <1>7, <1>8, <1>9, <3>2
      <4> HIDE DEF v
      <4> QED
        BY <3>1, <3>3, <4>1, <4>2, ReturnSound
    <3> QED
      BY <3>4, <3>5
  <2>4. CASE Doing("else") /\ Return(Node("IF", 0, Append(Head(calls).parts, value)), cursor)
    <3> DEFINE v == Node("IF", 0, Append(Head(calls).parts, value))
    <3>1. /\ Head(calls).do = "else" /\ Head(calls).do \notin OuterCalls
          /\ BracketOf(Head(calls)) = <<>> /\ Head(calls).parts \in Seq(Tree)
      BY <1>1, <1>4, <2>4, InnerFields DEF OuterCalls, Tree
    <3>2. v \in Tree
      BY <1>1, <1>7, <1>8, <1>9, <3>1
    <3> HIDE DEF v
    <3>3. Step(<<>>, v, cursor, FALSE)
      BY <2>4 DEF Return, v
    <3> QED
      BY <1>1, <3>1, <3>2, <3>3, ReturnSound
  <2> QED
    BY <1>11, <2>1, <2>2, <2>3, <2>4 DEF parse_if_stmt
<1>12. CASE parse_for_stmt
  <2>1. CASE Begins("FOR") /\ Declaring("IN", LAMBDA n :
                                << Call("expression"), [do |-> "start", at |-> n] >>)
    <3> DEFINE name == matched(advance(cursor), {"IDENTIFIER"})
               wrong == current(name) # "IDENTIFIER" \/ ~matches(name, {"IN"})
               x == [do |-> "start", at |-> name.current]
               c == matched(name, {"IN"})
    <3>1. /\ name \in Places /\ Before(name) = Before(cursor)
          /\ ~is_parse_end(name) => name.current \in 0 .. Len(tokens)
      BY <1>1, <1>6a, <2>1, NameFacts
    <3>2. \/ Stop("crashed", Missing)
          \/ ~is_parse_end(name) /\ Step(<< Call("expression"), x >>, Missing, c, wrong)
      BY <2>1 DEF Declaring
    <3>3. c \in Places /\ Before(c) = Before(cursor)
      BY <1>1, <1>6, <3>1, MatchedFacts, MatchedQuiet
    <3>4. CASE Stop("crashed", Missing)
      BY <1>1, <3>4, StopSound
    <3>5. CASE ~is_parse_end(name) /\ Step(<< Call("expression"), x >>, Missing, c, wrong)
      <4>1. name.current \in 0 .. Len(tokens)
        BY <3>1, <3>5
      <4>2. x \in Inner(Len(tokens)) /\ x.do # "true_expr" /\ BracketOf(x) = <<>>
        BY <1>1, <4>1, BracketCases DEF Inner
      <4> HIDE DEF x, c, wrong
      <4> QED
        BY <1>5, <1>6, <2>1, <3>3, <3>5, <4>2, CallSound
    <3> QED
      BY <3>2, <3>4, <3>5
  <2>2. CASE Doing("start")
    <3> DEFINE x == [do |-> "end", at |-> Head(calls).at, start |-> value]
               c == matched(cursor, {"DOTDOT"})
               complaint == ~Sees({"DOTDOT"})
    <3>1. /\ Head(calls).do = "start" /\ Head(calls).do \notin OuterCalls
          /\ BracketOf(Head(calls)) = <<>> /\ Head(calls).at \in 0 .. Len(tokens)
      BY <1>1, <1>4, <2>2, InnerFields DEF OuterCalls
    <3>2. Step(<< Call("expression"), x >>, Missing, c, complaint)
      BY <1>12, <2>2, <3>1 DEF parse_for_stmt, Begins, Doing
    <3>3. x \in Inner(Len(tokens)) /\ x.do # "true_expr" /\ BracketOf(x) = <<>>
      BY <1>1, <3>1, BracketCases DEF Inner, Tree
    <3>4. c \in Places /\ Before(c) = Before(cursor)
      BY <1>2, <1>6
    <3> HIDE DEF x, c, complaint
    <3> QED
      BY <1>6, <3>1, <3>2, <3>3, <3>4, CallSound
  <2>3. CASE Doing("end")
    <3> DEFINE r == Node("RANGE", 0, << Head(calls).start, value >>)
               x == [do |-> "body", at |-> Head(calls).at, range |-> r]
    <3>1. /\ Head(calls).do = "end" /\ Head(calls).do \notin OuterCalls
          /\ BracketOf(Head(calls)) = <<>> /\ Head(calls).at \in 0 .. Len(tokens)
          /\ Head(calls).start \in Tree
      BY <1>1, <1>4, <2>3, InnerFields DEF OuterCalls, Tree
    <3>2. r \in Tree
      BY <1>1, <1>7, <1>8, <1>9, <3>1
    <3>3. Step(<< Call("statement"), x >>, Missing, cursor, FALSE)
      BY <1>12, <2>3, <3>1 DEF parse_for_stmt, Begins, Doing, Go
    <3> HIDE DEF r
    <3>4. x \in Inner(Len(tokens)) /\ x.do # "true_expr" /\ BracketOf(x) = <<>>
      BY <1>1, <3>1, <3>2, BracketCases DEF Inner, Tree
    <3> HIDE DEF x
    <3> QED
      BY <1>1, <1>6, <3>1, <3>3, <3>4, CallSound
  <2>4. CASE Doing("body")
    <3> DEFINE v == IF value = Missing THEN Missing
                    ELSE Node("FOR", Head(calls).at, << Head(calls).range, value >>)
               complaint == (value = Missing)
    <3>1. /\ Head(calls).do = "body" /\ Head(calls).do \notin OuterCalls
          /\ BracketOf(Head(calls)) = <<>> /\ Head(calls).at \in 0 .. Len(tokens)
          /\ Head(calls).range \in Tree
      BY <1>1, <1>4, <2>4, InnerFields DEF OuterCalls, Tree
    <3>2. v \in Tree
      BY <1>1, <1>7, <1>8, <3>1
    <3>3. Step(<<>>, v, cursor, complaint)
      BY <1>12, <2>4, <3>1 DEF parse_for_stmt, Begins, Doing
    <3> HIDE DEF v, complaint
    <3> QED
      BY <1>1, <3>1, <3>2, <3>3, ReturnSound
  <2> QED
    BY <1>12, <2>1, <2>2, <2>3, <2>4 DEF parse_for_stmt
<1>13. CASE parse_loop_stmt
  <2>1. Begins("LOOP") /\ Step(<<>>, Missing, advance(cursor), FALSE)
    BY <1>13 DEF parse_loop_stmt, Return
  <2> QED
    BY <1>1, <1>3, <1>6a, <2>1, ReturnSound
<1>14. CASE parse_break_stmt
  <2>1. Begins("BREAK") /\ Step(<<>>, Leaf("BREAK", 0), advance(cursor), FALSE)
    BY <1>14 DEF parse_break_stmt, Return
  <2>2. Leaf("BREAK", 0) \in Tree
    BY <1>8, <1>9 DEF Leaf
  <2> QED
    BY <1>1, <1>3, <1>6a, <2>1, <2>2, ReturnSound
<1>15. CASE parse_return_stmt
  <2>1. CASE Begins("RETURN") /\ Go(<< Call("expression"), Call("return") >>, advance(cursor))
    <3>1. Step(<< Call("expression"), Call("return") >>, Missing, advance(cursor), FALSE)
      BY <2>1 DEF Go
    <3>2. /\ Call("return") \in Inner(Len(tokens)) /\ Call("return").do # "true_expr"
          /\ BracketOf(Call("return")) = <<>>
      BY <1>1, <1>6, PlainCallFacts
    <3> QED
      BY <1>3, <1>6, <1>6a, <2>1, <3>1, <3>2, CallSound
  <2>2. CASE Doing("return") /\ ReturnExpecting(Node("RETURN", 0, << value >>), "SEMICOLON")
    <3> DEFINE v == Node("RETURN", 0, << value >>)
               c == matched(cursor, {"SEMICOLON"})
    <3>1. /\ Head(calls).do \notin OuterCalls /\ BracketOf(Head(calls)) = <<>>
      BY <1>4, <2>2 DEF OuterCalls
    <3>2. v \in Tree
      BY <1>1, <1>7, <1>8, <1>9
    <3> HIDE DEF v
    <3>3. Step(<<>>, v, c, ~Sees({"SEMICOLON"}))
      BY <2>2 DEF ReturnExpecting, v
    <3>4. c \in Places /\ Before(c) = Before(cursor)
      BY <1>2, <1>6
    <3> QED
      BY <3>1, <3>2, <3>3, <3>4, ReturnSound
  <2> QED
    BY <1>15, <2>1, <2>2 DEF parse_return_stmt
<1>16. CASE parse_block_stmt
  <2>1. CASE Begins("LBRACE") /\ Go(<< Block(<<>>) >>, advance(cursor))
    <3> DEFINE x == Block(<<>>)
    <3>1. Step(<< x >>, Missing, advance(cursor), FALSE)
      BY <2>1 DEF Go
    <3>2. x \in Inner(Len(tokens)) /\ x.do # "true_expr" /\ BracketOf(x) = << "LBRACE" >>
      BY <1>1, <1>9, BracketCases DEF Inner, Block, Tree
    <3> HIDE DEF x
    <3>3. Pends(<< x >>, << "LBRACE" >>)
      BY <3>2, PendsOne
    <3>4. Before(advance(cursor)) = << "LBRACE" >> \o Before(cursor)
      BY <1>1, <1>5, <2>1, AdvanceOpens DEF Opening
    <3> QED
      BY <1>1, <1>3, <1>5, <2>1, <3>1, <3>3, <3>4, OpeningSound
  <2>2. CASE Doing("block")
    <3> DEFINE list == Head(calls).list
               c == matched(cursor, {"RBRACE"})
    <3>1. /\ Head(calls).do = "block" /\ Head(calls).do \notin OuterCalls
          /\ BracketOf(Head(calls)) = << "LBRACE" >> /\ list \in Seq(Tree)
      BY <1>1, <1>4, <2>2, InnerFields, BracketCases DEF OuterCalls, Tree
    <3>2. CASE is_parse_end(cursor)
      <4>1. Step(<<>>, Missing, cursor, TRUE)
        BY <1>16, <2>2, <3>1, <3>2 DEF parse_block_stmt, Begins, Doing
      <4>2. Reads(<<>>, cursor, TRUE, <<>>) /\ <<>> \in Seq(Inner(Len(tokens)))
        BY EmptySeq DEF Reads
      <4> QED
        BY <1>1, <3>1, <4>1, <4>2, InnerSound
    <3>3. CASE ~is_parse_end(cursor) /\ Sees({"RBRACE"})
      <4> DEFINE v == Node("BLOCK", 0, list)
      <4>1. Step(<<>>, v, c, FALSE)
        BY <1>16, <2>2, <3>1, <3>3 DEF parse_block_stmt, Begins, Doing, Return
      <4>2. v \in Tree
        BY <1>8, <1>9, <3>1
      <4>3. /\ peek(cursor) \in DOMAIN Partner /\ c = advance(cursor)
            /\ BracketOf(Head(calls)) = << Partner[peek(cursor)] >>
        BY <3>1, <3>3, PartnerFacts DEF Sees, matches, matched
      <4> HIDE DEF v
      <4> QED
        BY <1>3, <3>1, <4>1, <4>2, <4>3, PendsNothing, ClosingSound
    <3>4. CASE ~is_parse_end(cursor) /\ ~Sees({"RBRACE"})
      <4> DEFINE x == [do |-> "stmt", list |-> list]
      <4>1. Step(<< Call("statement"), x >>, Missing, c, FALSE)
        BY <1>16, <2>2, <3>1, <3>4 DEF parse_block_stmt, Begins, Doing, Go
      <4>2. x \in Inner(Len(tokens)) /\ x.do # "true_expr" /\ BracketOf(x) = << "LBRACE" >>
        BY <1>1, <3>1, BracketCases DEF Inner, Tree
      <4>3. c \in Places /\ Before(c) = Before(cursor)
        <5>1. CASE peek(cursor) = "EOF"
          BY <1>2, <1>3, <5>1, PartnerFacts DEF matched
        <5>2. CASE peek(cursor) # "EOF"
          BY <1>1, <3>4, <5>2 DEF matched, Sees
        <5> QED
          BY <5>1, <5>2
      <4> HIDE DEF x, c
      <4> QED
        BY <1>6, <3>1, <4>1, <4>2, <4>3, CallSound
    <3> QED
      BY <3>2, <3>3, <3>4
  <2>3. CASE Doing("stmt") /\ Go(<< Block(Appended(Head(calls).list, value)) >>, cursor)
    <3> DEFINE x == Block(Appended(Head(calls).list, value))
    <3>1. /\ Head(calls).do = "stmt" /\ Head(calls).do \notin OuterCalls
          /\ BracketOf(Head(calls)) = << "LBRACE" >> /\ Head(calls).list \in Seq(Tree)
      BY <1>1, <1>4, <2>3, InnerFields, BracketCases DEF OuterCalls, Tree
    <3>2. Appended(Head(calls).list, value) \in Seq(Tree)
      BY <1>1, <3>1, AppendedTyped
    <3>3. x \in Inner(Len(tokens)) /\ x.do # "true_expr" /\ BracketOf(x) = << "LBRACE" >>
      BY <1>1, <3>2, BracketCases DEF Inner, Block, Tree
    <3>4. Step(<< x >>, Missing, cursor, FALSE)
      BY <2>3 DEF Go
    <3> HIDE DEF x
    <3>5. Pends(<< x >>, BracketOf(Head(calls)))
      BY <3>1, <3>3, PendsOne
    <3> QED
      BY <1>1, <3>1, <3>4, <3>5, QuietSound
  <2> QED
    BY <1>16, <2>1, <2>2, <2>3 DEF parse_block_stmt
<1>17. CASE parse_expression_stmt
  <2>1. CASE /\ Doing("statement") /\ ~Sees(Keywords)
             /\ Go(<< Call("expression"), Call("expression_stmt") >>, matched(cursor, Keywords))
    <3> DEFINE c == matched(cursor, Keywords)
    <3>1. Step(<< Call("expression"), Call("expression_stmt") >>, Missing, c, FALSE)
      BY <2>1 DEF Go
    <3>2. /\ Call("expression_stmt") \in Inner(Len(tokens)) /\ Call("expression_stmt").do # "true_expr"
          /\ BracketOf(Call("expression_stmt")) = <<>>
      BY <1>1, <1>6, PlainCallFacts
    <3>3. c \in Places /\ Before(c) = Before(cursor)
      <4>1. CASE peek(cursor) = "EOF"
        BY <1>2, <1>3, <4>1, PartnerFacts DEF matched
      <4>2. CASE peek(cursor) # "EOF"
        BY <1>1, <2>1, <4>2 DEF matched, Sees
      <4> QED
        BY <4>1, <4>2
    <3>4. Head(calls).do \notin OuterCalls /\ BracketOf(Head(calls)) = <<>>
      BY <1>4, <2>1 DEF OuterCalls
    <3> HIDE DEF c
    <3> QED
      BY <1>6, <3>1, <3>2, <3>3, <3>4, CallSound
  <2>2. CASE /\ Doing("expression_stmt")
             /\ ReturnExpecting(Node("EXPRESSION_STMT", 0, << value >>), "SEMICOLON")
    <3> DEFINE v == Node("EXPRESSION_STMT", 0, << value >>)
               c == matched(cursor, {"SEMICOLON"})
    <3>1. /\ Head(calls).do \notin OuterCalls /\ BracketOf(Head(calls)) = <<>>
      BY <1>4, <2>2 DEF OuterCalls
    <3>2. v \in Tree
      BY <1>1, <1>7, <1>8, <1>9
    <3> HIDE DEF v
    <3>3. Step(<<>>, v, c, ~Sees({"SEMICOLON"}))
      BY <2>2 DEF ReturnExpecting, v
    <3>4. c \in Places /\ Before(c) = Before(cursor)
      BY <1>2, <1>6
    <3> QED
      BY <3>1, <3>2, <3>3, <3>4, ReturnSound
  <2> QED
    BY <1>17, <2>1, <2>2 DEF parse_expression_stmt
<1> QED
  BY <1>10, <1>11, <1>12, <1>13, <1>14, <1>15, <1>16, <1>17 DEF parse_statement

-----------------------------------------------------------------------------
LEMMA AddsOne ==
  ASSUME NEW x
  PROVE  Adds(<< x >>, BracketOf(x))
<1>0. PICK s : s = << x >>
  OBVIOUS
<1>1. s = << x >> /\ Len(s) = 1 /\ s[1] = x /\ 1 .. Len(s) = {1}
  BY <1>0
<1>2. Adds(s, BracketOf(x))
  BY <1>1 DEF Adds
<1> QED
  BY <1>1, <1>2

LEMMA AddsTwo ==
  ASSUME NEW x, NEW y
  PROVE  /\ BracketOf(y) = <<>> => Adds(<< x, y >>, BracketOf(x))
         /\ \A k \in 1 .. Len(<< x, y >>) : << x, y >>[k] = x \/ << x, y >>[k] = y
<1>0. PICK s : s = << x, y >>
  OBVIOUS
<1>1. s = << x, y >> /\ Len(s) = 2 /\ s[1] = x /\ s[2] = y /\ 1 .. Len(s) = {1, 2}
  BY <1>0
<1>2. BracketOf(y) = <<>> => Adds(s, BracketOf(x))
  BY <1>1 DEF Adds
<1> QED
  BY <1>1, <1>2

\* A step within the head of a function.
LEMMA DeclaredSound ==
  ASSUME PInv, outcome = "parsing", Head(calls).do \in {"declaration", "params"},
         NEW x \in Declared(Len(tokens)), NEW c \in Places, NEW complaint,
         Step(<< x >>, Missing, c, complaint),
         ~complaint => \A r \in Seq(Brackets) :
                         Before(cursor) = BracketOf(Head(calls)) \o r => Before(c) = BracketOf(x) \o r
  PROVE  PInv'
<1>0. PICK p : p = << x >>
  OBVIOUS
<1>1. p = << x >> /\ Len(p) = 1 /\ p[1] = x /\ 1 .. Len(p) = {1}
  BY <1>0
<1>2. Replaces(p, Head(calls), Len(tokens))
  BY <1>1 DEF Replaces
<1>3. x.do # "true_expr"
  BY DEF Declared
<1>4. Missing \in Tree
  BY Working, MissingIsTree DEF Tree
<1>5. Adds(p, BracketOf(x))
  BY <1>1, AddsOne
<1>6. ~complaint => (\A k \in 1 .. Len(p) : p[k].do # "true_expr") /\ Fits(p, Missing, c)
  BY <1>1, <1>3, <1>5 DEF Fits
<1>7. Works(p, Missing, c, complaint)
  BY <1>2, <1>4, <1>6 DEF Works
<1> QED
  BY <1>1, <1>7, StepSound

LEMMA FunctionsSound ==
  ASSUME PInv, outcome = "parsing", parse_fn_decl_stmt
  PROVE  PInv'
<1>1. /\ TokensOk /\ Len(tokens) \in Nat /\ cursor \in Places /\ value \in Tree
      /\ Head(calls) \in Item(Len(tokens)) /\ Missing \in Tree
      /\ \A r \in Seq(Brackets) : <<>> \o r = r
  BY Working, MissingIsTree, ConcatEmptySeq DEF Tree
<1>2. CASE /\ Doing("declaration") /\ Sees({"FN"})
           /\ Declaring("LPAREN", LAMBDA n : << [do |-> "params", at |-> n, params |-> <<>>] >>)
  <2> DEFINE name == matched(advance(cursor), {"IDENTIFIER"})
             wrong == current(name) # "IDENTIFIER" \/ ~matches(name, {"LPAREN"})
             x == [do |-> "params", at |-> name.current, params |-> <<>>]
             c == matched(name, {"LPAREN"})
  <2>1. Head(calls).do = "declaration" /\ BracketOf(Head(calls)) = <<>>
    BY <1>2, BracketCases DEF Doing
  <2>2. peek(cursor) \notin Brackety
    BY <1>2, PartnerFacts DEF Sees, matches
  <2>3. /\ name \in Places /\ Before(name) = Before(cursor)
        /\ ~is_parse_end(name) => name.current \in 0 .. Len(tokens)
    BY <1>1, <2>2, NameFacts
  <2>4. \/ Stop("crashed", Missing)
        \/ ~is_parse_end(name) /\ Step(<< x >>, Missing, c, wrong)
    BY <1>2 DEF Declaring
  <2>5. c \in Places
    BY <1>1, <2>3, MatchedFacts
  <2>6. ~wrong => Before(c) = << "LPAREN" >> \o Before(cursor)
    <3>1. ~wrong => peek(name) = "LPAREN" /\ c = advance(name)
      BY DEF matches, matched
    <3> HIDE DEF name, wrong, c
    <3> QED
      BY <1>1, <2>3, <3>1, AdvanceOpens DEF Opening
  <2>7. CASE Stop("crashed", Missing)
    BY <1>1, <2>7, StopSound
  <2>8. CASE ~is_parse_end(name) /\ Step(<< x >>, Missing, c, wrong)
    <3>1. name.current \in 0 .. Len(tokens)
      BY <2>3, <2>8
    <3>2. x \in Declared(Len(tokens)) /\ BracketOf(x) = << "LPAREN" >>
      BY <1>1, <3>1, BracketCases, EmptySeq DEF Declared
    <3> HIDE DEF x, c, wrong
    <3>3. ~wrong => \A r \in Seq(Brackets) :
                      Before(cursor) = BracketOf(Head(calls)) \o r => Before(c) = BracketOf(x) \o r
      BY <1>1, <2>1, <2>6, <3>2
    <3> QED
      BY <2>1, <2>5, <2>8, <3>2, <3>3, DeclaredSound
  <2> QED
    BY <2>4, <2>7, <2>8
<1>3. CASE Doing("params")
  <2> DEFINE call == Head(calls)
             c == matched(cursor, {"IDENTIFIER", "COMMA"})
             params == IF current(c) = "IDENTIFIER"
                       THEN Append(call.params, Leaf("SYMBOL", c.current)) ELSE call.params
             closed == advance(c)
             more == [call EXCEPT !.params = params]
             body == [call EXCEPT !.do = "fn", !.params = params]
             d == matched(closed, {"LBRACE"})
             complaint == ~matches(closed, {"LBRACE"})
  <2>1. /\ call.do = "params" /\ BracketOf(call) = << "LPAREN" >> /\ call.do \notin OuterCalls
        /\ call \in [do : {"params"}, at : 0 .. Len(tokens), params : Seq(Tree)]
    BY <1>1, <1>3, BracketCases, ItemKinds DEF Doing, OuterCalls, Tree
  <2>2. c \in Places /\ Before(c) = Before(cursor)
    <3>1. {"IDENTIFIER", "COMMA"} \intersect Brackety = {}
      BY PartnerFacts
    <3> QED
      BY <1>1, <3>1, MatchedFacts, MatchedQuiet
  <2>3. params \in Seq(Tree)
    <3>1. CASE current(c) = "IDENTIFIER"
      <4>1. c.current \in 0 .. End /\ End = Len(tokens) + 1 /\ c.current # End
        BY <1>1, <2>2, <3>1, KindFacts DEF Places, current
      <4>2. c.current \in 0 .. Len(tokens)
        BY <1>1, <4>1
      <4>3. PICK v : v = Leaf("SYMBOL", c.current) /\ v \in Tree
        BY <1>1, <4>2, NodeInTree, SomeTypes, EmptySeq DEF Leaf
      <4>4. PICK A : A = Tree
        OBVIOUS
      <4>5. \A s \in Seq(A), u \in A : Append(s, u) \in Seq(A)
        OBVIOUS
      <4>6. call.params \in Seq(Tree)
        BY <2>1
      <4> QED
        BY <3>1, <4>3, <4>4, <4>5, <4>6
    <3>2. CASE current(c) # "IDENTIFIER"
      BY <2>1, <3>2
    <3> QED
      BY <3>1, <3>2
  <2>4. \/ Step(<<>>, Missing, c, FALSE)
        \/ Step(<< more >>, Missing, matched(c, {}), FALSE)
        \/ matches(c, {"RPAREN"}) /\ Step(<< Block(<<>>), body >>, Missing, d, complaint)
    <3> HIDE DEF params
    <3> QED
      BY Zenon, <2>1, parse_fn_decl_stmt DEF parse_fn_decl_stmt, Doing, Go, Return, params
  <2> HIDE DEF params
  <2>5. CASE Step(<<>>, Missing, c, FALSE)
    <3>1. <<>> \in Seq(Inner(Len(tokens))) /\ Len(<<>>) = 0 /\ 1 .. 0 = {}
      BY EmptySeq
    <3>2. Works(<<>>, Missing, c, FALSE)
      BY <1>1, <2>1, <2>2, <3>1 DEF Works, Replaces, Fits
    <3> QED
      BY <2>1, <2>5, <3>2, StepSound
  <2>6. CASE Step(<< more >>, Missing, matched(c, {}), FALSE)
    <3>1. more \in Declared(Len(tokens)) /\ BracketOf(more) = << "LPAREN" >>
      <4>1. more \in [do : {"params"}, at : 0 .. Len(tokens), params : Seq(Tree)] /\ more.do = "params"
        BY <2>1, <2>3
      <4> HIDE DEF more
      <4> QED
        BY <4>1, BracketCases DEF Declared, Tree
    <3>2. matched(c, {}) \in Places /\ Before(matched(c, {})) = Before(cursor)
      BY <1>1, <2>2, MatchedFacts, MatchedQuiet
    <3> HIDE DEF more, c
    <3> QED
      BY <2>1, <2>6, <3>1, <3>2, DeclaredSound
  <2>7. CASE matches(c, {"RPAREN"}) /\ Step(<< Block(<<>>), body >>, Missing, d, complaint)
    <3> DEFINE x == Block(<<>>)
               p == << x, body >>
    <3>1. x \in Inner(Len(tokens)) /\ x.do # "true_expr" /\ BracketOf(x) = << "LBRACE" >>
      BY BracketCases, EmptySeq DEF Inner, Block
    <3>2. body \in Inner(Len(tokens)) /\ body.do # "true_expr" /\ BracketOf(body) = <<>>
      <4>1. body \in [do : {"fn"}, at : 0 .. Len(tokens), params : Seq(Tree)] /\ body.do = "fn"
        BY <2>1, <2>3
      <4> HIDE DEF body
      <4> QED
        BY <4>1, BracketCases DEF Inner, Tree
    <3>3. closed \in Places /\ d \in Places
      BY <1>1, <2>2, AdvanceFacts, MatchedFacts
    <3>4. ASSUME NEW r \in Seq(Brackets), Before(cursor) = BracketOf(call) \o r, ~complaint
          PROVE  Before(d) = << "LBRACE" >> \o r
      <4>1. peek(c) = "RPAREN" /\ peek(c) \in DOMAIN Partner /\ Partner[peek(c)] = "LPAREN"
        BY <2>7, PartnerFacts DEF matches
      <4>2. Before(closed) = r
        BY <1>1, <2>1, <2>2, <3>4, <4>1, AdvanceCloses
      <4>3. peek(closed) = "LBRACE" /\ d = advance(closed)
        BY <3>4 DEF matches, matched
      <4> HIDE DEF closed, d
      <4> QED
        BY <1>1, <3>3, <4>2, <4>3, AdvanceOpens DEF Opening
    <3> HIDE DEF x, body, c, closed, d, complaint
    <3>5. p \in Seq(Inner(Len(tokens)))
      <4>1. PICK A : A = Inner(Len(tokens)) /\ x \in A /\ body \in A
        BY <3>1, <3>2
      <4> QED
        BY <4>1
    <3>6. Adds(p, << "LBRACE" >>) /\ \A k \in 1 .. Len(p) : p[k].do # "true_expr"
      BY <3>1, <3>2, AddsTwo
    <3>7. Reads(p, d, complaint, << "LBRACE" >>)
      BY <3>4, <3>5, <3>6 DEF Reads, Pends
    <3>8. Step(p, Missing, d, complaint)
      BY <2>7 DEF x
    <3> HIDE DEF p
    <3> QED
      BY <1>1, <2>1, <3>3, <3>5, <3>7, <3>8, InnerSound
  <2> QED
    BY <2>4, <2>5, <2>6, <2>7
<1>4. CASE Doing("fn") /\ Return(Node("FN_DECL", Head(calls).at, Head(calls).params \o << value >>), cursor)
  <2> DEFINE v == Node("FN_DECL", Head(calls).at, Head(calls).params \o << value >>)
  <2>1. /\ Head(calls).do = "fn" /\ Head(calls).do \notin OuterCalls
        /\ BracketOf(Head(calls)) = <<>> /\ Head(calls).at \in 0 .. Len(tokens)
        /\ Head(calls).params \in Seq(Tree)
    <3>1. Head(calls).do = "fn" /\ Head(calls) \in Inner(Len(tokens))
      BY <1>1, <1>4, ItemKinds DEF Doing, OuterCalls
    <3> QED
      BY <1>1, <3>1, InnerFields, BracketCases DEF OuterCalls, Tree
  <2>2. v \in Tree
    <3>1. << value >> \in Seq(Tree)
      BY <1>1, OneElement
    <3>2. Head(calls).params \o << value >> \in Seq(Tree)
      BY <2>1, <3>1, ConcatProperties
    <3>3. "FN_DECL" \in NodeTypes
      BY SomeTypes
    <3> QED
      BY <1>1, <2>1, <3>2, <3>3, NodeInTree
  <2> HIDE DEF v
  <2>3. Step(<<>>, v, cursor, FALSE)
    BY <1>4 DEF Return, v
  <2> QED
    BY <1>1, <2>1, <2>2, <2>3, ReturnSound
<1> QED
  BY <1>2, <1>3, <1>4 DEF parse_fn_decl_stmt

LEMMA DeclarationsSound ==
  ASSUME PInv, outcome = "parsing", parse_decl_stmt
  PROVE  PInv'
<1>1. Len(tokens) \in Nat /\ cursor \in Places /\ Missing \in Tree
  BY Working, MissingIsTree DEF Tree
<1>2. Head(calls).do = "declaration" /\ Step(<< Call("statement") >>, Missing, cursor, FALSE)
  BY DEF parse_decl_stmt, Doing, Go
<1>3. Head(calls).do \notin OuterCalls /\ BracketOf(Head(calls)) = <<>>
  BY <1>2, BracketCases DEF OuterCalls
<1>4. Pends(<< Call("statement") >>, BracketOf(Head(calls)))
  BY <1>1, <1>3, CallPends DEF PlainCalls
<1> QED
  BY <1>1, <1>2, <1>3, <1>4, QuietSound

(* When the program comes to the end of the tokens, nothing else is pending. *)
LEMMA AllClosed ==
  ASSUME PInv, outcome = "parsing", Head(calls).do = "program", NoTernary, ~reported, Sees({"EOF"})
  PROVE  OpenAfter(Len(tokens)) = <<>>
<1>1. TokensOk /\ Len(tokens) \in Nat /\ cursor \in Places /\ Stacked(calls, Len(tokens)) /\ Balanced
  BY Working DEF PInv
<1>2. Closes(calls, Before(cursor))
  BY <1>1 DEF Balanced, GivesUp
<1>3. /\ calls \in Seq(Item(Len(tokens))) /\ calls # <<>>
      /\ \A k \in 1 .. Len(calls) : calls[k].do \in OuterCalls <=> k = Len(calls)
  BY <1>1 DEF Stacked
<1>4. PICK A : A = Item(Len(tokens)) /\ calls \in Seq(A)
  BY <1>3
<1>5. Head(calls) = calls[1] /\ 1 \in 1 .. Len(calls)
  BY <1>3, <1>4
<1>6. Len(calls) = 1
  BY <1>3, <1>5 DEF OuterCalls
<1>7. PICK r \in Seq(Brackets) : Before(cursor) = BracketOf(Head(calls)) \o r /\ Closes(Tail(calls), r)
  BY <1>2, <1>3, <1>4, ClosesLess
<1>8. r = <<>>
  <2>1. Tail(calls) = <<>>
    <3>1. Tail(calls) \in Seq(A) /\ Len(Tail(calls)) = 0
      BY <1>3, <1>4, <1>6
    <3> QED
      BY <3>1, EmptySeq
  <2>2. Closes(<<>>, r)
    BY <1>7, <2>1
  <2>3. Len(<<>>) + 1 = 1
    OBVIOUS
  <2>4. \E g : g[1] = r /\ g[Len(<<>>) + 1] = <<>>
    BY <2>2 DEF Closes
  <2> QED
    BY <2>3, <2>4
<1>9. Before(cursor) = <<>>
  <2>1. BracketOf(Head(calls)) = <<>>
    BY BracketCases
  <2> QED
    BY <1>7, <1>8, <2>1, ConcatEmptySeq
<1>10. cursor.index \in 1 .. End /\ peek(cursor) = "EOF"
  BY <1>1 DEF Places, Sees, matches
<1>11. cursor.index = Len(tokens) + 1
  <2>1. cursor.index \notin 1 .. Len(tokens)
    BY <1>1, <1>10, KindFacts DEF peek
  <2> QED
    BY <1>1, <1>10, <2>1, KindFacts
<1>12. cursor.index - 1 = Len(tokens)
  BY <1>1, <1>11
<1> QED
  BY <1>9, <1>12 DEF Before

LEMMA ProgramSound ==
  ASSUME PInv, outcome = "parsing", parse_program
  PROVE  PInv'
<1>1. /\ TokensOk /\ Len(tokens) \in Nat /\ cursor \in Places /\ value \in Tree
      /\ Head(calls) \in Item(Len(tokens)) /\ Missing \in Tree
      /\ \A r \in Seq(Brackets) : <<>> \o r = r
  BY Working, MissingIsTree, ConcatEmptySeq DEF Tree
<1>2. CASE Doing("program")
  <2>1. /\ Head(calls).do = "program" /\ BracketOf(Head(calls)) = <<>>
        /\ Head(calls) \in [do : {"program", "decl"}, list : Seq(Tree)]
    BY <1>1, <1>2, BracketCases, ItemKinds DEF Doing, OuterCalls, Outer, Tree
  <2>2. CASE Sees({"EOF"})
    <3> DEFINE v == Node("BLOCK", 0, Head(calls).list)
    <3>1. Stop("parsed", v)
      BY <2>1, <2>2, parse_program DEF parse_program, Doing
    <3>2. v \in Tree
      <4>1. Head(calls).list \in Seq(Tree) /\ "BLOCK" \in NodeTypes /\ 0 \in 0 .. Len(tokens)
        BY <1>1, <2>1, SomeTypes
      <4> QED
        BY <1>1, <4>1, NodeInTree
    <3> HIDE DEF v
    <3> QED
      BY <2>1, <2>2, <3>1, <3>2, AllClosed, StopSound
  <2>3. CASE ~Sees({"EOF"})
    <3> DEFINE y == [do |-> "decl", list |-> Head(calls).list]
               x == Call("declaration")
               p == << x, y >>
    <3>1. [Head(calls) EXCEPT !.do = "decl"] = y /\ Head(calls).list \in Seq(Tree)
      BY <2>1
    <3>2. Step(p, Missing, cursor, FALSE)
      BY <2>1, <2>3, <3>1, parse_program DEF parse_program, Doing, Go
    <3>3. Replaces(p, Head(calls), Len(tokens))
      BY <2>1, <3>1 DEF Replaces, Tree
    <3>4. /\ x.do # "true_expr" /\ BracketOf(x) = <<>>
          /\ y.do # "true_expr" /\ BracketOf(y) = <<>>
      BY BracketCases DEF Call
    <3> HIDE DEF x, y
    <3>5. Adds(p, <<>>) /\ \A k \in 1 .. Len(p) : p[k].do # "true_expr"
      BY <3>4, AddsTwo
    <3> HIDE DEF p
    <3>6. Fits(p, Missing, cursor)
      BY <1>1, <2>1, <3>5 DEF Fits
    <3>7. Works(p, Missing, cursor, FALSE)
      BY <1>1, <3>3, <3>5, <3>6 DEF Works
    <3> QED
      BY <2>1, <3>2, <3>7, StepSound
  <2> QED
    BY <2>2, <2>3
<1>3. CASE Doing("decl")
  <2>1. /\ Head(calls).do = "decl" /\ BracketOf(Head(calls)) = <<>>
        /\ Head(calls) \in [do : {"program", "decl"}, list : Seq(Tree)]
    BY <1>1, <1>3, BracketCases, ItemKinds DEF Doing, OuterCalls, Outer, Tree
  <2>2. CASE value = Missing
    <3>1. Stop("parsed", Missing)
      BY <2>1, <2>2, parse_program DEF parse_program, Doing
    <3> QED
      BY <1>1, <3>1, StopSound
  <2>3. CASE value # Missing
    <3> DEFINE list == Appended(Head(calls).list, value)
               x == [do |-> "program", list |-> list]
               p == << x >>
    <3>1. list \in Seq(Tree)
      BY <1>1, <2>1, AppendedTyped
    <3>2. Step(p, Missing, cursor, FALSE)
      BY <2>1, <2>3, parse_program DEF parse_program, Doing, Go
    <3> HIDE DEF list
    <3>3. Replaces(p, Head(calls), Len(tokens))
      BY <2>1, <3>1 DEF Replaces, Tree
    <3>4. x.do # "true_expr" /\ BracketOf(x) = <<>>
      BY BracketCases
    <3> HIDE DEF x
    <3>5. Adds(p, <<>>) /\ \A k \in 1 .. Len(p) : p[k].do # "true_expr"
      <4>1. Len(p) = 1 /\ p[1] = x /\ 1 .. Len(p) = {1}
        OBVIOUS
      <4> QED
        BY <3>4, <4>1, AddsOne
    <3> HIDE DEF p
    <3>6. Fits(p, Missing, cursor)
      BY <1>1, <2>1, <3>5 DEF Fits
    <3>7. Works(p, Missing, cursor, FALSE)
      BY <1>1, <3>3, <3>5, <3>6 DEF Works
    <3> QED
      BY <2>1, <2>3, <3>2, <3>7, StepSound
  <2> QED
    BY <2>2, <2>3
<1> QED
  BY <1>2, <1>3 DEF parse_program

-----------------------------------------------------------------------------
LEMMA InitSound == Init => PInv
<1> SUFFICES ASSUME Init PROVE PInv
  OBVIOUS
<1>1. /\ TokensOk /\ cursor = [index |-> 1, current |-> 0] /\ value = Missing
      /\ outcome = "parsing" /\ reported = FALSE /\ calls = << [do |-> "program", list |-> <<>>] >>
  BY SourcesAssumption DEF Init, TokensOk
<1>2. Len(tokens) \in Nat /\ End = Len(tokens) + 1
  BY <1>1, KindFacts
<1>3. cursor \in Places /\ cursor.index - 1 = 0
  BY <1>1, <1>2 DEF Places
<1>4. value \in Tree
  BY <1>1, <1>2, MissingIsTree DEF Tree
<1>0. PICK x : x = [do |-> "program", list |-> <<>>]
  OBVIOUS
<1>5. x = [do |-> "program", list |-> <<>>] /\ x.do = "program" /\ x \in Item(Len(tokens))
  BY <1>0, EmptySeq DEF Item, Outer
<1>6. /\ calls = << x >> /\ Len(calls) = 1 /\ calls[1] = x /\ 1 .. Len(calls) = {1}
      /\ calls # <<>>
  BY <1>1, <1>5
<1>7. calls \in Seq(Item(Len(tokens)))
  BY <1>5, <1>6, OneElement
<1>8. Stacked(calls, Len(tokens))
  BY <1>5, <1>6, <1>7 DEF Stacked, OuterCalls
<1>9. Closes(calls, <<>>)
  <2> DEFINE g == [k \in 1 .. 2 |-> <<>>]
  <2>1. g[1] = <<>> /\ g[2] = <<>> /\ 1 .. Len(calls) + 1 = {1, 2} /\ Len(calls) + 1 = 2
    BY <1>6
  <2>2. \A k \in 1 .. Len(calls) + 1 : g[k] \in Seq(Brackets)
    BY <2>1, EmptySeq
  <2>3. BracketOf(calls[1]) = <<>> /\ <<>> \o <<>> = <<>>
    BY <1>5, <1>6, BracketCases
  <2> HIDE DEF g
  <2>4. \A k \in 1 .. Len(calls) : g[k] = BracketOf(calls[k]) \o g[k + 1]
    BY <1>6, <2>1, <2>3
  <2> QED
    BY <2>1, <2>2, <2>4 DEF Closes
<1>10. Balanced
  <2>1. Before(cursor) = <<>>
    BY <1>2, <1>3, OpenAfterSteps DEF Before
  <2>2. \A k \in 1 .. Len(calls) : calls[k].do # "true_expr"
    BY <1>5, <1>6
  <2> QED
    BY <1>1, <1>9, <2>1, <2>2 DEF Balanced
<1> QED
  BY <1>1, <1>3, <1>4, <1>8, <1>10 DEF PInv

LEMMA NextSound == PInv /\ [Next]_vars => PInv'
<1> SUFFICES ASSUME PInv, [Next]_vars PROVE PInv'
  OBVIOUS
<1>1. CASE UNCHANGED vars
  BY <1>1 DEF vars, PInv, TokensOk, Places, End, Tree, Balanced, NoTernary, GivesUp, Before, OpenAfter
<1>2. CASE Next
  <2>1. outcome = "parsing"
    BY <1>2 DEF Next, parse_program, parse_decl_stmt, parse_fn_decl_stmt, parse_statement,
       parse_operators, parse_expression, parse_assignment_expression, parse_ternary_expression,
       parse_binary_operators, parse_right_operand, parse_unary_expression, parse_unary_operand,
       parse_primary_expression, parse_parenthesis, parse_callee, parse_call_expression,
       parse_var_decl_stmt, parse_if_stmt, parse_for_stmt, parse_loop_stmt, parse_break_stmt,
       parse_return_stmt, parse_block_stmt, parse_expression_stmt, Begins, Doing
  <2> QED
    BY <1>2, <2>1, ProgramSound, DeclarationsSound, FunctionsSound, StatementsSound, OperatorsSound
       DEF Next
<1> QED
  BY <1>1, <1>2

(* Whatever the tokens, the pending calls nest, hold whole trees, and are to close
   the brackets that were read and are still open. *)
THEOREM ParserSound == Spec => []PInv
  BY InitSound, NextSound, PTL DEF Spec

(* Whatever the tokens, the cursor stays within their list and every function of
   the parser returns one whole tree. *)
THEOREM Typing == Spec => []TypeOK
<1>1. PInv => TypeOK
  <2> SUFFICES ASSUME PInv PROVE TypeOK
    OBVIOUS
  <2>1. cursor \in [index : 1 .. End, current : 0 .. End]
    BY DEF PInv, Places
  <2>2. value \in Seq(Nodes(Len(tokens))) /\ IsTree(value)
    BY DEF PInv, Tree, TreesUpTo
  <2>3. \A k \in DOMAIN calls : calls[k].do \in Calls
    <3>1. CASE outcome = "parsing"
      <4>1. Len(tokens) \in Nat /\ Stacked(calls, Len(tokens))
        BY <3>1, Working DEF PInv
      <4>2. PICK A : A = Item(Len(tokens)) /\ calls \in Seq(A)
        BY <4>1 DEF Stacked
      <4>3. ASSUME NEW k \in DOMAIN calls PROVE calls[k] \in A
        BY <4>2
      <4> QED
        BY <4>1, <4>2, <4>3, ItemCalls
    <3>2. CASE outcome # "parsing"
      <4>1. calls = <<>>
        BY <3>2 DEF PInv
      <4> QED
        BY <4>1
    <3> QED
      BY <3>1, <3>2
  <2> QED
    BY <2>1, <2>2, <2>3 DEF PInv, TypeOK
<1> QED
  BY <1>1, ParserSound, PTL

(* Whatever the tokens, parentheses and braces of an accepted program without a
   ternary match. *)
THEOREM AcceptedMatch == Spec => []BracketsMatch
<1>1. PInv => BracketsMatch
  BY DEF PInv, Balanced, NoTernary, BracketsMatch, Accepted
<1> QED
  BY <1>1, ParserSound, PTL

-----------------------------------------------------------------------------
(* What a list of nodes mentions. *)
LEMMA Regrouped ==
  ASSUME NEW A, NEW x \in Seq(A), NEW y \in Seq(A), NEW z \in Seq(A),
         NEW v, v = x \o y, NEW w, w = y \o z
  PROVE  x \o w = v \o z
  BY ConcatAssociative

\* Concatenation left unexpanded.
Cat(a, b) == a \o b

LEMMA CatRegroups ==
  ASSUME NEW A, NEW a \in Seq(A), NEW b \in Seq(A), NEW c \in Seq(A)
  PROVE  Cat(Cat(a, b), c) = Cat(a, Cat(b, c))
<1>1. PICK v, w : v = a \o b /\ w = b \o c
  OBVIOUS
<1>2. a \o w = v \o c
  BY <1>1, Regrouped, SMTT(30)
<1> QED
  BY <1>1, <1>2 DEF Cat

Noting(before, node) == IF node.type \in Named THEN before \o << node.at >> ELSE before

\* h[k] is what the first k nodes of t mention.
Mentioned(t, h) ==
  /\ h[0] = <<>>
  /\ \A k \in 1 .. Len(t) : h[k] = Noting(h[k - 1], t[k])

LEMMA MentionedExists ==
  ASSUME NEW t, Len(t) \in Nat
  PROVE  \E h : Mentioned(t, h) /\ Mentions(t) = h[Len(t)]
<1> DEFINE Fills(f, n) == f = [k \in 0 .. n |-> IF k = 0 THEN <<>> ELSE Noting(f[k - 1], t[k])]
           S == {n \in Nat : \E f : Fills(f, n)}
<1>1. 0 \in S
  <2> DEFINE f == [k \in 0 .. 0 |-> <<>>]
  <2>1. Fills(f, 0)
    OBVIOUS
  <2> QED
    BY <2>1
<1>2. ASSUME NEW n \in S PROVE n + 1 \in S
  <2>1. PICK f : Fills(f, n)
    OBVIOUS
  <2> DEFINE e == [k \in 0 .. n + 1 |-> IF k = n + 1 THEN Noting(f[n], t[n + 1]) ELSE f[k]]
  <2>2. \A k \in 0 .. n + 1 : e[k] = IF k = 0 THEN <<>> ELSE Noting(e[k - 1], t[k])
    <3> TAKE k \in 0 .. n + 1
    <3>1. n \in Nat /\ (k = n + 1 \/ k \in 0 .. n)
      OBVIOUS
    <3>2. CASE k = n + 1
      <4>1. k # 0 /\ k - 1 = n /\ k - 1 \in 0 .. n + 1 /\ k - 1 # n + 1
        BY <3>1, <3>2
      <4>2. e[k - 1] = f[n] /\ e[k] = Noting(f[n], t[n + 1])
        BY <3>2, <4>1
      <4> QED
        BY <3>2, <4>1, <4>2
    <3>3. CASE k \in 0 .. n
      <4>1. e[k] = f[k] /\ f[k] = IF k = 0 THEN <<>> ELSE Noting(f[k - 1], t[k])
        BY <2>1, <3>1, <3>3
      <4>2. k # 0 => k - 1 \in 0 .. n + 1 /\ k - 1 # n + 1 /\ e[k - 1] = f[k - 1]
        BY <3>1, <3>3
      <4> QED
        BY <4>1, <4>2
    <3> QED
      BY <3>1, <3>2, <3>3
  <2>3. e = [k \in 0 .. n + 1 |-> e[k]]
    OBVIOUS
  <2> HIDE DEF e
  <2>4. Fills(e, n + 1)
    BY <2>2, <2>3
  <2>5. n + 1 \in Nat
    OBVIOUS
  <2> HIDE DEF Fills
  <2> QED
    BY <2>4, <2>5
<1>3. S = Nat
  <2> HIDE DEF S
  <2>1. S \in SUBSET Nat
    BY DEF S
  <2> QED
    BY <1>1, <1>2, <2>1, SetInduction
<1> DEFINE h == CHOOSE f : Fills(f, Len(t))
<1>4. Fills(h, Len(t))
  <2> HIDE DEF Fills
  <2>1. \E f : Fills(f, Len(t))
    BY <1>3
  <2> QED
    BY <2>1
<1>5. Mentions(t) = h[Len(t)]
  BY DEF Mentions, Noting
<1> HIDE DEF h
<1>6. Mentioned(t, h)
  BY <1>4 DEF Mentioned
<1> QED
  BY <1>5, <1>6

LEMMA MentionedOnce ==
  ASSUME NEW t, Len(t) \in Nat, NEW g, Mentioned(t, g)
  PROVE  Mentions(t) = g[Len(t)]
<1>1. PICK h : Mentioned(t, h) /\ Mentions(t) = h[Len(t)]
  BY MentionedExists
<1> DEFINE S == {n \in Nat : n <= Len(t) => g[n] = h[n]}
<1>2. 0 \in S
  BY <1>1 DEF Mentioned
<1>3. ASSUME NEW n \in S PROVE n + 1 \in S
  <2>1. SUFFICES ASSUME n + 1 <= Len(t) PROVE g[n + 1] = h[n + 1]
    OBVIOUS
  <2>2. n \in Nat /\ n + 1 \in 1 .. Len(t) /\ (n + 1) - 1 = n /\ g[n] = h[n]
    BY <2>1
  <2> QED
    BY <1>1, <2>2 DEF Mentioned
<1>4. S = Nat
  <2> HIDE DEF S
  <2>1. S \in SUBSET Nat
    BY DEF S
  <2> QED
    BY <1>2, <1>3, <2>1, SetInduction
<1> QED
  BY <1>1, <1>4

\* Nodes, as far as what they mention is concerned.
LEMMA MentionedTyped ==
  ASSUME NEW last \in Nat, NEW t \in Seq(Nodes(last)), NEW h, Mentioned(t, h)
  PROVE  \A k \in 0 .. Len(t) : h[k] \in Seq(0 .. last)
<1>0. Len(t) \in Nat /\ \A k \in 1 .. Len(t) : t[k].at \in 0 .. last
  <2>1. \A k \in 1 .. Len(t) : t[k] \in Nodes(last)
    BY ElementOfSeq
  <2> QED
    BY <2>1, LenProperties DEF Nodes
<1> DEFINE S == {n \in Nat : n <= Len(t) => h[n] \in Seq(0 .. last)}
<1>1. 0 \in S
  BY EmptySeq DEF Mentioned
<1>2. ASSUME NEW n \in S PROVE n + 1 \in S
  <2>1. SUFFICES ASSUME n + 1 <= Len(t) PROVE h[n + 1] \in Seq(0 .. last)
    OBVIOUS
  <2>2. n \in Nat /\ n + 1 \in 1 .. Len(t) /\ (n + 1) - 1 = n /\ h[n] \in Seq(0 .. last)
    BY <1>0, <2>1
  <2>3. h[n + 1] = h[n] \/ h[n + 1] = h[n] \o << t[n + 1].at >>
    BY <2>2 DEF Mentioned, Noting
  <2>4. << t[n + 1].at >> \in Seq(0 .. last)
    BY <1>0, <2>2, OneElement
  <2>5. h[n] \o << t[n + 1].at >> \in Seq(0 .. last)
    BY <2>2, <2>4, ConcatProperties
  <2> QED
    BY <2>2, <2>3, <2>5
<1>3. S = Nat
  <2> HIDE DEF S
  <2>1. S \in SUBSET Nat
    BY DEF S
  <2> QED
    BY <1>1, <1>2, <2>1, SetInduction
<1> QED
  BY <1>3

LEMMA MentionsTyped ==
  ASSUME NEW last \in Nat, NEW t \in Seq(Nodes(last))
  PROVE  Mentions(t) \in Seq(Nat)
<1>1. PICK h : Mentioned(t, h) /\ Mentions(t) = h[Len(t)]
  BY MentionedExists, LenProperties
<1>2. Mentions(t) \in Seq(0 .. last)
  BY <1>1, MentionedTyped, LenProperties
<1>3. 0 .. last \subseteq Nat
  OBVIOUS
<1> QED
  BY <1>2, <1>3, SeqMonotonic

LEMMA MentionsBoth ==
  ASSUME NEW last \in Nat, NEW s \in Seq(Nodes(last)), NEW t \in Seq(Nodes(last))
  PROVE  Mentions(s \o t) = Mentions(s) \o Mentions(t)
<1>0. PICK u : u = s \o t
  OBVIOUS
<1>1. /\ Len(s) \in Nat /\ Len(t) \in Nat /\ Len(u) = Len(s) + Len(t) /\ u \in Seq(Nodes(last))
      /\ \A k \in 1 .. Len(s) : u[k] = s[k]
      /\ \A k \in 1 .. Len(t) : u[Len(s) + k] = t[k]
  BY <1>0
<1>2. PICK h : Mentioned(s, h) /\ Mentions(s) = h[Len(s)]
  BY <1>1, MentionedExists
<1>3. PICK f : Mentioned(t, f) /\ Mentions(t) = f[Len(t)]
  BY <1>1, MentionedExists
<1>4. /\ \A k \in 0 .. Len(s) : h[k] \in Seq(0 .. last)
      /\ \A k \in 0 .. Len(t) : f[k] \in Seq(0 .. last)
  BY <1>2, <1>3, MentionedTyped
<1>5. PICK m : m = h[Len(s)] /\ m \in Seq(0 .. last)
  <2>1. Len(s) \in 0 .. Len(s)
    BY <1>1
  <2> QED
    BY <1>4, <2>1
<1> DEFINE g == [k \in 0 .. Len(u) |-> IF k <= Len(s) THEN h[k] ELSE m \o f[k - Len(s)]]
<1>6. \A k \in 0 .. Len(s) : g[k] = h[k]
  BY <1>1
<1>7. \A k \in 0 .. Len(t) : g[Len(s) + k] = m \o f[k]
  <2> TAKE k \in 0 .. Len(t)
  <2>1. CASE k = 0
    <3>1. f[0] = <<>> /\ m \o <<>> = m
      BY <1>3, <1>5, ConcatEmptySeq DEF Mentioned
    <3>2. Len(s) + 0 = Len(s) /\ Len(s) \in 0 .. Len(s)
      BY <1>1
    <3> QED
      BY <1>5, <1>6, <2>1, <3>1, <3>2
  <2>2. CASE k # 0
    <3>1. Len(s) + k \in 0 .. Len(u) /\ ~(Len(s) + k <= Len(s)) /\ (Len(s) + k) - Len(s) = k
      BY <1>1, <2>2
    <3> QED
      BY <3>1
  <2> QED
    BY <2>1, <2>2
<1> HIDE DEF g
<1>8. ASSUME NEW k \in 1 .. Len(u)
      PROVE  g[k] = Noting(g[k - 1], u[k])
  <2>1. CASE k <= Len(s)
    <3>1. k \in 1 .. Len(s) /\ k \in 0 .. Len(s) /\ k - 1 \in 0 .. Len(s)
      BY <1>1, <2>1
    <3>2. h[k] = Noting(h[k - 1], s[k])
      BY <1>2, <3>1 DEF Mentioned
    <3> QED
      BY <1>1, <1>6, <3>1, <3>2
  <2>2. CASE ~(k <= Len(s))
    <3>0. k - Len(s) \in 1 .. Len(t)
      BY <1>1, <2>2
    <3>1. PICK j \in 1 .. Len(t) : j = k - Len(s)
      BY <3>0
    <3>2. j \in 0 .. Len(t) /\ j - 1 \in 0 .. Len(t) /\ Len(s) + j = k /\ Len(s) + (j - 1) = k - 1
      BY <1>1, <3>1
    <3>3. f[j] = Noting(f[j - 1], t[j])
      BY <1>3, <3>1 DEF Mentioned
    <3>4. g[k] = m \o f[j] /\ g[k - 1] = m \o f[j - 1] /\ u[k] = t[j]
      BY <1>1, <1>7, <3>1, <3>2
    <3>5. t[j].at \in 0 .. last
      <4>1. t[j] \in Nodes(last)
        BY <3>1, ElementOfSeq
      <4> QED
        BY <4>1 DEF Nodes
    <3>6. PICK b, x, v, w : b = f[j - 1] /\ x = << t[j].at >> /\ v = m \o b /\ w = b \o x
      OBVIOUS
    <3>7. PICK A : m \in Seq(A) /\ b \in Seq(A) /\ x \in Seq(A) /\ v = m \o b /\ w = b \o x
      <4>1. m \in Seq(0 .. last) /\ b \in Seq(0 .. last) /\ x \in Seq(0 .. last)
        BY <1>4, <1>5, <3>2, <3>5, <3>6, OneElement
      <4> QED
        BY <3>6, <4>1
    <3>8. m \o w = v \o x
      <4>1. m \in Seq(A) /\ b \in Seq(A) /\ x \in Seq(A)
        BY <3>7
      <4>2. Cat(Cat(m, b), x) = Cat(m, Cat(b, x))
        BY ONLY <4>1, CatRegroups
      <4>3. v = Cat(m, b) /\ w = Cat(b, x)
        BY <3>6 DEF Cat
      <4> QED
        BY <4>2, <4>3 DEF Cat
    <3> QED
      BY <3>3, <3>4, <3>6, <3>7, <3>8 DEF Noting
  <2> QED
    BY <2>1, <2>2
<1>9. g[0] = <<>> /\ g[Len(u)] = m \o f[Len(t)]
  <2>1. 0 \in 0 .. Len(s) /\ Len(t) \in 0 .. Len(t)
    BY <1>1
  <2> QED
    BY <1>1, <1>2, <1>6, <1>7, <2>1 DEF Mentioned
<1>10. Mentioned(u, g)
  BY <1>8, <1>9 DEF Mentioned
<1>11. Mentions(u) = g[Len(u)]
  <2>1. Len(u) \in Nat
    BY <1>1
  <2> QED
    BY <1>10, <2>1, MentionedOnce
<1> QED
  BY <1>0, <1>2, <1>3, <1>5, <1>9, <1>11

\* Concatenating two lists of lists.
LEMMA FlattenBoth ==
  ASSUME NEW A, NEW a \in Seq(Seq(A)), NEW b \in Seq(Seq(A))
  PROVE  FlattenSeq(a \o b) = FlattenSeq(a) \o FlattenSeq(b)
<1>0. PICK u : u = a \o b
  OBVIOUS
<1>1. /\ u \in Seq(Seq(A)) /\ Len(u) = Len(a) + Len(b) /\ Len(a) \in Nat /\ Len(b) \in Nat
      /\ \A k \in 1 .. Len(a) : u[k] = a[k]
      /\ \A k \in 1 .. Len(b) : u[Len(a) + k] = b[k]
  <2>1. PICK B : B = Seq(A)
    OBVIOUS
  <2>2. a \in Seq(B) /\ b \in Seq(B)
    BY <2>1
  <2>3. /\ u \in Seq(B) /\ Len(u) = Len(a) + Len(b) /\ Len(a) \in Nat /\ Len(b) \in Nat
        /\ \A k \in 1 .. Len(a) : u[k] = a[k]
        /\ \A k \in 1 .. Len(b) : u[Len(a) + k] = b[k]
    BY ONLY <1>0, <2>2
  <2> QED
    BY <2>1, <2>3
<1>2. PICK h : Sums(h, a) /\ FlattenSeq(a) = h[Len(a)]
  BY FlattenSums DEF Summed
<1>3. PICK f : Sums(f, b) /\ FlattenSeq(b) = f[Len(b)]
  BY FlattenSums DEF Summed
<1>4. PICK g : Sums(g, u) /\ FlattenSeq(u) = g[Len(u)]
  BY <1>1, FlattenSums DEF Summed
<1>5. /\ \A k \in 0 .. Len(a) : h[k] \in Seq(A)
      /\ \A k \in 0 .. Len(b) : f[k] \in Seq(A)
  BY <1>2, <1>3, SumsTyped
<1>6. PICK m : m = h[Len(a)] /\ m \in Seq(A)
  <2>1. Len(a) \in 0 .. Len(a)
    BY <1>1
  <2> QED
    BY <1>5, <2>1
<1> DEFINE S == {n \in Nat : n <= Len(a) => g[n] = h[n]}
           T == {n \in Nat : n <= Len(b) => g[Len(a) + n] = m \o f[n]}
<1>7. S = Nat
  <2>1. 0 \in S
    BY <1>2, <1>4 DEF Sums
  <2>2. ASSUME NEW n \in S PROVE n + 1 \in S
    <3>1. SUFFICES ASSUME n + 1 <= Len(a) PROVE g[n + 1] = h[n + 1]
      OBVIOUS
    <3>2. /\ n \in Nat /\ n + 1 \in 1 .. Len(a) /\ n + 1 \in 1 .. Len(u) /\ (n + 1) - 1 = n
          /\ g[n] = h[n]
      BY <1>1, <3>1
    <3>3. g[n + 1] = g[n] \o u[n + 1] /\ h[n + 1] = h[n] \o a[n + 1]
      BY <1>2, <1>4, <3>2 DEF Sums
    <3> QED
      BY <1>1, <3>2, <3>3
  <2> HIDE DEF S
  <2>3. S \in SUBSET Nat
    BY DEF S
  <2> QED
    BY <2>1, <2>2, <2>3, SetInduction
<1>8. T = Nat
  <2>1. 0 \in T
    <3>1. f[0] = <<>> /\ m \o <<>> = m /\ Len(a) + 0 = Len(a)
      BY <1>1, <1>3, <1>6, ConcatEmptySeq DEF Sums
    <3>2. g[Len(a)] = h[Len(a)]
      <4>0. Len(a) \in Nat
        BY <1>1
      <4>1. Len(a) \in S
        <5> HIDE DEF S, T
        <5> QED
          BY <1>7, <4>0
      <4>2. Len(a) <= Len(a)
        BY <4>0
      <4> QED
        BY <4>1, <4>2
    <3> QED
      BY <1>6, <3>1, <3>2
  <2>2. ASSUME NEW n \in T PROVE n + 1 \in T
    <3>1. SUFFICES ASSUME n + 1 <= Len(b) PROVE g[Len(a) + (n + 1)] = m \o f[n + 1]
      OBVIOUS
    <3>0. n \in Nat /\ n <= Len(b) /\ g[Len(a) + n] = m \o f[n]
      <4>1. Len(b) \in Nat
        BY <1>1
      <4>2. n \in Nat /\ n <= Len(b)
        BY <3>1, <4>1
      <4> QED
        BY <4>2
    <3>2. /\ n \in Nat /\ n + 1 \in 1 .. Len(b) /\ n \in 0 .. Len(b) /\ Len(a) + (n + 1) \in 1 .. Len(u)
          /\ (n + 1) - 1 = n /\ (Len(a) + (n + 1)) - 1 = Len(a) + n
      <4>1. n \in Nat /\ n + 1 <= Len(b) /\ Len(u) = Len(a) + Len(b) /\ Len(a) \in Nat /\ Len(b) \in Nat
        BY <1>1, <3>0, <3>1
      <4> QED
        BY ONLY <4>1
    <3>3. /\ g[Len(a) + (n + 1)] = g[Len(a) + n] \o u[Len(a) + (n + 1)]
          /\ f[n + 1] = f[n] \o b[n + 1]
      BY <1>3, <1>4, <3>2 DEF Sums
    <3>4. u[Len(a) + (n + 1)] = b[n + 1]
      BY <1>1, <3>2
    <3>5. b[n + 1] \in Seq(A) /\ f[n] \in Seq(A)
      <4>1. PICK B : B = Seq(A) /\ b \in Seq(B)
        OBVIOUS
      <4>2. b[n + 1] \in B
        BY <3>2, <4>1, ElementOfSeq
      <4> QED
        BY <1>5, <3>2, <4>1, <4>2
    <3>6. PICK p, q, v, w : p = f[n] /\ q = b[n + 1] /\ v = m \o p /\ w = p \o q
      OBVIOUS
    <3>7. m \o w = v \o q
      <4>1. m \in Seq(A) /\ p \in Seq(A) /\ q \in Seq(A) /\ v = m \o p /\ w = p \o q
        BY <1>6, <3>5, <3>6
      <4> QED
        BY ONLY <4>1, Regrouped, SMTT(30)
    <3> QED
      BY <3>0, <3>2, <3>3, <3>4, <3>6, <3>7
  <2> HIDE DEF T
  <2>3. T \in SUBSET Nat
    BY DEF T
  <2> QED
    BY <2>1, <2>2, <2>3, SetInduction
<1>9. g[Len(u)] = m \o f[Len(b)]
  <2>1. Len(b) \in T
    BY <1>1, <1>8
  <2>2. g[Len(a) + Len(b)] = m \o f[Len(b)]
    BY <1>1, <2>1
  <2> QED
    BY <1>1, <2>2
<1> QED
  BY <1>0, <1>2, <1>3, <1>4, <1>6, <1>9

LEMMA TwoElements ==
  ASSUME NEW A, NEW x \in A, NEW y \in A
  PROVE  << x, y >> = << x >> \o << y >> /\ << x, y >> \in Seq(A)
<1>1. << x, y >> = Append(<< x >>, y) /\ << x >> \in Seq(A)
  OBVIOUS
<1>2. << x, y >> = << x >> \o << y >>
  BY <1>1, AppendIsConcat
<1> QED
  BY <1>2

LEMMA ThreeElements ==
  ASSUME NEW A, NEW x \in A, NEW y \in A, NEW z \in A
  PROVE  << x, y, z >> = << x >> \o << y, z >> /\ << x, y, z >> \in Seq(A)
  OBVIOUS

LEMMA FlattenFew ==
  ASSUME NEW A, NEW a \in Seq(A), NEW b \in Seq(A), NEW c \in Seq(A)
  PROVE  /\ FlattenSeq(<<>>) = <<>>
         /\ FlattenSeq(<< a >>) = a
         /\ FlattenSeq(<< a, b >>) = a \o b
         /\ FlattenSeq(<< a, b, c >>) = a \o (b \o c)
<1>0. PICK B : B = Seq(A) /\ a \in B /\ b \in B /\ c \in B
  OBVIOUS
<1>1. FlattenSeq(<<>>) = <<>>
  <2>1. PICK e : e = <<>> /\ e \in Seq(Seq(A)) /\ Len(e) = 0
    BY EmptySeq
  <2>2. PICK h : Sums(h, e) /\ FlattenSeq(e) = h[Len(e)]
    BY <2>1, FlattenSums DEF Summed
  <2> QED
    BY <2>1, <2>2 DEF Sums
<1>2. ASSUME NEW x \in Seq(A) PROVE FlattenSeq(<< x >>) = x
  <2>1. PICK e : e = << x >>
    OBVIOUS
  <2>2. e \in Seq(B) /\ Len(e) = 1 /\ e[1] = x
    BY <1>0, <1>2, <2>1
  <2>3. PICK h : Sums(h, e) /\ FlattenSeq(e) = h[Len(e)]
    BY <1>0, <2>2, FlattenSums DEF Summed
  <2>4. h[0] = <<>> /\ h[1] = h[1 - 1] \o x /\ 1 - 1 = 0
    BY <2>2, <2>3 DEF Sums
  <2>5. <<>> \o x = x
    BY ConcatEmptySeq
  <2> QED
    BY <2>1, <2>2, <2>3, <2>4, <2>5
<1>3. ASSUME NEW x \in Seq(A), NEW y \in Seq(A) PROVE FlattenSeq(<< x, y >>) = x \o y
  <2>1. << x >> \in Seq(B) /\ << y >> \in Seq(B)
    BY <1>0, OneElement
  <2>3. << x, y >> = << x >> \o << y >>
    <3>1. \A p, q \in B : << p, q >> = << p >> \o << q >>
      BY TwoElements
    <3> QED
      BY <1>0, <3>1
  <2>2. FlattenSeq(<< x >> \o << y >>) = FlattenSeq(<< x >>) \o FlattenSeq(<< y >>)
    BY <1>0, <2>1, FlattenBoth
  <2> QED
    BY <1>2, <2>1, <2>2, <2>3
<1>4. FlattenSeq(<< a, b, c >>) = a \o (b \o c)
  <2>1. << a >> \in Seq(B) /\ << b, c >> \in Seq(B) /\ << a, b, c >> = << a >> \o << b, c >>
    <3>1. \A p \in B : << p >> \in Seq(B)
      BY OneElement
    <3>2. \A p, q \in B : << p, q >> \in Seq(B)
      BY TwoElements
    <3>3. \A p, q, r \in B : << p, q, r >> = << p >> \o << q, r >>
      BY ThreeElements
    <3> QED
      BY <1>0, <3>1, <3>2, <3>3
  <2>2. FlattenSeq(<< a >> \o << b, c >>) = FlattenSeq(<< a >>) \o FlattenSeq(<< b, c >>)
    BY <1>0, <2>1, FlattenBoth
  <2> QED
    BY <1>2, <1>3, <2>1, <2>2
<1> QED
  BY <1>1, <1>2, <1>3, <1>4

-----------------------------------------------------------------------------
LEMMA CatFacts ==
  ASSUME NEW a \in Seq(Nat), NEW b \in Seq(Nat)
  PROVE  Cat(a, b) \in Seq(Nat) /\ Cat(a, <<>>) = a /\ Cat(<<>>, a) = a
  BY ConcatProperties, ConcatEmptySeq DEF Cat

LEMMA CatAssociative ==
  ASSUME NEW a \in Seq(Nat), NEW b \in Seq(Nat), NEW c \in Seq(Nat)
  PROVE  Cat(Cat(a, b), c) = Cat(a, Cat(b, c))
  BY CatRegroups

\* What lists of trees mention.
MentionsAll(list) == Mentions(FlattenSeq(list))

LEMMA TreesOfNodes ==
  ASSUME Len(tokens) \in Nat
  PROVE  /\ Tree \subseteq Seq(Nodes(Len(tokens)))
         /\ \A list \in Seq(Tree) : /\ list \in Seq(Seq(Nodes(Len(tokens))))
                                    /\ FlattenSeq(list) \in Seq(Nodes(Len(tokens)))
<1>1. Tree \subseteq Seq(Nodes(Len(tokens)))
  BY DEF Tree, TreesUpTo
<1>2. ASSUME NEW list \in Seq(Tree)
      PROVE  /\ list \in Seq(Seq(Nodes(Len(tokens))))
             /\ FlattenSeq(list) \in Seq(Nodes(Len(tokens)))
  <2>1. list \in Seq(Seq(Nodes(Len(tokens))))
    BY <1>1, SeqMonotonic
  <2>2. PICK h : Sums(h, list) /\ FlattenSeq(list) = h[Len(list)]
    BY <2>1, FlattenSums DEF Summed
  <2>3. Len(list) \in 0 .. Len(list)
    BY LenProperties
  <2> QED
    BY <2>1, <2>2, <2>3, SumsTyped
<1> QED
  BY <1>1, <1>2

LEMMA MentionsOfTrees ==
  ASSUME Len(tokens) \in Nat
  PROVE  /\ \A t \in Tree : Mentions(t) \in Seq(Nat)
         /\ \A list \in Seq(Tree) : MentionsAll(list) \in Seq(Nat)
  BY TreesOfNodes, MentionsTyped DEF MentionsAll

LEMMA MentionsOfLists ==
  ASSUME Len(tokens) \in Nat
  PROVE  /\ MentionsAll(<<>>) = <<>> /\ \A t \in Tree : MentionsAll(<< t >>) = Mentions(t)
         /\ \A t, u \in Tree : MentionsAll(<< t, u >>) = Cat(Mentions(t), Mentions(u))
         /\ \A l, m \in Seq(Tree) : MentionsAll(l \o m) = Cat(MentionsAll(l), MentionsAll(m))
         /\ \A l \in Seq(Tree), t \in Tree : MentionsAll(Append(l, t)) = Cat(MentionsAll(l), Mentions(t))
<1>1. PICK N : N = Nodes(Len(tokens))
  OBVIOUS
<1>2. /\ \A t \in Tree : t \in Seq(N)
      /\ \A l \in Seq(Tree) : l \in Seq(Seq(N)) /\ FlattenSeq(l) \in Seq(N)
  BY <1>1, TreesOfNodes
<1>3. \A a, b \in Seq(N) : Mentions(a \o b) = Cat(Mentions(a), Mentions(b))
  BY <1>1, MentionsBoth DEF Cat
<1>4. MentionsAll(<<>>) = <<>>
  <2>1. PICK e : e = <<>> /\ e \in Seq(N) /\ Len(e) = 0
    BY EmptySeq
  <2>2. FlattenSeq(e) = e
    BY <2>1, FlattenFew
  <2>3. PICK h : Mentioned(e, h) /\ Mentions(e) = h[Len(e)]
    BY <2>1, MentionedExists
  <2> QED
    BY <2>1, <2>2, <2>3 DEF Mentioned, MentionsAll
<1>5. \A t \in Tree : MentionsAll(<< t >>) = Mentions(t)
  BY <1>2, FlattenFew DEF MentionsAll
<1>6. ASSUME NEW t \in Tree, NEW u \in Tree PROVE MentionsAll(<< t, u >>) = Cat(Mentions(t), Mentions(u))
  <2>1. t \in Seq(N) /\ u \in Seq(N) /\ FlattenSeq(<< t, u >>) = t \o u
    BY <1>2, FlattenFew
  <2> QED
    BY <1>3, <2>1 DEF MentionsAll
<1>7. ASSUME NEW l \in Seq(Tree), NEW m \in Seq(Tree)
      PROVE  MentionsAll(l \o m) = Cat(MentionsAll(l), MentionsAll(m))
  <2>1. l \in Seq(Seq(N)) /\ m \in Seq(Seq(N)) /\ FlattenSeq(l) \in Seq(N) /\ FlattenSeq(m) \in Seq(N)
    BY <1>2
  <2>2. FlattenSeq(l \o m) = FlattenSeq(l) \o FlattenSeq(m)
    BY <2>1, FlattenBoth
  <2> QED
    BY <1>3, <2>1, <2>2 DEF MentionsAll
<1>8. ASSUME NEW l \in Seq(Tree), NEW t \in Tree
      PROVE  MentionsAll(Append(l, t)) = Cat(MentionsAll(l), Mentions(t))
  <2>1. << t >> \in Seq(Tree)
    BY OneElement
  <2>2. Append(l, t) = l \o << t >>
    BY AppendIsConcat
  <2> QED
    BY <1>5, <1>7, <2>1, <2>2
<1> QED
  BY <1>4, <1>5, <1>6, <1>7, <1>8

\* A node mentions its own place, if it names something, and then what its children do.
LEMMA MentionsOfNode ==
  ASSUME Len(tokens) \in Nat, NEW type \in NodeTypes, NEW at \in 0 .. Len(tokens),
         NEW children \in Seq(Tree)
  PROVE  /\ type \in Named => Mentions(Node(type, at, children)) = Cat(<< at >>, MentionsAll(children))
         /\ type \notin Named => Mentions(Node(type, at, children)) = MentionsAll(children)
         /\ type # "NULL" => Node(type, at, children) # Missing
<1>1. PICK N : N = Nodes(Len(tokens))
  OBVIOUS
<1>2. PICK r : r = [type |-> type, at |-> at, arity |-> Len(children)]
  OBVIOUS
<1>3. r \in N /\ r.type = type /\ r.at = at
  BY <1>1, <1>2, LenProperties DEF Nodes
<1>4. PICK e : e = << r >>
  OBVIOUS
<1>5. e \in Seq(N) /\ Len(e) = 1 /\ e[1] = r
  BY <1>3, <1>4
<1>6. PICK f : f = FlattenSeq(children) /\ f \in Seq(N)
  BY <1>1, TreesOfNodes
<1>7. Node(type, at, children) = e \o f
  BY <1>2, <1>4, <1>6 DEF Node
<1>8. Mentions(e \o f) = Cat(Mentions(e), MentionsAll(children))
  BY <1>1, <1>5, <1>6, MentionsBoth DEF Cat, MentionsAll
<1>9. Mentions(e) = IF type \in Named THEN << at >> ELSE <<>>
  <2>0. Len(e) \in Nat
    BY <1>5
  <2>1. PICK h : Mentioned(e, h) /\ Mentions(e) = h[Len(e)]
    BY <2>0, MentionedExists
  <2>2. 1 \in 1 .. Len(e) /\ 1 - 1 = 0
    BY <1>5
  <2>3. h[0] = <<>> /\ h[1] = Noting(<<>>, r)
    BY <1>5, <2>1, <2>2 DEF Mentioned
  <2>4. << at >> \in Seq(Nat) /\ <<>> \o << at >> = << at >>
    <3>1. at \in Nat
      OBVIOUS
    <3> QED
      BY <3>1, OneElement, ConcatEmptySeq
  <2> QED
    BY <1>3, <1>5, <2>1, <2>3, <2>4 DEF Noting
<1>10. MentionsAll(children) \in Seq(Nat)
  BY MentionsOfTrees
<1>11. ASSUME type # "NULL" PROVE Node(type, at, children) # Missing
  <2>1. (e \o f)[1] = r
    <3>1. \A i \in 1 .. Len(e) + Len(f) : (e \o f)[i] = IF i <= Len(e) THEN e[i] ELSE f[i - Len(e)]
      BY ONLY <1>5, <1>6, ConcatProperties
    <3>2. Len(f) \in Nat
      BY <1>6, LenProperties
    <3> QED
      BY <1>5, <3>1, <3>2
  <2>2. Missing[1].type = "NULL"
    <3>1. FlattenSeq(<<>>) = <<>>
      BY FlattenFew
    <3>2. PICK q : q = [type |-> "NULL", at |-> 0, arity |-> Len(<<>>)]
      OBVIOUS
    <3>3. Missing = << q >> \o <<>>
      BY <3>1, <3>2 DEF Missing, Leaf, Node
    <3>4. << q >> \o <<>> = << q >>
      OBVIOUS
    <3> QED
      BY <3>2, <3>3, <3>4
  <2> QED
    BY <1>3, <1>7, <1>11, <2>1, <2>2
<1> QED
  BY <1>7, <1>8, <1>9, <1>10, <1>11, CatFacts

LEMMA MentionsOfLeaf ==
  ASSUME Len(tokens) \in Nat, NEW type \in NodeTypes, NEW at \in 0 .. Len(tokens)
  PROVE  /\ type \in Named => Mentions(Leaf(type, at)) = << at >>
         /\ type \notin Named => Mentions(Leaf(type, at)) = <<>>
         /\ type # "NULL" => Leaf(type, at) # Missing
<1>1. <<>> \in Seq(Tree) /\ MentionsAll(<<>>) = <<>>
  BY EmptySeq, MentionsOfLists
<1>2. << at >> \in Seq(Nat)
  <2>1. at \in Nat
    OBVIOUS
  <2> QED
    BY <2>1, OneElement
<1>3. Cat(<< at >>, <<>>) = << at >>
  BY <1>2, CatFacts
<1> QED
  BY <1>1, <1>3, MentionsOfNode DEF Leaf

LEMMA MissingMentionsNothing ==
  ASSUME Len(tokens) \in Nat
  PROVE  Mentions(Missing) = <<>>
<1>1. "NULL" \in NodeTypes /\ "NULL" \notin Named /\ 0 \in 0 .. Len(tokens)
  BY DEF NodeTypes, Named, Leaves
<1> QED
  BY <1>1, MentionsOfLeaf DEF Missing

-----------------------------------------------------------------------------
(* The names and literals that have been read. *)
Reading(before, k) == IF tokens[k] \in DOMAIN Literal THEN before \o << k >> ELSE before

LEMMA WrittenSteps ==
  ASSUME Len(tokens) \in Nat
  PROVE  /\ Written(0) = <<>>
         /\ \A k \in 1 .. Len(tokens) : Written(k) = Reading(Written(k - 1), k)
<1> DEFINE Fills(f, n) ==
             f = [k \in 0 .. n |-> IF k = 0 THEN <<>> ELSE Reading(f[k - 1], k)]
           S == {n \in Nat : \E f : Fills(f, n)}
<1>1. 0 \in S
  <2> DEFINE f == [k \in 0 .. 0 |-> <<>>]
  <2>1. Fills(f, 0)
    OBVIOUS
  <2> QED
    BY <2>1
<1>2. ASSUME NEW n \in S PROVE n + 1 \in S
  <2>1. PICK f : Fills(f, n)
    OBVIOUS
  <2> DEFINE e == [k \in 0 .. n + 1 |-> IF k = n + 1 THEN Reading(f[n], n + 1) ELSE f[k]]
  <2>2. \A k \in 0 .. n + 1 : e[k] = IF k = 0 THEN <<>> ELSE Reading(e[k - 1], k)
    <3> TAKE k \in 0 .. n + 1
    <3>1. n \in Nat /\ (k = n + 1 \/ k \in 0 .. n)
      OBVIOUS
    <3>2. CASE k = n + 1
      <4>1. k # 0 /\ k - 1 = n /\ k - 1 \in 0 .. n + 1 /\ k - 1 # n + 1
        BY <3>1, <3>2
      <4>2. e[k - 1] = f[n] /\ e[k] = Reading(f[n], n + 1)
        BY <3>2, <4>1
      <4> QED
        BY <3>2, <4>1, <4>2
    <3>3. CASE k \in 0 .. n
      <4>1. e[k] = f[k] /\ f[k] = IF k = 0 THEN <<>> ELSE Reading(f[k - 1], k)
        BY <2>1, <3>1, <3>3
      <4>2. k # 0 => k - 1 \in 0 .. n + 1 /\ k - 1 # n + 1 /\ e[k - 1] = f[k - 1]
        BY <3>1, <3>3
      <4> QED
        BY <4>1, <4>2
    <3> QED
      BY <3>1, <3>2, <3>3
  <2>3. e = [k \in 0 .. n + 1 |-> e[k]]
    OBVIOUS
  <2> HIDE DEF e
  <2>4. Fills(e, n + 1)
    BY <2>2, <2>3
  <2>5. n + 1 \in Nat
    OBVIOUS
  <2> HIDE DEF Fills
  <2> QED
    BY <2>4, <2>5
<1>3. S = Nat
  <2> HIDE DEF S
  <2>1. S \in SUBSET Nat
    BY DEF S
  <2> QED
    BY <1>1, <1>2, <2>1, SetInduction
<1> DEFINE h == CHOOSE f : Fills(f, Len(tokens))
<1>4. Fills(h, Len(tokens))
  <2> HIDE DEF Fills
  <2>1. \E f : Fills(f, Len(tokens))
    BY <1>3
  <2> QED
    BY <2>1
<1>5. \A k \in 0 .. Len(tokens) : Written(k) = h[k]
  BY DEF Written, Reading
<1> HIDE DEF h
<1>6. /\ h[0] = <<>>
      /\ \A k \in 1 .. Len(tokens) : h[k] = Reading(h[k - 1], k) /\ k - 1 \in 0 .. Len(tokens)
  BY <1>4
<1>7. 0 \in 0 .. Len(tokens) /\ 1 .. Len(tokens) \subseteq 0 .. Len(tokens)
  OBVIOUS
<1> QED
  BY <1>5, <1>6, <1>7

LEMMA WrittenTyped ==
  ASSUME Len(tokens) \in Nat
  PROVE  \A k \in 0 .. Len(tokens) : Written(k) \in Seq(Nat)
<1> DEFINE S == {n \in Nat : n <= Len(tokens) => Written(n) \in Seq(Nat)}
<1>1. 0 \in S
  BY WrittenSteps, EmptySeq
<1>2. ASSUME NEW n \in S PROVE n + 1 \in S
  <2>1. SUFFICES ASSUME n + 1 <= Len(tokens) PROVE Written(n + 1) \in Seq(Nat)
    OBVIOUS
  <2>2. n \in Nat /\ n + 1 \in 1 .. Len(tokens) /\ (n + 1) - 1 = n /\ Written(n) \in Seq(Nat)
    BY <2>1
  <2>3. Written(n + 1) = Reading(Written(n), n + 1)
    BY <2>2, WrittenSteps
  <2>4. n + 1 \in Nat
    BY <2>2
  <2>5. << n + 1 >> \in Seq(Nat)
    BY <2>4, OneElement
  <2>6. Written(n) \o << n + 1 >> \in Seq(Nat)
    BY <2>2, <2>5, ConcatProperties
  <2> QED
    BY <2>2, <2>3, <2>6 DEF Reading
<1>3. S = Nat
  <2> HIDE DEF S
  <2>1. S \in SUBSET Nat
    BY DEF S
  <2> QED
    BY <1>1, <1>2, <2>1, SetInduction
<1> QED
  BY <1>3

\* What has been read before the next token.
ReadBefore(c) == Written(c.index - 1)

LEMMA ReadTyped ==
  ASSUME TokensOk, NEW c \in Places
  PROVE  ReadBefore(c) \in Seq(Nat)
<1>1. c.index - 1 \in 0 .. Len(tokens) /\ Len(tokens) \in Nat
  BY KindFacts DEF Places
<1> QED
  BY <1>1, WrittenTyped DEF ReadBefore

LEMMA AdvanceReads ==
  ASSUME TokensOk, NEW c \in Places
  PROVE  /\ peek(c) \notin DOMAIN Literal => ReadBefore(advance(c)) = ReadBefore(c)
         /\ peek(c) \in DOMAIN Literal => ReadBefore(advance(c)) = Cat(ReadBefore(c), << c.index >>)
<1>1. CASE peek(c) = "EOF"
  <2>1. "EOF" \notin DOMAIN Literal
    BY LiteralFacts
  <2> QED
    BY <1>1, <2>1, AdvanceFacts DEF ReadBefore
<1>2. CASE peek(c) # "EOF"
  <2>1. /\ c.index \in 1 .. Len(tokens) /\ (c.index + 1) - 1 = c.index
        /\ advance(c).index = c.index + 1 /\ tokens[c.index] = peek(c) /\ Len(tokens) \in Nat
    BY <1>2, AdvanceFacts, SeesToken, KindFacts
  <2>2. Written(c.index) = Reading(Written(c.index - 1), c.index)
    BY <2>1, WrittenSteps
  <2> QED
    BY <2>1, <2>2 DEF ReadBefore, Reading, Cat
<1> QED
  BY <1>1, <1>2

LEMMA MatchedReads ==
  ASSUME TokensOk, NEW c \in Places, NEW kinds, kinds \intersect DOMAIN Literal = {}
  PROVE  ReadBefore(matched(c, kinds)) = ReadBefore(c)
<1>1. "EOF" \notin DOMAIN Literal
  BY LiteralFacts
<1> QED
  BY <1>1, AdvanceReads DEF matched, matches

-----------------------------------------------------------------------------
\* What a pending call holds mentions.
Held(call) ==
  CASE call.do \in {"block", "stmt", "program", "decl"} -> MentionsAll(call.list)
    [] call.do \in {"var_decl", "start"} -> << call.at >>
    [] call.do \in {"params", "fn"} -> Cat(<< call.at >>, MentionsAll(call.params))
    [] call.do = "end" -> Cat(<< call.at >>, Mentions(call.start))
    [] call.do = "body" -> Cat(<< call.at >>, Mentions(call.range))
    [] call.do = "then" -> Mentions(call.condition)
    [] call.do = "else" -> MentionsAll(call.parts)
    [] call.do \in {"assign", "right"} -> Mentions(call.left)
    [] call.do = "arguments" -> Cat(Mentions(call.callee), MentionsAll(call.list))
    [] OTHER -> <<>>

\* b is what the pending calls s hold, from the outermost to the innermost.
Collects(s, b) ==
  \E g : /\ g[1] = b /\ g[Len(s) + 1] = <<>>
         /\ \A k \in 1 .. Len(s) + 1 : g[k] \in Seq(Nat)
         /\ \A k \in 1 .. Len(s) : g[k] = Cat(g[k + 1], Held(s[k]))

\* b is what the calls of a step hold: at most one of them holds anything.
Holds(pending, b) ==
  \/ b = <<>> /\ \A k \in 1 .. Len(pending) : Held(pending[k]) = <<>>
  \/ \E j \in 1 .. Len(pending) :
       /\ b = Held(pending[j])
       /\ \A k \in 1 .. Len(pending) : k # j => Held(pending[k]) = <<>>

LEMMA HeldCases ==
  ASSUME NEW x
  PROVE  /\ x.do \in {"block", "stmt", "program", "decl"} => Held(x) = MentionsAll(x.list)
         /\ x.do \in {"var_decl", "start"} => Held(x) = << x.at >>
         /\ x.do \in {"params", "fn"} => Held(x) = Cat(<< x.at >>, MentionsAll(x.params))
         /\ x.do = "end" => Held(x) = Cat(<< x.at >>, Mentions(x.start))
         /\ x.do = "body" => Held(x) = Cat(<< x.at >>, Mentions(x.range))
         /\ x.do = "then" => Held(x) = Mentions(x.condition)
         /\ x.do = "else" => Held(x) = MentionsAll(x.parts)
         /\ x.do \in {"assign", "right"} => Held(x) = Mentions(x.left)
         /\ x.do = "arguments" => Held(x) = Cat(Mentions(x.callee), MentionsAll(x.list))
         /\ x.do \in PlainCalls \union {"operand", "operators", "declaration"} => Held(x) = <<>>
  BY DEF Held, PlainCalls

LEMMA CollectsLess ==
  ASSUME NEW A, NEW s \in Seq(A), s # <<>>, NEW b, Collects(s, b)
  PROVE  \E r \in Seq(Nat) : b = Cat(r, Held(Head(s))) /\ Collects(Tail(s), r)
<1>1. PICK g : /\ g[1] = b /\ g[Len(s) + 1] = <<>>
               /\ \A k \in 1 .. Len(s) + 1 : g[k] \in Seq(Nat)
               /\ \A k \in 1 .. Len(s) : g[k] = Cat(g[k + 1], Held(s[k]))
  BY DEF Collects
<1>2. PICK t : t = Tail(s)
  OBVIOUS
<1>3. /\ Len(s) \in Nat \ {0} /\ Head(s) = s[1]
      /\ Len(t) = Len(s) - 1 /\ \A k \in 1 .. Len(t) : t[k] = s[k + 1]
  BY <1>2
<1> DEFINE f == [k \in 1 .. Len(s) |-> g[k + 1]]
<1>4. f[1] = g[2] /\ f[Len(t) + 1] = <<>>
  BY <1>1, <1>3
<1>5. \A k \in 1 .. Len(t) + 1 : f[k] \in Seq(Nat)
  <2> TAKE k \in 1 .. Len(t) + 1
  <2>1. k \in 1 .. Len(s) /\ k + 1 \in 1 .. Len(s) + 1
    BY <1>3
  <2> QED
    BY <1>1, <2>1
<1>6. \A k \in 1 .. Len(t) : f[k] = Cat(f[k + 1], Held(t[k]))
  <2> TAKE k \in 1 .. Len(t)
  <2>1. k \in 1 .. Len(s) /\ k + 1 \in 1 .. Len(s) /\ t[k] = s[k + 1]
    BY <1>3
  <2>2. f[k] = g[k + 1] /\ f[k + 1] = g[(k + 1) + 1]
    BY <2>1
  <2> HIDE DEF f
  <2> QED
    BY <1>1, <2>1, <2>2
<1> HIDE DEF f
<1>7. Collects(t, f[1])
  BY <1>4, <1>5, <1>6 DEF Collects
<1>8. 1 \in 1 .. Len(s) /\ 1 + 1 = 2 /\ 1 \in 1 .. Len(t) + 1
  BY <1>3
<1>9. b = Cat(f[1], Held(Head(s))) /\ f[1] \in Seq(Nat)
  BY <1>1, <1>3, <1>4, <1>5, <1>8
<1> QED
  BY <1>2, <1>7, <1>9

LEMMA CollectsMore ==
  ASSUME NEW A, NEW s \in Seq(A), NEW B, NEW pending \in Seq(B), NEW r, Collects(s, r),
         NEW b \in Seq(Nat), Holds(pending, b)
  PROVE  Collects(pending \o s, Cat(r, b))
<1>1. PICK g : /\ g[1] = r /\ g[Len(s) + 1] = <<>>
               /\ \A k \in 1 .. Len(s) + 1 : g[k] \in Seq(Nat)
               /\ \A k \in 1 .. Len(s) : g[k] = Cat(g[k + 1], Held(s[k]))
  BY DEF Collects
<1>2. PICK u : u = pending \o s
  OBVIOUS
<1>3. PICK n \in Nat : n = Len(pending)
  BY LenProperties
<1>4. /\ Len(s) \in Nat /\ Len(u) = n + Len(s)
      /\ \A k \in 1 .. n : u[k] = pending[k]
      /\ \A k \in n + 1 .. n + Len(s) : u[k] = s[k - n]
  <2>1. pending \in Seq(A \union B) /\ s \in Seq(A \union B)
    BY SeqMonotonic
  <2> QED
    BY <1>2, <1>3, <2>1
<1>5. PICK j \in 0 .. n :
        /\ j = 0 => b = <<>>
        /\ j > 0 => b = Held(u[j])
        /\ \A k \in 1 .. n : k # j => Held(u[k]) = <<>>
  <2>1. CASE b = <<>> /\ \A k \in 1 .. Len(pending) : Held(pending[k]) = <<>>
    <3>1. 0 \in 0 .. n /\ ~(0 > 0) /\ \A k \in 1 .. n : Held(u[k]) = <<>>
      BY <1>3, <1>4, <2>1
    <3> QED
      BY <2>1, <3>1
  <2>2. CASE \E j \in 1 .. Len(pending) :
                 /\ b = Held(pending[j])
                 /\ \A k \in 1 .. Len(pending) : k # j => Held(pending[k]) = <<>>
    <3>1. PICK j \in 1 .. n :
              /\ b = Held(pending[j])
              /\ \A k \in 1 .. n : k # j => Held(pending[k]) = <<>>
      BY <1>3, <2>2
    <3>2. j \in 0 .. n /\ j # 0 /\ b = Held(u[j])
      BY <1>4, <3>1
    <3>3. \A k \in 1 .. n : k # j => Held(u[k]) = <<>>
      BY <1>4, <3>1
    <3> QED
      BY <3>2, <3>3
  <2> QED
    BY <2>1, <2>2 DEF Holds
<1>6. r \in Seq(Nat)
  <2>1. 1 \in 1 .. Len(s) + 1
    BY <1>4
  <2> QED
    BY <1>1, <2>1
<1>7. Cat(r, b) \in Seq(Nat) /\ Cat(Cat(r, b), <<>>) = Cat(r, b) /\ Cat(r, <<>>) = r
  BY <1>6, CatFacts
<1> DEFINE f == [k \in 1 .. Len(u) + 1 |->
                   IF k <= j THEN Cat(r, b) ELSE IF k <= n THEN r ELSE g[k - n]]
<1>8. /\ \A k \in 1 .. j : f[k] = Cat(r, b)
      /\ \A k \in j + 1 .. n + 1 : f[k] = r
      /\ \A k \in n + 1 .. n + Len(s) + 1 : f[k] = g[k - n]
  BY <1>1, <1>4
<1> HIDE DEF f
<1>9. f[1] = Cat(r, b)
  <2>1. CASE j > 0
    BY <1>8, <2>1
  <2>2. CASE j = 0
    BY <1>5, <1>7, <1>8, <2>2
  <2> QED
    BY <2>1, <2>2
<1>10. f[Len(u) + 1] = <<>>
  <2>1. Len(u) + 1 \in n + 1 .. n + Len(s) + 1 /\ (Len(u) + 1) - n = Len(s) + 1
    BY <1>4
  <2> QED
    BY <1>1, <1>8, <2>1
<1>11. \A k \in 1 .. Len(u) + 1 : f[k] \in Seq(Nat)
  <2> TAKE k \in 1 .. Len(u) + 1
  <2>1. CASE k <= j
    <3>1. k \in 1 .. j
      BY <1>4, <2>1
    <3> QED
      BY <1>7, <1>8, <3>1
  <2>2. CASE j < k /\ k <= n
    <3>1. k \in j + 1 .. n + 1
      BY <2>2
    <3>2. f[k] = r
      BY <1>8, <3>1
    <3> QED
      BY <1>6, <3>2
  <2>3. CASE n < k
    <3>1. k \in n + 1 .. n + Len(s) + 1 /\ k - n \in 1 .. Len(s) + 1
      BY <1>4, <2>3
    <3> QED
      BY <1>1, <1>8, <3>1
  <2> QED
    BY <2>1, <2>2, <2>3
<1>12. \A k \in 1 .. Len(u) : f[k] = Cat(f[k + 1], Held(u[k]))
  <2> TAKE k \in 1 .. Len(u)
  <2>1. CASE k < j
    <3>1. k \in 1 .. n /\ k # j /\ k \in 1 .. j /\ k + 1 \in 1 .. j
      BY <2>1
    <3>2. Held(u[k]) = <<>> /\ f[k] = Cat(r, b) /\ f[k + 1] = Cat(r, b)
      BY <1>5, <1>8, <3>1
    <3> QED
      BY <1>7, <3>2
  <2>2. CASE k = j
    <3>1. k \in 1 .. j /\ k + 1 \in j + 1 .. n + 1 /\ j > 0
      BY <2>2
    <3>2. f[k] = Cat(r, b) /\ f[k + 1] = r /\ b = Held(u[k])
      BY <1>5, <1>8, <2>2, <3>1
    <3> QED
      BY <3>2
  <2>3. CASE j < k /\ k <= n
    <3>1. k \in 1 .. n /\ k # j /\ k \in j + 1 .. n + 1 /\ k + 1 \in j + 1 .. n + 1
      BY <2>3
    <3>2. Held(u[k]) = <<>> /\ f[k] = r /\ f[k + 1] = r
      BY <1>5, <1>8, <3>1
    <3> QED
      BY <1>7, <3>2
  <2>4. CASE n < k
    <3>1. PICK i \in 1 .. Len(s) : i = k - n
      BY <1>4, <2>4
    <3>2. /\ k \in n + 1 .. n + Len(s) /\ k \in n + 1 .. n + Len(s) + 1
          /\ k + 1 \in n + 1 .. n + Len(s) + 1 /\ (k + 1) - n = i + 1
      BY <1>4, <2>4, <3>1
    <3>3. u[k] = s[i] /\ f[k] = g[i] /\ f[k + 1] = g[i + 1]
      BY <1>4, <1>8, <3>1, <3>2
    <3> QED
      BY <1>1, <3>3
  <2> QED
    BY <1>4, <2>1, <2>2, <2>3, <2>4
<1>13. Collects(u, Cat(r, b))
  BY <1>9, <1>10, <1>11, <1>12 DEF Collects
<1> QED
  BY <1>2, <1>13

-----------------------------------------------------------------------------
(* How a missing operand shows.  Calls that have read nothing of their
   expression yet; calls that hand a missing expression on as they got it; and
   all the calls within an expression. *)
Beginning == {"expression", "unary", "primary"}
Passing == {"operators", "ternary", "assignment", "callee", "parenthesis"}
InExpression == Beginning \union Passing \union {"operand", "arguments", "right", "assign"}

\* Calls that are about to be made: what came before them is in no value any more.
Fresh == Beginning \union {"program", "declaration", "params", "statement", "block"}

\* Calls that have perhaps read nothing of their statement.
Idle == {"statement", "declaration", "expression_stmt"}

Signs == {"MINUS", "BANG"}

\* From p on there is no operand, but perhaps parentheses around none.
Blank(p) ==
  \E n \in p .. End : /\ \A i \in p .. n - 1 : tokens[i] = "LPAREN"
                      /\ Kind(n) \notin DOMAIN Literal \union {"LPAREN", "MINUS", "BANG"}

FreshFirst(s, v) == \A k \in 1 .. Len(s) : s[k].do \in Fresh => k = 1 /\ v = Missing

Unconditional(s) == \A k \in 1 .. Len(s) : s[k].do \notin {"true_expr", "false_expr"}

(* The k-th call waits for the right operand of an addition or a multiplication.
   If all calls before it only pass on what they get, there is an operand, or none
   was written; and while they begin, only parentheses have been read. *)
Wants(s, k, c, v) ==
  /\ s[k].at \in 1 .. Len(tokens) /\ tokens[s[k].at] \in Arithmetic /\ s[k].at < c.index
  /\ \A j \in 1 .. k - 1 : s[j].do \in InExpression
  /\ (\A j \in 1 .. k - 1 : s[j].do \in Passing) => v # Missing \/ Blank(s[k].at + 1)
  /\ k > 1 /\ s[1].do \in Beginning /\ (\A j \in 2 .. k - 1 : s[j].do \in Passing) =>
       \A i \in s[k].at + 1 .. c.index - 1 : tokens[i] = "LPAREN"

Waiting(call) == call.do = "right" /\ call.level >= 5

Wanting(s, c, v) == \A k \in 1 .. Len(s) : Waiting(s[k]) => Wants(s, k, c, v)

Starts(s, c) ==
  s # <<>> => /\ s[1].do = "primary" => peek(c) \notin Signs
              /\ s[1].do = "params" /\ peek(c) = "RPAREN" => current(c) # "IDENTIFIER"

(* Every statement has read a token: there are no more of them than tokens. *)
Roomy(s, k, c) ==
  /\ s[k].do \in {"block", "program"} => Len(s[k].list) <= c.index - 1
  /\ s[k].do \in {"stmt", "decl"} =>
       /\ Len(s[k].list) <= c.index - 1
       /\ (k > 1 /\ s[k - 1].do \in Idle) \/ Len(s[k].list) < c.index - 1

Rooms(s, c) == \A k \in 1 .. Len(s) : Roomy(s, k, c)

Orderly(s, c, v) ==
  /\ FreshFirst(s, v) /\ Unconditional(s) /\ Wanting(s, c, v) /\ Starts(s, c) /\ Rooms(s, c)

\* No ternary, and no operator without its right operand.
Clean == \A k \in DOMAIN tokens : tokens[k] # "QUESTION" /\ ~Unfinished(k)

(* While such a program is parsed without a complaint, the pending calls and the
   last value hold all names and literals that have been read, in their order. *)
Gathered ==
  Clean /\ ~reported =>
    /\ outcome = "parsing" =>
         /\ Orderly(calls, cursor, value)
         /\ GivesUp \/ \E b : Collects(calls, b) /\ Cat(b, Mentions(value)) = ReadBefore(cursor)
    /\ outcome = "parsed" /\ value # Missing => Mentions(value) = Written(Len(tokens))

(* What a step does to the order of the calls. *)
PassesOn(pending, v) ==
  Head(calls).do \in InExpression /\ (\A k \in 1 .. Len(pending) : pending[k].do \in Passing) =>
    \/ v # Missing
    \/ Head(calls).do \in Passing /\ v = value
    \/ Head(calls).do = "primary" /\ peek(cursor) \notin DOMAIN Literal \union {"LPAREN", "MINUS", "BANG"}

BeginsFirst(pending, c) ==
  /\ Head(calls).do \in InExpression /\ Len(pending) > 0 /\ pending[1].do \in Beginning
  /\ \A k \in 2 .. Len(pending) : pending[k].do \in Passing
  => /\ Head(calls).do \in Beginning
     /\ c.index = cursor.index \/ (peek(cursor) = "LPAREN" /\ c.index = cursor.index + 1)

Handles(pending, v, c) ==
  /\ cursor.index <= c.index
  /\ Orderly(pending, c, v)
  /\ Head(calls).do \in InExpression => \A k \in 1 .. Len(pending) : pending[k].do \in InExpression
  /\ PassesOn(pending, v) /\ BeginsFirst(pending, c)
  /\ Head(calls).do \in Idle =>
       \/ Len(pending) > 0 /\ pending[Len(pending)].do \in Idle
       \/ cursor.index < c.index

(* And what it does with what was read. *)
Keeps(pending, v, c) ==
  \E b, new \in Seq(Nat) :
    /\ Holds(pending, b)
    /\ ReadBefore(c) = Cat(ReadBefore(cursor), new)
    /\ Cat(b, Mentions(v)) = Cat(Cat(Held(Head(calls)), Mentions(value)), new)

\* The calls after a step: the pending ones, and those of before but the first.
Follows(u, pending, s) ==
  /\ Len(pending) \in Nat /\ Len(s) \in Nat \ {0} /\ Len(u) = Len(pending) + Len(s) - 1
  /\ \A k \in 1 .. Len(pending) : u[k] = pending[k]
  /\ \A i \in 2 .. Len(s) : u[Len(pending) + i - 1] = s[i]

LEMMA StackFollows ==
  ASSUME NEW A, NEW s \in Seq(A), s # <<>>, NEW B, NEW pending \in Seq(B), NEW u, u = pending \o Tail(s)
  PROVE  Follows(u, pending, s)
<1>1. PICK C, t : C = A \union B /\ t = Tail(s)
  OBVIOUS
<1>2. pending \in Seq(C) /\ s \in Seq(C)
  BY <1>1, SeqMonotonic
<1>3. /\ t \in Seq(C) /\ Len(s) \in Nat \ {0} /\ Len(t) = Len(s) - 1 /\ Len(pending) \in Nat
      /\ \A i \in 1 .. Len(t) : t[i] = s[i + 1]
  BY ONLY <1>1, <1>2, s # <<>>
<1>4. u = pending \o t
  BY <1>1
<1>5. /\ Len(u) = Len(pending) + Len(t)
      /\ \A k \in 1 .. Len(pending) + Len(t) : u[k] = IF k <= Len(pending) THEN pending[k] ELSE t[k - Len(pending)]
  BY ONLY <1>2, <1>3, <1>4, ConcatProperties
<1>6. ASSUME NEW i \in 2 .. Len(s) PROVE u[Len(pending) + i - 1] = s[i]
  <2>1. /\ i - 1 \in 1 .. Len(t) /\ (i - 1) + 1 = i
        /\ Len(pending) + i - 1 \in 1 .. Len(pending) + Len(t) /\ ~(Len(pending) + i - 1 <= Len(pending))
        /\ (Len(pending) + i - 1) - Len(pending) = i - 1
    BY <1>3
  <2> QED
    BY <1>3, <1>5, <2>1
<1>7. \A k \in 1 .. Len(pending) : u[k] = pending[k]
  <2>1. \A k \in 1 .. Len(pending) : k \in 1 .. Len(pending) + Len(t) /\ k <= Len(pending)
    BY <1>3
  <2> QED
    BY <1>5, <2>1
<1>8. Len(u) = Len(pending) + Len(s) - 1
  BY <1>3, <1>5
<1> QED
  BY <1>3, <1>6, <1>7, <1>8 DEF Follows

LEMMA FollowsCases ==
  ASSUME NEW u, NEW pending, NEW s, Follows(u, pending, s), NEW k \in 1 .. Len(u)
  PROVE  \/ k \in 1 .. Len(pending) /\ u[k] = pending[k]
         \/ \E i \in 2 .. Len(s) : k = Len(pending) + i - 1 /\ u[k] = s[i]
<1>1. CASE k <= Len(pending)
  BY <1>1 DEF Follows
<1>2. CASE ~(k <= Len(pending))
  <2>1. Len(u) = Len(pending) + Len(s) - 1 /\ Len(pending) \in Nat /\ Len(s) \in Nat \ {0}
    BY DEF Follows
  <2>2. k - Len(pending) + 1 \in 2 .. Len(s) /\ k = Len(pending) + (k - Len(pending) + 1) - 1
    BY <1>2, <2>1
  <2>3. PICK i \in 2 .. Len(s) : k = Len(pending) + i - 1
    BY <2>2
  <2>4. u[k] = s[i]
    BY <2>3 DEF Follows
  <2> QED
    BY <2>3, <2>4
<1> QED
  BY <1>1, <1>2 DEF Follows

LEMMA WantsOn ==
  ASSUME TokensOk, cursor \in Places, NEW c \in Places, NEW pending, NEW v,
         NEW u, Follows(u, pending, calls), Head(calls) = calls[1],
         FreshFirst(calls, value), Handles(pending, v, c),
         NEW i \in 2 .. Len(calls), Wants(calls, i, cursor, value)
  PROVE  Wants(u, Len(pending) + i - 1, c, v)
<1> DEFINE n == Len(pending)
           k == n + i - 1
           p == calls[i].at + 1
<1>1. /\ n \in Nat /\ Len(calls) \in Nat \ {0} /\ i \in Nat /\ i >= 2 /\ i <= Len(calls)
      /\ \A j \in 1 .. n : u[j] = pending[j]
      /\ \A j \in 2 .. Len(calls) : u[n + j - 1] = calls[j]
      /\ u[k] = calls[i]
  BY DEF Follows
<1>2. /\ calls[i].at \in 1 .. Len(tokens) /\ tokens[calls[i].at] \in Arithmetic /\ calls[i].at < cursor.index
      /\ \A j \in 1 .. i - 1 : calls[j].do \in InExpression
      /\ (\A j \in 1 .. i - 1 : calls[j].do \in Passing) => value # Missing \/ Blank(p)
      /\ calls[1].do \in Beginning /\ (\A j \in 2 .. i - 1 : calls[j].do \in Passing) =>
           \A m \in p .. cursor.index - 1 : tokens[m] = "LPAREN"
  BY <1>1 DEF Wants
<1>3. /\ cursor.index \in Nat /\ c.index \in Nat /\ cursor.index <= c.index /\ cursor.index \in 1 .. End
      /\ Len(tokens) \in Nat /\ End = Len(tokens) + 1
  BY KindFacts DEF Handles, Places
<1>4. Head(calls).do \in InExpression
  BY <1>1, <1>2
<1>5. /\ \A j \in 1 .. n : pending[j].do \in InExpression
      /\ PassesOn(pending, v) /\ BeginsFirst(pending, c)
  BY <1>4 DEF Handles
<1>6. ASSUME NEW P, \A j \in 1 .. k - 1 : u[j].do \in P
      PROVE  /\ \A j \in 1 .. n : pending[j].do \in P
             /\ \A j \in 2 .. i - 1 : calls[j].do \in P
  <2>1. \A j \in 1 .. n : j \in 1 .. k - 1
    BY <1>1
  <2>2. ASSUME NEW j \in 2 .. i - 1 PROVE calls[j].do \in P
    <3>1. j \in 2 .. Len(calls) /\ n + j - 1 \in 1 .. k - 1
      BY <1>1
    <3> QED
      BY <1>1, <1>6, <3>1
  <2> QED
    BY <1>1, <1>6, <2>1, <2>2
<1>7. ASSUME NEW j \in 1 .. k - 1 PROVE u[j].do \in InExpression
  <2>1. CASE j <= n
    BY <1>1, <1>5, <2>1
  <2>2. CASE ~(j <= n)
    <3>1. /\ j - n + 1 \in 2 .. Len(calls) /\ j - n + 1 \in 1 .. i - 1 /\ n + (j - n + 1) - 1 = j
      BY <1>1, <2>2
    <3> QED
      BY <1>1, <1>2, <3>1
  <2> QED
    BY <2>1, <2>2
<1>8. ASSUME \A j \in 1 .. k - 1 : u[j].do \in Passing
      PROVE  v # Missing \/ Blank(p)
  <2>1. /\ \A j \in 1 .. n : pending[j].do \in Passing
        /\ \A j \in 2 .. i - 1 : calls[j].do \in Passing
    BY <1>6, <1>8
  <2>2. \/ v # Missing
        \/ Head(calls).do \in Passing /\ v = value
        \/ /\ Head(calls).do = "primary"
           /\ peek(cursor) \notin DOMAIN Literal \union {"LPAREN", "MINUS", "BANG"}
    BY <1>4, <1>5, <2>1 DEF PassesOn
  <2>3. CASE Head(calls).do \in Passing /\ v = value
    <3>1. \A j \in 1 .. i - 1 : j = 1 \/ j \in 2 .. i - 1
      BY <1>1
    <3>2. \A j \in 1 .. i - 1 : calls[j].do \in Passing
      BY <2>1, <2>3, <3>1
    <3> QED
      BY <1>2, <2>3, <3>2
  <2>4. CASE /\ Head(calls).do = "primary"
             /\ peek(cursor) \notin DOMAIN Literal \union {"LPAREN", "MINUS", "BANG"}
    <3>1. \A m \in p .. cursor.index - 1 : tokens[m] = "LPAREN"
      BY <1>2, <2>1, <2>4 DEF Beginning
    <3>2. cursor.index \in p .. End
      BY <1>2, <1>3
    <3> HIDE DEF p
    <3> QED
      BY <2>4, <3>1, <3>2 DEF Blank, peek
  <2> QED
    BY <2>2, <2>3, <2>4
<1>9. ASSUME k > 1, u[1].do \in Beginning, \A j \in 2 .. k - 1 : u[j].do \in Passing,
             NEW m \in p .. c.index - 1
      PROVE  tokens[m] = "LPAREN"
  <2>1. n > 0
    <3>1. SUFFICES ASSUME n = 0 PROVE FALSE
      BY <1>1
    <3>2. 2 \in 2 .. Len(calls) /\ n + 2 - 1 = 1 /\ 2 \in 1 .. Len(calls)
      BY <1>1, <3>1
    <3>3. u[1] = calls[2]
      BY <1>1, <3>2
    <3> QED
      BY <1>9, <3>2, <3>3 DEF FreshFirst, Fresh
  <2>2. u[1] = pending[1]
    BY <1>1, <2>1
  <2>3. \A j \in 2 .. n : pending[j].do \in Passing
    <3>1. \A j \in 2 .. n : j \in 2 .. k - 1 /\ j \in 1 .. n
      BY <1>1
    <3> QED
      BY <1>1, <1>9, <3>1
  <2>4. \A j \in 2 .. i - 1 : calls[j].do \in Passing
    <3> TAKE j \in 2 .. i - 1
    <3>1. j \in 2 .. Len(calls) /\ n + j - 1 \in 2 .. k - 1
      BY <1>1, <2>1
    <3> QED
      BY <1>1, <1>9, <3>1
  <2>5. /\ Head(calls).do \in Beginning
        /\ c.index = cursor.index \/ (peek(cursor) = "LPAREN" /\ c.index = cursor.index + 1)
    BY <1>4, <1>5, <1>9, <2>1, <2>2, <2>3 DEF BeginsFirst
  <2>6. \A q \in p .. cursor.index - 1 : tokens[q] = "LPAREN"
    BY <1>2, <2>4, <2>5
  <2>7. CASE m <= cursor.index - 1
    BY <1>2, <1>3, <2>6, <2>7
  <2>8. CASE ~(m <= cursor.index - 1)
    <3>1. m = cursor.index /\ peek(cursor) = "LPAREN"
      <4>1. m \in Int /\ m <= c.index - 1 /\ ~(m <= cursor.index - 1)
        BY <1>3, <2>8
      <4> QED
        BY <1>3, <2>5, <4>1
    <3> QED
      BY <3>1, SeesToken
  <2> QED
    BY <2>7, <2>8
<1>10. calls[i].at < c.index
  BY <1>2, <1>3
<1> QED
  BY <1>1, <1>2, <1>7, <1>8, <1>9, <1>10 DEF Wants

LEMMA ListLengths ==
  ASSUME PInv, outcome = "parsing"
  PROVE  /\ calls \in Seq(Item(Len(tokens))) /\ Len(calls) \in Nat \ {0} /\ calls # <<>>
         /\ Head(calls) = calls[1] /\ 1 \in 1 .. Len(calls)
         /\ \A k \in 1 .. Len(calls) : /\ calls[k] \in Item(Len(tokens))
                                       /\ calls[k].do \in {"block", "stmt", "program", "decl"} =>
                                            calls[k].list \in Seq(Tree) /\ Len(calls[k].list) \in Nat
<1>1. calls \in Seq(Item(Len(tokens))) /\ calls # <<>> /\ Len(tokens) \in Nat
  BY Working DEF PInv, Stacked
<1>2. Len(calls) \in Nat \ {0} /\ Head(calls) = calls[1] /\ 1 \in 1 .. Len(calls)
  <2>1. PICK A : calls \in Seq(A)
    BY <1>1
  <2> QED
    BY ONLY <1>1, <2>1
<1>3. ASSUME NEW k \in 1 .. Len(calls)
      PROVE  /\ calls[k] \in Item(Len(tokens))
             /\ calls[k].do \in {"block", "stmt", "program", "decl"} =>
                  calls[k].list \in Seq(Tree) /\ Len(calls[k].list) \in Nat
  <2>1. PICK h \in Item(Len(tokens)) : h = calls[k]
    BY <1>1, ElementOfSeq
  <2>2. h.do \in {"program", "decl"} => h.list \in Seq(Tree)
    <3>1. h.do \in {"program", "decl"} => h \in Outer(Len(tokens))
      BY <1>1, <2>1, ItemKinds DEF OuterCalls
    <3> QED
      BY <3>1 DEF Outer, Tree
  <2>3. h.do \in {"block", "stmt"} => h.list \in Seq(Tree)
    <3>1. h.do \in {"block", "stmt"} => h \in Inner(Len(tokens))
      BY <1>1, <2>1, ItemKinds DEF OuterCalls
    <3> QED
      BY <1>1, <3>1, InnerFields DEF Tree
  <2>4. h.do \in {"block", "stmt", "program", "decl"} => h.list \in Seq(Tree)
    BY <2>2, <2>3
  <2> QED
    BY <2>1, <2>4, LenProperties
<1> QED
  BY <1>1, <1>2, <1>3

LEMMA Further ==
  ASSUME NEW a \in Nat, NEW b \in Nat, NEW c \in Nat, a <= b - 1, b <= c
  PROVE  /\ a <= c - 1
         /\ a < b - 1 \/ b < c => a < c - 1
  OBVIOUS

LEMMA OrderlyAfter ==
  ASSUME PInv, outcome = "parsing", Orderly(calls, cursor, value),
         NEW B, NEW pending \in Seq(B), NEW v, NEW c \in Places, Handles(pending, v, c)
  PROVE  Orderly(pending \o Tail(calls), c, v)
<1>1. PICK u : u = pending \o Tail(calls)
  OBVIOUS
<1>2. PICK n : n = Len(pending)
  OBVIOUS
<1>3. TokensOk /\ cursor \in Places /\ Len(tokens) \in Nat
  BY Working
<1>4. Follows(u, pending, calls)
  BY <1>1, ListLengths, StackFollows
<1>5. /\ n \in Nat /\ Len(calls) \in Nat \ {0} /\ Len(u) = n + Len(calls) - 1
      /\ \A k \in 1 .. n : u[k] = pending[k]
      /\ \A i \in 2 .. Len(calls) : u[n + i - 1] = calls[i]
  BY <1>2, <1>4 DEF Follows
<1>6. ASSUME NEW k \in 1 .. Len(u)
      PROVE  \/ k \in 1 .. n /\ u[k] = pending[k]
             \/ \E i \in 2 .. Len(calls) : k = n + i - 1 /\ u[k] = calls[i]
  BY <1>2, <1>4, FollowsCases
<1>7. /\ FreshFirst(calls, value) /\ Unconditional(calls) /\ Wanting(calls, cursor, value)
      /\ Rooms(calls, cursor)
  BY DEF Orderly
<1>8. /\ FreshFirst(pending, v) /\ Unconditional(pending) /\ Wanting(pending, c, v)
      /\ Starts(pending, c) /\ Rooms(pending, c) /\ cursor.index <= c.index
      /\ Head(calls).do \in Idle => (n > 0 /\ pending[n].do \in Idle) \/ cursor.index < c.index
  BY <1>2 DEF Handles, Orderly
<1>9. ASSUME NEW i \in 2 .. Len(calls)
      PROVE  calls[i].do \notin Fresh /\ calls[i].do \notin {"true_expr", "false_expr"}
  <2>1. i \in 1 .. Len(calls) /\ i # 1
    BY <1>5
  <2> QED
    BY <1>7, <2>1 DEF FreshFirst, Unconditional
<1>10. FreshFirst(u, v)
  BY <1>2, <1>6, <1>8, <1>9 DEF FreshFirst
<1>11. Unconditional(u)
  BY <1>2, <1>6, <1>8, <1>9 DEF Unconditional
<1>12. Wanting(u, c, v)
  <2>1. SUFFICES ASSUME NEW k \in 1 .. Len(u), Waiting(u[k])
                 PROVE  Wants(u, k, c, v)
    BY DEF Wanting
  <2>2. CASE k \in 1 .. n /\ u[k] = pending[k]
    <3>1. Wants(pending, k, c, v)
      BY <1>2, <1>8, <2>1, <2>2 DEF Wanting
    <3>2. \A j \in 1 .. k - 1 : u[j] = pending[j]
      BY <1>5, <2>2
    <3>3. k > 1 => u[1] = pending[1]
      BY <1>5, <2>2
    <3>4. \A j \in 2 .. k - 1 : u[j] = pending[j]
      BY <1>5, <2>2
    <3> QED
      BY <2>2, <3>1, <3>2, <3>3, <3>4 DEF Wants
  <2>3. CASE \E i \in 2 .. Len(calls) : k = n + i - 1 /\ u[k] = calls[i]
    <3>1. PICK i \in 2 .. Len(calls) : k = n + i - 1 /\ u[k] = calls[i]
      BY <2>3
    <3>2. Wants(calls, i, cursor, value)
      <4>1. i \in 1 .. Len(calls)
        BY <1>5
      <4> QED
        BY <1>7, <2>1, <3>1, <4>1 DEF Wanting
    <3>3. Wants(u, Len(pending) + i - 1, c, v)
      BY <1>3, <1>4, <1>7, <3>2, ListLengths, WantsOn
    <3> QED
      BY <1>2, <3>1, <3>3
  <2> QED
    BY <1>6, <2>2, <2>3
<1>13. Starts(u, c)
  <2>1. SUFFICES ASSUME u # <<>>
                 PROVE  /\ u[1].do = "primary" => peek(c) \notin Signs
                        /\ u[1].do = "params" /\ peek(c) = "RPAREN" => current(c) # "IDENTIFIER"
    BY DEF Starts
  <2>2. CASE n > 0
    <3>1. u[1] = pending[1] /\ pending # <<>>
      BY <1>2, <1>5, <2>2
    <3> QED
      BY <1>8, <3>1 DEF Starts
  <2>3. CASE n = 0
    <3>1. CASE Len(calls) = 1
      <4>1. Tail(calls) = <<>> /\ pending = <<>>
        <5>1. PICK A : calls \in Seq(A) /\ calls # <<>>
          BY ListLengths
        <5>1a. Tail(calls) \in Seq(A) /\ Len(Tail(calls)) = Len(calls) - 1
          BY ONLY <5>1
        <5>2. PICK t \in Seq(A) : t = Tail(calls) /\ Len(t) = Len(calls) - 1
          BY <5>1a
        <5>3. Len(t) = 0
          BY <3>1, <5>2
        <5>4. t = <<>>
          BY <5>2, <5>3, EmptySeq
        <5>5. pending = <<>>
          BY <1>2, <2>3, EmptySeq
        <5> QED
          BY <5>2, <5>4, <5>5
      <4>2. u = <<>>
        BY <1>1, <4>1, EmptySeq, ConcatEmptySeq
      <4> QED
        BY <2>1, <4>2
    <3>2. CASE Len(calls) # 1
      <4>1. 2 \in 2 .. Len(calls) /\ n + 2 - 1 = 1
        BY <1>5, <2>3, <3>2
      <4>2. u[1] = calls[2]
        BY <1>5, <4>1
      <4> QED
        BY <1>9, <4>1, <4>2 DEF Fresh, Beginning
    <3> QED
      BY <3>1, <3>2
  <2> QED
    BY <1>5, <2>2, <2>3
<1>14. Rooms(u, c)
  <2>1. SUFFICES ASSUME NEW k \in 1 .. Len(u)
                 PROVE  Roomy(u, k, c)
    BY DEF Rooms
  <2>2. CASE k \in 1 .. n /\ u[k] = pending[k]
    <3>1. Roomy(pending, k, c)
      BY <1>2, <1>8, <2>2 DEF Rooms
    <3>2. k > 1 => u[k - 1] = pending[k - 1]
      BY <1>5, <2>2
    <3> QED
      BY <2>2, <3>1, <3>2 DEF Roomy
  <2>3. CASE \E i \in 2 .. Len(calls) : k = n + i - 1 /\ u[k] = calls[i]
    <3>1. PICK i \in 2 .. Len(calls) : k = n + i - 1 /\ u[k] = calls[i]
      BY <2>3
    <3>2. /\ i \in 1 .. Len(calls) /\ i > 1 /\ i - 1 \in 1 .. Len(calls) /\ k \in Nat
          /\ cursor.index \in Nat /\ c.index \in Nat /\ cursor.index <= c.index
      <4>1. cursor.index \in Nat /\ c.index \in Nat
        BY <1>3, KindFacts DEF Places
      <4>2. i \in 1 .. Len(calls) /\ i > 1 /\ i - 1 \in 1 .. Len(calls)
        BY <1>5
      <4> QED
        BY <1>5, <1>8, <4>1, <4>2
    <3>3. Roomy(calls, i, cursor)
      BY <1>7, <3>2 DEF Rooms
    <3>4. CASE u[k].do \in {"block", "program"}
      <4>1. Len(u[k].list) \in Nat /\ Len(u[k].list) <= cursor.index - 1
        BY <3>1, <3>2, <3>3, <3>4, ListLengths DEF Roomy
      <4>2. Len(u[k].list) <= c.index - 1
        BY <3>2, <4>1, Further
      <4> QED
        BY <3>4, <4>2 DEF Roomy
    <3>5. CASE u[k].do \in {"stmt", "decl"}
      <4>1. /\ Len(u[k].list) \in Nat /\ Len(u[k].list) <= cursor.index - 1
            /\ calls[i - 1].do \in Idle \/ Len(u[k].list) < cursor.index - 1
        BY <3>1, <3>2, <3>3, <3>5, ListLengths DEF Roomy
      <4>2. Len(u[k].list) <= c.index - 1
        BY <3>2, <4>1, Further
      <4>3. CASE Len(u[k].list) < cursor.index - 1
        <5>1. Len(u[k].list) < c.index - 1
          BY <3>2, <4>1, <4>3, Further
        <5> QED
          BY <3>5, <4>2, <5>1 DEF Roomy
      <4>4. CASE i > 2 /\ calls[i - 1].do \in Idle
        <5>1. i - 1 \in 2 .. Len(calls) /\ k - 1 = n + (i - 1) - 1 /\ k > 1
          BY <1>5, <3>1, <4>4
        <5>2. u[k - 1] = calls[i - 1]
          BY <1>5, <5>1
        <5> QED
          BY <3>5, <4>2, <4>4, <5>1, <5>2 DEF Roomy
      <4>5. CASE i = 2 /\ calls[i - 1].do \in Idle
        <5>1. Head(calls).do \in Idle
          BY <4>5, ListLengths
        <5>2. CASE n > 0 /\ pending[n].do \in Idle
          <6>1. k - 1 = n /\ k > 1 /\ n \in 1 .. n
            <7>1. k = n + 2 - 1
              BY <3>1, <4>5
            <7> QED
              BY <1>5, <5>2, <7>1
          <6>2. u[k - 1].do \in Idle
            BY <1>5, <5>2, <6>1
          <6> QED
            BY <3>5, <4>2, <6>1, <6>2 DEF Roomy
        <5>3. CASE cursor.index < c.index
          <6>1. Len(u[k].list) < c.index - 1
            BY <3>2, <4>1, <5>3, Further
          <6> QED
            BY <3>5, <4>2, <6>1 DEF Roomy
        <5> QED
          BY <1>8, <5>1, <5>2, <5>3
      <4> QED
        BY <3>1, <4>1, <4>3, <4>4, <4>5
    <3> QED
      BY <3>4, <3>5 DEF Roomy
  <2> QED
    BY <1>6, <2>2, <2>3
<1>15. Orderly(u, c, v)
  BY <1>10, <1>11, <1>12, <1>13, <1>14 DEF Orderly
<1> QED
  BY <1>1, <1>15

LEMMA HeldTyped ==
  ASSUME Len(tokens) \in Nat, NEW x \in Item(Len(tokens))
  PROVE  Held(x) \in Seq(Nat)
<1>1. /\ \A t \in Tree : Mentions(t) \in Seq(Nat)
      /\ \A list \in Seq(Tree) : MentionsAll(list) \in Seq(Nat)
      /\ \A a, b \in Seq(Nat) : Cat(a, b) \in Seq(Nat)
      /\ <<>> \in Seq(Nat)
  BY MentionsOfTrees, CatFacts, EmptySeq
<1>2. \A at \in 0 .. Len(tokens) : << at >> \in Seq(Nat)
  <2> TAKE at \in 0 .. Len(tokens)
  <2>1. at \in Nat
    OBVIOUS
  <2> QED
    BY <2>1, OneElement
<1>3. CASE x.do \in OuterCalls
  <2>1. x.do \in {"program", "decl"} /\ x.list \in Seq(Tree)
    BY <1>3, ItemKinds DEF Outer, OuterCalls, Tree
  <2>2. Held(x) = MentionsAll(x.list)
    BY <2>1, HeldCases
  <2> QED
    BY <1>1, <2>1, <2>2
<1>4. CASE x.do = "params"
  <2>1. x.at \in 0 .. Len(tokens) /\ x.params \in Seq(Tree)
    BY <1>4, ItemKinds DEF Tree
  <2>2. Held(x) = Cat(<< x.at >>, MentionsAll(x.params))
    BY <1>4, HeldCases
  <2> QED
    BY <1>1, <1>2, <2>1, <2>2
<1>5. CASE x.do = "declaration"
  BY <1>1, <1>5, HeldCases
<1>6. CASE x.do \notin OuterCalls \union {"declaration", "params"}
  <2>1. x \in Inner(Len(tokens))
    BY <1>6, ItemKinds
  <2>2. CASE x.do \in {"block", "stmt"}
    <3>1. x.list \in Seq(Tree) /\ Held(x) = MentionsAll(x.list)
      BY <2>1, <2>2, InnerFields, HeldCases DEF Tree
    <3> QED
      BY <1>1, <3>1
  <2>3. CASE x.do \in {"var_decl", "start"}
    <3>1. x.at \in 0 .. Len(tokens) /\ Held(x) = << x.at >>
      BY <2>1, <2>3, InnerFields, HeldCases
    <3> QED
      BY <1>2, <3>1
  <2>4. CASE x.do = "fn"
    <3>1. /\ x.at \in 0 .. Len(tokens) /\ x.params \in Seq(Tree)
          /\ Held(x) = Cat(<< x.at >>, MentionsAll(x.params))
      BY <2>1, <2>4, InnerFields, HeldCases DEF Tree
    <3> QED
      BY <1>1, <1>2, <3>1
  <2>5. CASE x.do = "end"
    <3>1. /\ x.at \in 0 .. Len(tokens) /\ x.start \in Tree
          /\ Held(x) = Cat(<< x.at >>, Mentions(x.start))
      BY <2>1, <2>5, InnerFields, HeldCases DEF Tree
    <3> QED
      BY <1>1, <1>2, <3>1
  <2>6. CASE x.do = "body"
    <3>1. /\ x.at \in 0 .. Len(tokens) /\ x.range \in Tree
          /\ Held(x) = Cat(<< x.at >>, Mentions(x.range))
      BY <2>1, <2>6, InnerFields, HeldCases DEF Tree
    <3> QED
      BY <1>1, <1>2, <3>1
  <2>7. CASE x.do = "then"
    <3>1. x.condition \in Tree /\ Held(x) = Mentions(x.condition)
      BY <2>1, <2>7, InnerFields, HeldCases DEF Tree
    <3> QED
      BY <1>1, <3>1
  <2>8. CASE x.do = "else"
    <3>1. x.parts \in Seq(Tree) /\ Held(x) = MentionsAll(x.parts)
      BY <2>1, <2>8, InnerFields, HeldCases DEF Tree
    <3> QED
      BY <1>1, <3>1
  <2>9. CASE x.do \in {"assign", "right"}
    <3>1. x.left \in Tree /\ Held(x) = Mentions(x.left)
      BY <2>1, <2>9, InnerFields, HeldCases DEF Tree
    <3> QED
      BY <1>1, <3>1
  <2>10. CASE x.do = "arguments"
    <3>1. /\ x.callee \in Tree /\ x.list \in Seq(Tree)
          /\ Held(x) = Cat(Mentions(x.callee), MentionsAll(x.list))
      BY <2>1, <2>10, InnerFields, HeldCases DEF Tree
    <3> QED
      BY <1>1, <3>1
  <2>11. CASE x.do \notin {"block", "stmt", "var_decl", "start", "fn", "end", "body", "then", "else",
                          "assign", "right", "arguments"}
    <3>1. Held(x) = <<>>
      BY <1>6, <2>11 DEF Held, OuterCalls
    <3> QED
      BY <1>1, <3>1
  <2> QED
    BY <2>2, <2>3, <2>4, <2>5, <2>6, <2>7, <2>8, <2>9, <2>10, <2>11
<1> QED
  BY <1>3, <1>4, <1>5, <1>6

\* A step does both, or gives up the program.
Serves(pending, v, c) ==
  /\ Handles(pending, v, c)
  /\ Keeps(pending, v, c) \/ (Head(calls).do = "params" /\ pending = <<>> /\ v = Missing)

LEMMA GatheredAfter ==
  ASSUME PInv, PInv', Gathered, outcome = "parsing", NEW B, NEW pending \in Seq(B), NEW v \in Tree,
         NEW c \in Places, NEW complaint, Step(pending, v, c, complaint),
         Head(calls).do = "decl" => value # Missing,
         Clean /\ ~complaint /\ Orderly(calls, cursor, value) => Serves(pending, v, c)
  PROVE  Gathered'
<1>0. /\ calls' = pending \o Tail(calls) /\ value' = v /\ cursor' = c
      /\ reported' = (reported \/ complaint) /\ tokens' = tokens /\ outcome' = outcome
  BY DEF Step
<1>1. /\ Clean' = Clean /\ ReadBefore(cursor)' = ReadBefore(c)
      /\ \A p : Blank(p)' = Blank(p)
  <2>1. Clean' = Clean
    BY <1>0 DEF Clean, Unfinished, Kind, End
  <2>2. \A p : Blank(p)' = Blank(p)
    BY <1>0 DEF Blank, Kind, End
  <2>3. \A k : Written(k)' = Written(k)
    BY <1>0 DEF Written
  <2>4. ReadBefore(cursor)' = ReadBefore(c)
    BY <1>0, <2>3 DEF ReadBefore
  <2> QED
    BY <2>1, <2>2, <2>4
<1>2. SUFFICES ASSUME Clean, ~reported, ~complaint
               PROVE  /\ Orderly(calls, cursor, value)'
                      /\ \/ GivesUp'
                         \/ \E b : Collects(calls', b) /\ Cat(b, Mentions(v)) = ReadBefore(c)
  <2>1. (\E b : Collects(calls', b) /\ Cat(b, Mentions(v)) = ReadBefore(c)) =>
          (\E b : Collects(calls, b) /\ Cat(b, Mentions(value)) = ReadBefore(cursor))'
    BY <1>0, <1>1
  <2> QED
    BY <1>0, <1>1, <2>1 DEF Gathered
<1>3. /\ Orderly(calls, cursor, value) /\ Serves(pending, v, c)
      /\ \E b : Collects(calls, b) /\ Cat(b, Mentions(value)) = ReadBefore(cursor)
  BY <1>2 DEF Gathered, GivesUp
<1>4. Orderly(calls', c, v)
  BY <1>0, <1>3, OrderlyAfter DEF Serves
<1>5. Orderly(calls, cursor, value)'
  <2>1. PICK u : u = calls'
    OBVIOUS
  <2>2. FreshFirst(u, v) /\ Unconditional(u) /\ Wanting(u, c, v) /\ Starts(u, c) /\ Rooms(u, c)
    BY <1>4, <2>1 DEF Orderly
  <2>3. Wanting(calls, cursor, value)'
    BY <1>0, <1>1, <2>1, <2>2 DEF Wanting, Wants
  <2>4. Starts(calls, cursor)'
    BY <1>0, <2>1, <2>2 DEF Starts, peek, current, Kind, End
  <2>5. FreshFirst(calls, value)' /\ Unconditional(calls)'
    BY <1>0, <2>1, <2>2 DEF FreshFirst, Unconditional
  <2>6. Rooms(calls, cursor)'
    BY <1>0, <2>1, <2>2 DEF Rooms, Roomy
  <2> QED
    BY <2>3, <2>4, <2>5, <2>6 DEF Orderly
<1>6. CASE Head(calls).do = "params" /\ pending = <<>> /\ v = Missing
  <2>1. GivesUp'
    <3>1. Stacked(calls, Len(tokens))
      BY DEF PInv
    <3>2. Head(calls) = calls[1] /\ 1 \in 1 .. Len(calls) /\ Len(calls) \in Nat
      BY ListLengths
    <3>3. 1 + 1 = Len(calls) /\ calls[1 + 1].do = "decl"
      BY <1>6, <3>1, <3>2 DEF Stacked
    <3>4. Follows(calls', pending, calls)
      BY <1>0, ListLengths, StackFollows
    <3>5. Len(pending) = 0
      BY <1>6
    <3>5a. \A m \in Nat : 1 + 1 = m => m = 2 /\ 2 \in 2 .. m /\ 0 + 2 - 1 = 1
      OBVIOUS
    <3>6. 2 \in 2 .. Len(calls) /\ 0 + 2 - 1 = 1 /\ Len(calls) = 2
      BY <3>2, <3>3, <3>5a
    <3>7. calls'[1] = calls[2] /\ Len(calls') = 1
      BY <3>4, <3>5, <3>6 DEF Follows
    <3>8. Stacked(calls', Len(tokens)')
      BY <1>0 DEF PInv
    <3>9. Head(calls') = calls'[1]
      OBVIOUS
    <3> QED
      BY <1>0, <1>6, <3>3, <3>7, <3>9 DEF GivesUp
  <2> QED
    BY <1>5, <2>1
<1>7. CASE Keeps(pending, v, c)
  <2>1. PICK b, new \in Seq(Nat) :
          /\ Holds(pending, b)
          /\ ReadBefore(c) = Cat(ReadBefore(cursor), new)
          /\ Cat(b, Mentions(v)) = Cat(Cat(Held(Head(calls)), Mentions(value)), new)
    BY <1>7 DEF Keeps
  <2>2. PICK e : Collects(calls, e) /\ Cat(e, Mentions(value)) = ReadBefore(cursor)
    BY <1>3
  <2>3. PICK r \in Seq(Nat) : e = Cat(r, Held(Head(calls))) /\ Collects(Tail(calls), r)
    BY <2>2, ListLengths, CollectsLess
  <2>4. PICK A : calls \in Seq(A) /\ Tail(calls) \in Seq(A)
    <3>1. PICK A : calls \in Seq(A) /\ calls # <<>>
      BY ListLengths
    <3>2. Tail(calls) \in Seq(A)
      BY ONLY <3>1
    <3> QED
      BY <3>1, <3>2
  <2>5. Collects(pending \o Tail(calls), Cat(r, b))
    BY <2>1, <2>3, <2>4, CollectsMore
  <2>6. PICK h, w, m : h = Held(Head(calls)) /\ w = Mentions(value) /\ m = Mentions(v)
    OBVIOUS
  <2>7. h \in Seq(Nat) /\ w \in Seq(Nat) /\ m \in Seq(Nat)
    BY <2>6, Working, HeldTyped, MentionsOfTrees
  <2>8. Cat(Cat(r, b), m) = Cat(r, Cat(b, m)) /\ Cat(h, w) \in Seq(Nat) /\ Cat(r, h) \in Seq(Nat)
    BY <2>1, <2>3, <2>7, CatAssociative, CatFacts
  <2>9. Cat(r, Cat(Cat(h, w), new)) = Cat(Cat(r, Cat(h, w)), new)
    BY <2>1, <2>3, <2>8, CatAssociative
  <2>10. Cat(r, Cat(h, w)) = Cat(Cat(r, h), w)
    BY <2>3, <2>7, CatAssociative
  <2>11. Cat(Cat(r, b), m) = ReadBefore(c)
    BY <2>1, <2>2, <2>3, <2>6, <2>8, <2>9, <2>10
  <2> QED
    BY <1>0, <1>5, <2>5, <2>6, <2>11
<1> QED
  BY <1>3, <1>6, <1>7 DEF Serves

LEMMA GatheredStop ==
  ASSUME PInv, Gathered, NEW how, how # "parsing", NEW v, Stop(how, v),
         Clean /\ ~reported /\ how = "parsed" /\ v # Missing => Mentions(v) = Written(Len(tokens))
  PROVE  Gathered'
<1>1. /\ outcome' = how /\ value' = v /\ calls' = <<>>
      /\ tokens' = tokens /\ cursor' = cursor /\ reported' = reported
  BY DEF Stop
<1>2. Clean' = Clean
  BY <1>1 DEF Clean, Unfinished, Kind, End
<1>3. (Mentions(value) = Written(Len(tokens)))' = (Mentions(v) = Written(Len(tokens)))
  BY <1>1 DEF Written
<1> QED
  BY <1>1, <1>2, <1>3 DEF Gathered

-----------------------------------------------------------------------------
(* What the pending calls of a step have to satisfy, by their number. *)
LEMMA HandlesNothing ==
  ASSUME NEW v, NEW c, cursor.index <= c.index,
         Head(calls).do \in InExpression =>
           \/ v # Missing
           \/ Head(calls).do \in Passing /\ v = value
           \/ Head(calls).do = "primary" /\ peek(cursor) \notin DOMAIN Literal \union {"LPAREN", "MINUS", "BANG"},
         Head(calls).do \in Idle => cursor.index < c.index
  PROVE  Handles(<<>>, v, c)
<1>1. PICK s : s = <<>> /\ Len(s) = 0 /\ 1 .. Len(s) = {}
  OBVIOUS
<1>2. Orderly(s, c, v)
  BY <1>1 DEF Orderly, FreshFirst, Unconditional, Wanting, Starts, Rooms
<1>3. PassesOn(s, v)
  BY DEF PassesOn
<1>4. BeginsFirst(s, c)
  BY <1>1 DEF BeginsFirst
<1>5. Handles(s, v, c)
  BY <1>1, <1>2, <1>3, <1>4 DEF Handles
<1> QED
  BY <1>1, <1>5

LEMMA HandlesOne ==
  ASSUME NEW v, NEW c, cursor.index <= c.index, NEW x,
         x.do \notin {"right", "true_expr", "false_expr", "stmt", "decl"},
         x.do \in Fresh => v = Missing,
         x.do = "primary" => peek(c) \notin Signs,
         x.do = "params" /\ peek(c) = "RPAREN" => current(c) # "IDENTIFIER",
         x.do \in {"block", "program"} => Len(x.list) <= c.index - 1,
         Head(calls).do \in InExpression =>
           /\ x.do \in InExpression
           /\ x.do \in Passing => v # Missing \/ (Head(calls).do \in Passing /\ v = value)
           /\ x.do \in Beginning => Head(calls).do \in Beginning /\ c.index = cursor.index,
         Head(calls).do \in Idle => x.do \in Idle \/ cursor.index < c.index
  PROVE  Handles(<< x >>, v, c)
<1>1. PICK s : s = << x >>
  OBVIOUS
<1>2. Len(s) = 1 /\ s[1] = x /\ 1 .. Len(s) = {1} /\ Len(s) > 0 /\ s[Len(s)] = x
  BY <1>1
<1>3. Orderly(s, c, v)
  <2>1. FreshFirst(s, v) /\ Unconditional(s) /\ Wanting(s, c, v)
    BY <1>2 DEF FreshFirst, Unconditional, Wanting, Waiting
  <2>2. Starts(s, c)
    BY <1>2 DEF Starts
  <2>3. Roomy(s, 1, c)
    BY <1>2 DEF Roomy
  <2>4. Rooms(s, c)
    BY <1>2, <2>3 DEF Rooms
  <2> QED
    BY <2>1, <2>2, <2>4 DEF Orderly
<1>4. PassesOn(s, v)
  BY <1>2 DEF PassesOn
<1>5. BeginsFirst(s, c)
  BY <1>2 DEF BeginsFirst
<1>6. Handles(s, v, c)
  BY <1>2, <1>3, <1>4, <1>5 DEF Handles
<1> QED
  BY <1>1, <1>6

LEMMA HandlesTwo ==
  ASSUME NEW c, cursor.index <= c.index, NEW x, NEW y,
         x.do \in {"expression", "statement", "declaration", "unary", "block"},
         y.do \notin Fresh \union {"right", "true_expr", "false_expr"},
         x.do = "block" => Len(x.list) <= c.index - 1,
         y.do \in {"stmt", "decl"} => x.do \in Idle /\ Len(y.list) <= c.index - 1,
         Head(calls).do \in InExpression =>
           /\ x.do \in InExpression /\ y.do \in InExpression
           /\ y.do \in Passing =>
                /\ Head(calls).do \in Beginning
                /\ peek(cursor) = "LPAREN" /\ c.index = cursor.index + 1,
         Head(calls).do \in Idle => y.do \in Idle \/ cursor.index < c.index
  PROVE  Handles(<< x, y >>, Missing, c)
<1>1. PICK s : s = << x, y >>
  OBVIOUS
<1>2. /\ Len(s) = 2 /\ s[1] = x /\ s[2] = y /\ 1 .. Len(s) = {1, 2} /\ Len(s) > 0 /\ s[Len(s)] = y
      /\ 2 - 1 = 1 /\ 2 > 1
  BY <1>1
<1>3. Orderly(s, c, Missing)
  <2>1. FreshFirst(s, Missing)
    BY <1>2 DEF FreshFirst
  <2>2. Unconditional(s)
    BY <1>2 DEF Unconditional
  <2>3. Wanting(s, c, Missing)
    BY <1>2 DEF Wanting, Waiting
  <2>4. Starts(s, c)
    BY <1>2 DEF Starts
  <2>5. Roomy(s, 1, c) /\ Roomy(s, 2, c)
    <3>1. Roomy(s, 1, c)
      BY <1>2 DEF Roomy
    <3>2. Roomy(s, 2, c)
      BY <1>2 DEF Roomy, Fresh
    <3> QED
      BY <3>1, <3>2
  <2>6. Rooms(s, c)
    BY <1>2, <2>5 DEF Rooms
  <2> QED
    BY <2>1, <2>2, <2>3, <2>4, <2>6 DEF Orderly
<1>4. PassesOn(s, Missing)
  BY <1>2 DEF PassesOn, Passing
<1>5. BeginsFirst(s, c)
  BY <1>2 DEF BeginsFirst
<1>6. Handles(s, Missing, c)
  <2>1. Head(calls).do \in InExpression => \A k \in 1 .. Len(s) : s[k].do \in InExpression
    BY <1>2
  <2> QED
    BY <1>2, <1>3, <1>4, <1>5, <2>1 DEF Handles
<1> QED
  BY <1>1, <1>6

LEMMA HoldsFew ==
  /\ Holds(<<>>, <<>>)
  /\ \A x : Holds(<< x >>, Held(x))
  /\ \A x, y : Held(x) = <<>> => Holds(<< x, y >>, Held(y))
<1>1. Holds(<<>>, <<>>)
  BY DEF Holds
<1>2. ASSUME NEW x PROVE Holds(<< x >>, Held(x))
  <2>1. PICK s : s = << x >>
    OBVIOUS
  <2>2. Len(s) = 1 /\ s[1] = x /\ 1 .. Len(s) = {1}
    BY <2>1
  <2>3. Holds(s, Held(x))
    BY <2>2 DEF Holds
  <2> QED
    BY <2>1, <2>3
<1>3. ASSUME NEW x, NEW y, Held(x) = <<>> PROVE Holds(<< x, y >>, Held(y))
  <2>1. PICK s : s = << x, y >>
    OBVIOUS
  <2>2. Len(s) = 2 /\ s[1] = x /\ s[2] = y /\ 1 .. Len(s) = {1, 2}
    BY <2>1
  <2>3. Holds(s, Held(y))
    BY <1>3, <2>2 DEF Holds
  <2> QED
    BY <2>1, <2>3
<1> QED
  BY <1>1, <1>2, <1>3

\* A step that reads no name, after which only the value holds something.
LEMMA KeepsInValue ==
  ASSUME PInv, outcome = "parsing", NEW pending, Holds(pending, <<>>), NEW v \in Tree, NEW c,
         ReadBefore(c) = ReadBefore(cursor),
         Mentions(v) = Cat(Held(Head(calls)), Mentions(value))
  PROVE  Keeps(pending, v, c)
<1>1. /\ Held(Head(calls)) \in Seq(Nat) /\ Mentions(value) \in Seq(Nat) /\ Mentions(v) \in Seq(Nat)
      /\ ReadBefore(cursor) \in Seq(Nat) /\ <<>> \in Seq(Nat)
  BY Working, HeldTyped, MentionsOfTrees, ReadTyped, EmptySeq
<1>2. /\ Cat(ReadBefore(cursor), <<>>) = ReadBefore(cursor)
      /\ Cat(<<>>, Mentions(v)) = Mentions(v)
      /\ Cat(Cat(Held(Head(calls)), Mentions(value)), <<>>) = Cat(Held(Head(calls)), Mentions(value))
  BY <1>1, CatFacts
<1> QED
  BY <1>1, <1>2 DEF Keeps

\* One after which a pending call holds all, and the value nothing.
LEMMA KeepsInCall ==
  ASSUME PInv, outcome = "parsing", NEW pending, NEW b \in Seq(Nat), Holds(pending, b), NEW c,
         ReadBefore(c) = ReadBefore(cursor),
         b = Cat(Held(Head(calls)), Mentions(value))
  PROVE  Keeps(pending, Missing, c)
<1>1. /\ Held(Head(calls)) \in Seq(Nat) /\ Mentions(value) \in Seq(Nat) /\ Mentions(Missing) = <<>>
      /\ ReadBefore(cursor) \in Seq(Nat) /\ <<>> \in Seq(Nat)
  BY Working, HeldTyped, MentionsOfTrees, ReadTyped, EmptySeq, MissingMentionsNothing
<1>2. /\ Cat(ReadBefore(cursor), <<>>) = ReadBefore(cursor)
      /\ Cat(b, <<>>) = b
      /\ Cat(Cat(Held(Head(calls)), Mentions(value)), <<>>) = Cat(Held(Head(calls)), Mentions(value))
  BY <1>1, CatFacts
<1> QED
  BY <1>1, <1>2 DEF Keeps

\* One that reads a name, where nothing was held before.
LEMMA KeepsName ==
  ASSUME PInv, outcome = "parsing", NEW pending, NEW b \in Seq(Nat), Holds(pending, b),
         NEW v \in Tree, NEW c, NEW new \in Seq(Nat),
         ReadBefore(c) = Cat(ReadBefore(cursor), new),
         Held(Head(calls)) = <<>>, value = Missing, Cat(b, Mentions(v)) = new
  PROVE  Keeps(pending, v, c)
<1>1. Mentions(Missing) = <<>> /\ <<>> \in Seq(Nat)
  BY Working, EmptySeq, MissingMentionsNothing
<1>2. Cat(<<>>, <<>>) = <<>> /\ Cat(<<>>, new) = new
  BY <1>1, CatFacts
<1> QED
  BY <1>1, <1>2 DEF Keeps

\* GatheredAfter for the steps with at most two pending calls.
LEMMA GatheredFew ==
  ASSUME PInv, PInv', Gathered, outcome = "parsing", NEW pending,
         \/ pending = <<>> \/ (\E x : pending = << x >>) \/ (\E x, y : pending = << x, y >>),
         NEW v \in Tree, NEW c \in Places, NEW complaint, Step(pending, v, c, complaint),
         Head(calls).do = "decl" => value # Missing,
         Clean /\ ~complaint /\ Orderly(calls, cursor, value) => Serves(pending, v, c)
  PROVE  Gathered'
<1>1. \E B : pending \in Seq(B)
  <2>1. \A x : << x >> \in Seq({x})
    BY OneElement
  <2>2. \A x, y : << x, y >> \in Seq({x, y})
    OBVIOUS
  <2>3. CASE \E x : pending = << x >>
    <3>1. PICK x : pending = << x >>
      BY <2>3
    <3>2. pending \in Seq({x})
      BY <2>1, <3>1
    <3> QED
      BY <3>2
  <2>4. CASE \E x, y : pending = << x, y >>
    <3>1. PICK x, y : pending = << x, y >>
      BY <2>4
    <3>2. pending \in Seq({x, y})
      BY <2>2, <3>1
    <3> QED
      BY <3>2
  <2>5. CASE pending = <<>>
    <3>1. pending \in Seq({})
      BY <2>5, EmptySeq
    <3> QED
      BY <3>1
  <2> QED
    BY <2>3, <2>4, <2>5
<1>2. PICK B : pending \in Seq(B)
  BY <1>1
<1> QED
  BY <1>2, GatheredAfter

\* What a step starts from.
LEMMA AtWork ==
  ASSUME PInv, outcome = "parsing"
  PROVE  /\ TokensOk /\ Len(tokens) \in Nat /\ cursor \in Places /\ value \in Tree /\ Missing \in Tree
         /\ cursor.index \in Nat \ {0} /\ Mentions(Missing) = <<>>
         /\ Mentions(value) \in Seq(Nat) /\ <<>> \in Seq(Nat)
         /\ Held(Head(calls)) = <<>> => Cat(Held(Head(calls)), Mentions(value)) = Mentions(value)
         /\ Orderly(calls, cursor, value) /\ Head(calls).do \in Fresh => value = Missing
         /\ Cat(<<>>, <<>>) = <<>>
<1>1. /\ TokensOk /\ Len(tokens) \in Nat /\ cursor \in Places /\ value \in Tree
  BY Working
<1>2. Missing \in Tree /\ Mentions(Missing) = <<>> /\ Mentions(value) \in Seq(Nat) /\ <<>> \in Seq(Nat)
  BY <1>1, MissingIsTree, MissingMentionsNothing, MentionsOfTrees, EmptySeq DEF Tree
<1>3. cursor.index \in Nat \ {0}
  BY <1>1, KindFacts DEF Places
<1>4. Orderly(calls, cursor, value) /\ Head(calls).do \in Fresh => value = Missing
  BY ListLengths DEF Orderly, FreshFirst
<1>5. Cat(<<>>, Mentions(value)) = Mentions(value) /\ Cat(<<>>, <<>>) = <<>>
  BY <1>2, CatFacts
<1> QED
  BY <1>1, <1>2, <1>3, <1>4, <1>5

LEMMA MatchedMoves ==
  ASSUME TokensOk, NEW c \in Places, NEW kinds
  PROVE  /\ matched(c, kinds) \in Places /\ c.index \in Nat /\ matched(c, kinds).index \in Nat
         /\ c.index <= matched(c, kinds).index
         /\ ~matches(c, kinds) => matched(c, kinds).index = c.index /\ peek(matched(c, kinds)) = peek(c)
         /\ matches(c, kinds) /\ "EOF" \notin kinds =>
              /\ matched(c, kinds) = advance(c) /\ peek(c) \in kinds
              /\ matched(c, kinds).index = c.index + 1
              /\ c.index \in 1 .. Len(tokens) /\ c.index \in 0 .. Len(tokens)
              /\ tokens[c.index] = peek(c)
<1>1. /\ matched(c, kinds) \in Places /\ c.index \in Nat /\ matched(c, kinds).index \in Nat
  BY MatchedFacts, KindFacts DEF Places
<1>2. CASE matches(c, kinds) /\ peek(c) # "EOF"
  BY <1>1, <1>2, AdvanceFacts, SeesToken DEF matched, matches
<1>3. CASE peek(c) = "EOF"
  BY <1>1, <1>3, AdvanceFacts DEF matched, matches, peek
<1>4. CASE ~matches(c, kinds) /\ peek(c) # "EOF"
  BY <1>1, <1>4 DEF matched, matches
<1> QED
  BY <1>1, <1>2, <1>3, <1>4

\* Calls of expressions that hold nothing.
LEMMA HoldsNothing ==
  ASSUME NEW k \in PlainCalls \union {"declaration"}
  PROVE  Call(k).do = k /\ Held(Call(k)) = <<>>
<1>1. Call(k).do = k
  BY DEF Call
<1> QED
  BY <1>1, HeldCases

LEMMA UnaryGathers ==
  ASSUME PInv, PInv', Gathered, outcome = "parsing", parse_unary_expression
  PROVE  Gathered'
<1>1. Head(calls).do = "unary"
  BY DEF parse_unary_expression, Doing
<1>2. Held(Head(calls)) = <<>>
  BY <1>1, HeldCases DEF PlainCalls
<1> DEFINE c == matched(cursor, Signs)
<1>3. c \in Places /\ cursor.index <= c.index /\ ReadBefore(c) = ReadBefore(cursor)
  <2>1. Signs \intersect DOMAIN Literal = {}
    BY LiteralFacts DEF Signs
  <2> QED
    BY <2>1, AtWork, MatchedMoves, MatchedReads
<1>4. CASE Sees(Signs)
  <2> DEFINE y == [do |-> "operand", at |-> cursor.index]
  <2>1. Step(<< Call("unary"), y >>, Missing, c, FALSE)
    BY <1>4 DEF parse_unary_expression, Go, Signs
  <2>2. y.do = "operand" /\ Held(y) = <<>> /\ Call("unary").do = "unary" /\ Held(Call("unary")) = <<>>
    BY HeldCases, HoldsNothing DEF PlainCalls
  <2> HIDE DEF c, y
  <2>3. Handles(<< Call("unary"), y >>, Missing, c)
    BY <1>1, <1>3, <2>2, HandlesTwo DEF Fresh, Beginning, Passing, InExpression, Idle
  <2>4. ASSUME Orderly(calls, cursor, value)
        PROVE  Keeps(<< Call("unary"), y >>, Missing, c)
    <3>1. value = Missing
      BY <1>1, <2>4, AtWork DEF Fresh, Beginning
    <3> QED
      BY <1>2, <1>3, <2>2, <3>1, AtWork, HoldsFew, KeepsInCall
  <2> QED
    BY <1>1, <1>3, <2>1, <2>3, <2>4, AtWork, GatheredFew DEF Serves
<1>5. CASE ~Sees(Signs)
  <2>1. Step(<< Call("primary") >>, Missing, c, FALSE)
    BY <1>5 DEF parse_unary_expression, Go, Signs
  <2>2. Call("primary").do = "primary" /\ Held(Call("primary")) = <<>>
    BY HoldsNothing DEF PlainCalls
  <2>3. c.index = cursor.index /\ peek(c) \notin Signs
    BY <1>5, AtWork, MatchedMoves DEF Sees, matches
  <2> HIDE DEF c
  <2>4. Handles(<< Call("primary") >>, Missing, c)
    BY <1>1, <1>3, <2>2, <2>3, HandlesOne DEF Fresh, Beginning, Passing, InExpression, Idle
  <2>5. ASSUME Orderly(calls, cursor, value)
        PROVE  Keeps(<< Call("primary") >>, Missing, c)
    <3>1. value = Missing
      BY <1>1, <2>5, AtWork DEF Fresh, Beginning
    <3> QED
      BY <1>2, <1>3, <2>2, <3>1, AtWork, HoldsFew, KeepsInCall
  <2> QED
    BY <1>1, <1>3, <2>1, <2>4, <2>5, AtWork, GatheredFew DEF Serves
<1> QED
  BY <1>4, <1>5

LEMMA OperandGathers ==
  ASSUME PInv, PInv', Gathered, outcome = "parsing", parse_unary_operand
  PROVE  Gathered'
<1> DEFINE c == matched(cursor, Signs)
           node == Node("UNARY_OP", Head(calls).at, << value >>)
<1>1. Head(calls).do = "operand" /\ Head(calls).at \in 0 .. Len(tokens)
  <2>1. Head(calls).do = "operand"
    BY DEF parse_unary_operand, Doing
  <2>2. Head(calls) \in Inner(Len(tokens))
    BY <2>1, Working, ItemKinds DEF OuterCalls
  <2> QED
    BY <2>1, <2>2, Working, InnerFields
<1>2. Held(Head(calls)) = <<>>
  BY <1>1, HeldCases
<1>3. c \in Places /\ cursor.index <= c.index /\ ReadBefore(c) = ReadBefore(cursor)
  <2>1. Signs \intersect DOMAIN Literal = {}
    BY LiteralFacts DEF Signs
  <2> QED
    BY <2>1, AtWork, MatchedMoves, MatchedReads
<1>4. node \in Tree /\ node # Missing /\ Mentions(node) = Mentions(value)
  <2>1. "UNARY_OP" \in NodeTypes \ Named /\ "UNARY_OP" # "NULL"
    BY DEF NodeTypes, Named, Leaves
  <2>2. << value >> \in Seq(Tree) /\ MentionsAll(<< value >>) = Mentions(value)
    BY AtWork, OneElement, MentionsOfLists
  <2> QED
    BY <1>1, <2>1, <2>2, AtWork, NodeInTree, MentionsOfNode
<1>5. CASE Sees(Signs)
  <2> DEFINE x == [do |-> "operand", at |-> cursor.index]
  <2>1. Step(<< x >>, node, c, FALSE)
    BY <1>5 DEF parse_unary_operand, Signs
  <2>2. x.do = "operand" /\ Held(x) = <<>>
    BY HeldCases
  <2> HIDE DEF c, x, node
  <2>3. Handles(<< x >>, node, c)
    BY <1>1, <1>3, <1>4, <2>2, HandlesOne DEF Fresh, Beginning, Passing, InExpression, Idle
  <2>4. Keeps(<< x >>, node, c)
    <3>1. Holds(<< x >>, <<>>)
      BY <2>2, HoldsFew
    <3> QED
      BY <1>2, <1>3, <1>4, <3>1, AtWork, KeepsInValue
  <2> QED
    BY <1>1, <1>3, <1>4, <2>1, <2>3, <2>4, AtWork, GatheredFew DEF Serves
<1>6. CASE ~Sees(Signs)
  <2>1. Step(<<>>, node, c, FALSE)
    BY <1>6 DEF parse_unary_operand, Return, Signs
  <2> HIDE DEF c, node
  <2>2. Handles(<<>>, node, c)
    BY <1>1, <1>3, <1>4, HandlesNothing DEF Idle
  <2>3. Keeps(<<>>, node, c)
    BY <1>2, <1>3, <1>4, AtWork, HoldsFew, KeepsInValue
  <2> QED
    BY <1>1, <1>3, <1>4, <2>1, <2>2, <2>3, AtWork, GatheredFew DEF Serves
<1> QED
  BY <1>5, <1>6

LEMMA LiteralLeaves ==
  \A k \in DOMAIN Literal : Literal[k] \in NodeTypes \intersect Named /\ Literal[k] # "NULL"
<1>1. DOMAIN Literal = {"INTEGER", "FLOAT", "TRUE", "STRING", "IDENTIFIER"}
  BY LiteralFacts
<1>2. /\ Literal["INTEGER"] = "INTEGER" /\ Literal["FLOAT"] = "FLOAT" /\ Literal["TRUE"] = "BOOL"
      /\ Literal["STRING"] = "STRING" /\ Literal["IDENTIFIER"] = "SYMBOL"
  BY DEF Literal
<1>3. {"INTEGER", "FLOAT", "BOOL", "STRING", "SYMBOL"} \subseteq NodeTypes \intersect Named
  BY DEF NodeTypes, Named, Leaves
<1> QED
  BY <1>1, <1>2, <1>3

LEMMA PrimaryGathers ==
  ASSUME PInv, PInv', Gathered, outcome = "parsing", parse_primary_expression
  PROVE  Gathered'
<1> DEFINE c == matched(cursor, DOMAIN Literal \union {"LPAREN"})
           v == Leaf(Literal[peek(cursor)], cursor.index)
<1>1. Head(calls).do = "primary"
  BY DEF parse_primary_expression, Doing
<1>2. Held(Head(calls)) = <<>>
  BY <1>1, HeldCases DEF PlainCalls
<1>3. c \in Places /\ cursor.index <= c.index
  BY AtWork, MatchedMoves
<1>4. "EOF" \notin DOMAIN Literal \union {"LPAREN"} /\ "LPAREN" \notin DOMAIN Literal
  BY LiteralFacts
<1>5. CASE /\ Sees(DOMAIN Literal)
           /\ Step(<< Call("callee") >>, v, c, FALSE)
  <2>1. /\ matches(cursor, DOMAIN Literal \union {"LPAREN"})
        /\ peek(cursor) \in DOMAIN Literal /\ cursor.index \in 0 .. Len(tokens)
        /\ c = advance(cursor)
    <3>1. peek(cursor) \in DOMAIN Literal /\ matches(cursor, DOMAIN Literal \union {"LPAREN"})
      BY <1>5 DEF Sees, matches
    <3> QED
      BY <1>4, <3>1, AtWork, MatchedMoves
  <2>2. v \in Tree /\ v # Missing /\ Mentions(v) = << cursor.index >>
    <3>1. Literal[peek(cursor)] \in NodeTypes \intersect Named /\ Literal[peek(cursor)] # "NULL"
      BY <2>1, LiteralLeaves
    <3>2. v \in Tree
      BY <2>1, <3>1, AtWork, NodeInTree, EmptySeq DEF Leaf
    <3> QED
      BY <2>1, <3>1, <3>2, AtWork, MentionsOfLeaf
  <2>3. Call("callee").do = "callee" /\ Held(Call("callee")) = <<>>
    BY HoldsNothing DEF PlainCalls
  <2>4. ReadBefore(c) = Cat(ReadBefore(cursor), << cursor.index >>)
    BY <2>1, AtWork, AdvanceReads
  <2> HIDE DEF c, v
  <2>5. Handles(<< Call("callee") >>, v, c)
    BY <1>1, <1>3, <2>2, <2>3, HandlesOne DEF Fresh, Beginning, Passing, InExpression, Idle
  <2>6. ASSUME Orderly(calls, cursor, value)
        PROVE  Keeps(<< Call("callee") >>, v, c)
    <3>1. value = Missing
      BY <1>1, <2>6, AtWork DEF Fresh, Beginning
    <3>2. << cursor.index >> \in Seq(Nat)
      <4>1. cursor.index \in Nat
        BY AtWork
      <4> QED
        BY <4>1, OneElement
    <3>3. Holds(<< Call("callee") >>, <<>>) /\ Cat(<<>>, << cursor.index >>) = << cursor.index >>
      BY <2>3, <3>2, HoldsFew, CatFacts
    <3> QED
      BY <1>2, <2>2, <2>4, <3>1, <3>2, <3>3, AtWork, KeepsName
  <2>7. Step(<< Call("callee") >>, v, c, FALSE)
    BY <1>5
  <2> QED
    BY <1>1, <1>3, <2>2, <2>5, <2>6, <2>7, GatheredFew DEF Serves
<1>6. CASE Sees({"LPAREN"}) /\ Go(<< Call("expression"), Call("parenthesis") >>, c)
  <2>1. Step(<< Call("expression"), Call("parenthesis") >>, Missing, c, FALSE)
    BY <1>6 DEF Go
  <2>2. /\ Call("expression").do = "expression" /\ Held(Call("expression")) = <<>>
        /\ Call("parenthesis").do = "parenthesis" /\ Held(Call("parenthesis")) = <<>>
    BY HoldsNothing DEF PlainCalls
  <2>3. peek(cursor) = "LPAREN" /\ c.index = cursor.index + 1 /\ c = advance(cursor)
    <3>1. peek(cursor) = "LPAREN" /\ matches(cursor, DOMAIN Literal \union {"LPAREN"})
      BY <1>6 DEF Sees, matches
    <3> QED
      BY <1>4, <3>1, AtWork, MatchedMoves
  <2>4. ReadBefore(c) = ReadBefore(cursor)
    BY <1>4, <2>3, AtWork, AdvanceReads
  <2> HIDE DEF c
  <2>5. Handles(<< Call("expression"), Call("parenthesis") >>, Missing, c)
    BY <1>1, <1>3, <2>2, <2>3, HandlesTwo DEF Fresh, Beginning, Passing, InExpression, Idle
  <2>6. ASSUME Orderly(calls, cursor, value)
        PROVE  Keeps(<< Call("expression"), Call("parenthesis") >>, Missing, c)
    <3>1. value = Missing
      BY <1>1, <2>6, AtWork DEF Fresh, Beginning
    <3>2. Holds(<< Call("expression"), Call("parenthesis") >>, <<>>)
      BY <2>2, HoldsFew
    <3> QED
      BY <1>2, <2>4, <3>1, <3>2, AtWork, KeepsInCall
  <2> QED
    BY <1>1, <1>3, <2>1, <2>5, <2>6, AtWork, GatheredFew DEF Serves
<1>7. CASE ~Sees(DOMAIN Literal) /\ ~Sees({"LPAREN"}) /\ Return(Missing, c)
  <2>1. Step(<<>>, Missing, c, FALSE)
    BY <1>7 DEF Return
  <2>2. peek(cursor) \notin DOMAIN Literal \union {"LPAREN"}
    BY <1>7 DEF Sees, matches
  <2>3. ReadBefore(c) = ReadBefore(cursor)
    <3>1. c.index = cursor.index
      BY <2>2, AtWork, MatchedMoves DEF matches
    <3> QED
      BY <3>1 DEF ReadBefore
  <2> HIDE DEF c
  <2>4. ASSUME Orderly(calls, cursor, value)
        PROVE  Handles(<<>>, Missing, c) /\ Keeps(<<>>, Missing, c)
    <3>1. value = Missing
      BY <1>1, <2>4, AtWork DEF Fresh, Beginning
    <3>2. peek(cursor) \notin Signs
      BY <1>1, <2>4, ListLengths DEF Orderly, Starts
    <3>3. peek(cursor) \notin DOMAIN Literal \union {"LPAREN", "MINUS", "BANG"}
      BY <2>2, <3>2 DEF Signs
    <3>4. Handles(<<>>, Missing, c)
      BY <1>1, <1>3, <3>3, HandlesNothing DEF Idle
    <3>5. Keeps(<<>>, Missing, c)
      BY <1>2, <2>3, <3>1, AtWork, HoldsFew, KeepsInCall
    <3> QED
      BY <3>4, <3>5
  <2> QED
    BY <1>1, <1>3, <2>1, <2>4, AtWork, GatheredFew DEF Serves
<1> QED
  BY <1>5, <1>6, <1>7 DEF parse_primary_expression

LEMMA ParenthesisGathers ==
  ASSUME PInv, PInv', Gathered, outcome = "parsing", parse_parenthesis
  PROVE  Gathered'
<1> DEFINE c == matched(cursor, {"RPAREN"})
           complaint == ~Sees({"RPAREN"})
<1>1. Head(calls).do = "parenthesis" /\ Step(<< Call("callee") >>, value, c, complaint)
  BY DEF parse_parenthesis, Doing
<1>2. Held(Head(calls)) = <<>>
  BY <1>1, HeldCases DEF PlainCalls
<1>3. c \in Places /\ cursor.index <= c.index /\ ReadBefore(c) = ReadBefore(cursor)
  <2>1. {"RPAREN"} \intersect DOMAIN Literal = {}
    BY LiteralFacts
  <2> QED
    BY <2>1, AtWork, MatchedMoves, MatchedReads
<1>4. Call("callee").do = "callee" /\ Held(Call("callee")) = <<>>
  BY HoldsNothing DEF PlainCalls
<1> HIDE DEF c, complaint
<1>5. Handles(<< Call("callee") >>, value, c)
  BY <1>1, <1>3, <1>4, HandlesOne DEF Fresh, Beginning, Passing, InExpression, Idle
<1>6. Keeps(<< Call("callee") >>, value, c)
  <2>1. Holds(<< Call("callee") >>, <<>>)
    BY <1>4, HoldsFew
  <2> QED
    BY <1>2, <1>3, <2>1, AtWork, KeepsInValue
<1> QED
  BY <1>1, <1>3, <1>5, <1>6, AtWork, GatheredFew DEF Serves

LEMMA CalleeGathers ==
  ASSUME PInv, PInv', Gathered, outcome = "parsing", parse_callee
  PROVE  Gathered'
<1> DEFINE c == matched(cursor, {"LPAREN"})
           y == [do |-> "arguments", callee |-> value, list |-> <<>>]
<1>1. Head(calls).do = "callee"
  BY DEF parse_callee, Doing
<1>2. Held(Head(calls)) = <<>>
  BY <1>1, HeldCases DEF PlainCalls
<1>3. c \in Places /\ cursor.index <= c.index /\ ReadBefore(c) = ReadBefore(cursor)
  <2>1. {"LPAREN"} \intersect DOMAIN Literal = {}
    BY LiteralFacts
  <2> QED
    BY <2>1, AtWork, MatchedMoves, MatchedReads
<1>4. CASE Sees({"LPAREN"})
  <2>1. Step(<< Call("expression"), y >>, Missing, c, FALSE)
    BY <1>4 DEF parse_callee, Go
  <2>2. Call("expression").do = "expression" /\ Held(Call("expression")) = <<>>
    BY HoldsNothing DEF PlainCalls
  <2>3. y.do = "arguments" /\ Held(y) = Mentions(value)
    <3>1. y.do = "arguments" /\ y.callee = value /\ y.list = <<>>
      OBVIOUS
    <3> HIDE DEF y
    <3>2. Held(y) = Cat(Mentions(value), MentionsAll(<<>>))
      BY <3>1, HeldCases
    <3>3. MentionsAll(<<>>) = <<>> /\ Cat(Mentions(value), <<>>) = Mentions(value)
      BY AtWork, MentionsOfLists, CatFacts
    <3> QED
      BY <3>1, <3>2, <3>3
  <2> HIDE DEF c, y
  <2>4. Handles(<< Call("expression"), y >>, Missing, c)
    BY <1>1, <1>3, <2>2, <2>3, HandlesTwo DEF Fresh, Beginning, Passing, InExpression, Idle
  <2>5. Keeps(<< Call("expression"), y >>, Missing, c)
    <3>1. Holds(<< Call("expression"), y >>, Mentions(value))
      BY <2>2, <2>3, HoldsFew
    <3> QED
      BY <1>2, <1>3, <3>1, AtWork, KeepsInCall
  <2> QED
    BY <1>1, <1>3, <2>1, <2>4, <2>5, AtWork, GatheredFew DEF Serves
<1>5. CASE ~Sees({"LPAREN"})
  <2>1. Step(<<>>, value, c, FALSE)
    BY <1>5 DEF parse_callee, Return
  <2> HIDE DEF c
  <2>2. Handles(<<>>, value, c)
    BY <1>1, <1>3, HandlesNothing DEF Passing, Idle
  <2>3. Keeps(<<>>, value, c)
    BY <1>2, <1>3, AtWork, HoldsFew, KeepsInValue
  <2> QED
    BY <1>1, <1>3, <2>1, <2>2, <2>3, AtWork, GatheredFew DEF Serves
<1> QED
  BY <1>4, <1>5

LEMMA ArgumentsGather ==
  ASSUME PInv, PInv', Gathered, outcome = "parsing", parse_call_expression
  PROVE  Gathered'
<1> DEFINE call == Head(calls)
           list == IF value = Missing THEN call.list ELSE Append(call.list, value)
           next == [call EXCEPT !.list = list]
           v == Node("CALL", 0, << call.callee >> \o list)
           c == advance(cursor)
<1>1. call.do = "arguments" /\ call \in [do : {"arguments"}, callee : Tree, list : Seq(Tree)]
  <2>1. call.do = "arguments"
    BY DEF parse_call_expression, Doing
  <2>2. call \in Inner(Len(tokens))
    BY <2>1, Working, ItemKinds DEF OuterCalls
  <2> QED
    BY <2>1, <2>2, Working, InnerFields DEF Tree
<1>2. Held(call) = Cat(Mentions(call.callee), MentionsAll(call.list))
  BY <1>1, HeldCases
<1>3. list \in Seq(Tree) /\ MentionsAll(list) = Cat(MentionsAll(call.list), Mentions(value))
  <2>1. /\ MentionsAll(call.list) \in Seq(Nat)
        /\ MentionsAll(Append(call.list, value)) = Cat(MentionsAll(call.list), Mentions(value))
    BY <1>1, AtWork, MentionsOfTrees, MentionsOfLists
  <2>2. Cat(MentionsAll(call.list), <<>>) = MentionsAll(call.list)
    BY <2>1, CatFacts
  <2>3. Append(call.list, value) \in Seq(Tree)
    <3>1. PICK A, l : A = Tree /\ l = call.list /\ l \in Seq(A) /\ value \in A
      BY <1>1, AtWork
    <3>2. Append(l, value) \in Seq(A)
      BY ONLY <3>1
    <3> QED
      BY <3>1, <3>2
  <2> QED
    BY <1>1, <2>1, <2>2, <2>3, AtWork
<1>4. /\ call.callee \in Tree /\ Mentions(call.callee) \in Seq(Nat) /\ MentionsAll(call.list) \in Seq(Nat)
  BY <1>1, AtWork, MentionsOfTrees
<1>5. Cat(Mentions(call.callee), MentionsAll(list)) = Cat(Held(call), Mentions(value))
  BY <1>2, <1>3, <1>4, AtWork, CatAssociative
<1>6. next.do = "arguments" /\ Held(next) = Cat(Held(call), Mentions(value))
  <2>1. next.do = "arguments" /\ next.callee = call.callee /\ next.list = list
    BY <1>1
  <2> HIDE DEF next, list
  <2>2. Held(next) = Cat(Mentions(call.callee), MentionsAll(list))
    BY <2>1, HeldCases
  <2> QED
    BY <1>5, <2>1, <2>2
<1> HIDE DEF list
<1>7. /\ Call("expression").do = "expression" /\ Held(Call("expression")) = <<>>
  BY HoldsNothing DEF PlainCalls
<1>8. c \in Places /\ cursor.index <= c.index
  <2>1. c \in Places /\ (c.index = cursor.index + 1 \/ c.index = cursor.index)
    BY AtWork, AdvanceFacts
  <2> QED
    BY <2>1, AtWork
<1>9. \/ Sees({"COMMA"}) /\ Go(<< Call("expression"), next >>, c)
      \/ Sees({"RPAREN"}) /\ Return(v, c)
      \/ \E how \in Unclosed(call.callee) : Stop(how, Missing)
  BY DEF parse_call_expression, list
<1>10. CASE Sees({"COMMA"}) /\ Go(<< Call("expression"), next >>, c)
  <2>1. Step(<< Call("expression"), next >>, Missing, c, FALSE)
    BY <1>10 DEF Go
  <2>2. ReadBefore(c) = ReadBefore(cursor)
    <3>1. peek(cursor) \notin DOMAIN Literal
      BY <1>10, LiteralFacts DEF Sees, matches
    <3> QED
      BY <3>1, AtWork, AdvanceReads
  <2> HIDE DEF c, next
  <2>3. Handles(<< Call("expression"), next >>, Missing, c)
    BY <1>1, <1>6, <1>7, <1>8, HandlesTwo DEF Fresh, Beginning, Passing, InExpression, Idle
  <2>4. Keeps(<< Call("expression"), next >>, Missing, c)
    <3>1. Held(next) \in Seq(Nat)
      <4>1. Held(call) \in Seq(Nat)
        BY <1>2, <1>4, CatFacts
      <4> QED
        BY <1>6, <4>1, AtWork, CatFacts
    <3>2. Holds(<< Call("expression"), next >>, Held(next))
      BY <1>7, HoldsFew
    <3> QED
      BY <1>6, <2>2, <3>1, <3>2, KeepsInCall
  <2> QED
    BY <1>1, <1>8, <2>1, <2>3, <2>4, AtWork, GatheredFew DEF Serves
<1>11. CASE Sees({"RPAREN"}) /\ Return(v, c)
  <2>1. Step(<<>>, v, c, FALSE)
    BY <1>11 DEF Return
  <2>2. ReadBefore(c) = ReadBefore(cursor)
    <3>1. peek(cursor) \notin DOMAIN Literal
      BY <1>11, LiteralFacts DEF Sees, matches
    <3> QED
      BY <3>1, AtWork, AdvanceReads
  <2>3. v \in Tree /\ v # Missing /\ Mentions(v) = Cat(Held(call), Mentions(value))
    <3>1. << call.callee >> \in Seq(Tree) /\ MentionsAll(<< call.callee >>) = Mentions(call.callee)
      BY <1>4, AtWork, OneElement, MentionsOfLists
    <3>2. << call.callee >> \o list \in Seq(Tree)
      BY <1>3, <3>1, ConcatProperties
    <3>3. MentionsAll(<< call.callee >> \o list) = Cat(Mentions(call.callee), MentionsAll(list))
      <4>1. PICK l, r : l = << call.callee >> /\ r = list /\ l \in Seq(Tree) /\ r \in Seq(Tree)
        BY <1>3, <3>1
      <4>2. MentionsAll(l \o r) = Cat(MentionsAll(l), MentionsAll(r))
        BY <4>1, AtWork, MentionsOfLists
      <4> QED
        BY <3>1, <4>1, <4>2
    <3>4. "CALL" \in NodeTypes \ Named /\ "CALL" # "NULL" /\ 0 \in 0 .. Len(tokens)
      BY AtWork DEF NodeTypes, Named, Leaves
    <3> QED
      BY <1>5, <3>2, <3>3, <3>4, AtWork, NodeInTree, MentionsOfNode
  <2> HIDE DEF c, v
  <2>4. Handles(<<>>, v, c)
    BY <1>1, <1>8, <2>3, HandlesNothing DEF Idle
  <2>5. Keeps(<<>>, v, c)
    BY <2>2, <2>3, HoldsFew, KeepsInValue
  <2> QED
    BY <1>1, <1>8, <2>1, <2>3, <2>4, <2>5, GatheredFew DEF Serves
<1>12. CASE \E how \in Unclosed(call.callee) : Stop(how, Missing)
  <2>1. PICK how : how \in {"crashed", "exited"} /\ Stop(how, Missing)
    BY <1>12 DEF Unclosed
  <2> QED
    BY <2>1, GatheredStop
<1> QED
  BY <1>9, <1>10, <1>11, <1>12

Four(u, a, b, x, y) ==
  /\ u \in Seq({a, b, x, y}) /\ Len(u) = 4 /\ 1 .. Len(u) = {1, 2, 3, 4}
  /\ u[1] = a /\ u[2] = b /\ u[3] = x /\ u[4] = y

LEMMA FourElements ==
  ASSUME NEW a, NEW b, NEW x, NEW y
  PROVE  /\ Four(<< a, b >> \o << x, y >>, a, b, x, y)
         /\ Four((<< a, b >> \o << x >>) \o << y >>, a, b, x, y)
<1>0. SUFFICES ASSUME NEW u, u = << a, b >> \o << x, y >> \/ u = (<< a, b >> \o << x >>) \o << y >>
               PROVE  Four(u, a, b, x, y)
  OBVIOUS
<1>1. PICK A : A = {a, b, x, y}
  OBVIOUS
<1>2. PICK s, t, p, q : s = << a, b >> /\ t = << x, y >> /\ p = << x >> /\ q = << y >>
  OBVIOUS
<1>3. /\ s \in Seq(A) /\ t \in Seq(A) /\ p \in Seq(A) /\ q \in Seq(A)
      /\ Len(s) = 2 /\ Len(t) = 2 /\ Len(p) = 1 /\ Len(q) = 1
      /\ s[1] = a /\ s[2] = b /\ t[1] = x /\ t[2] = y /\ p[1] = x /\ q[1] = y
  BY <1>1, <1>2
<1>4. CASE u = s \o t
  <2>1. u \in Seq(A) /\ Len(u) = 4 /\ u[1] = a /\ u[2] = b /\ u[3] = x /\ u[4] = y
    <3>1. /\ u \in Seq(A) /\ Len(u) = Len(s) + Len(t)
          /\ \A k \in 1 .. Len(s) + Len(t) : u[k] = IF k <= Len(s) THEN s[k] ELSE t[k - Len(s)]
      BY ONLY <1>3, <1>4, ConcatProperties
    <3>2. Len(s) + Len(t) = 4 /\ 3 - Len(s) = 1 /\ 4 - Len(s) = 2 /\ Len(s) = 2
      BY <1>3
    <3> QED
      BY ONLY <1>3, <3>1, <3>2
  <2>2. \A n : n = 4 => 1 .. n = {1, 2, 3, 4}
    OBVIOUS
  <2> QED
    BY <1>1, <2>1, <2>2 DEF Four
<1>5. CASE u = (s \o p) \o q
  <2>1. PICK w : w = s \o p
    OBVIOUS
  <2>2. w \in Seq(A) /\ Len(w) = 3 /\ w[1] = a /\ w[2] = b /\ w[3] = x
    <3>1. /\ w \in Seq(A) /\ Len(w) = Len(s) + Len(p)
          /\ \A k \in 1 .. Len(s) + Len(p) : w[k] = IF k <= Len(s) THEN s[k] ELSE p[k - Len(s)]
      BY ONLY <1>3, <2>1, ConcatProperties
    <3>2. Len(s) + Len(p) = 3 /\ 3 - Len(s) = 1 /\ Len(s) = 2
      BY <1>3
    <3> QED
      BY ONLY <1>3, <3>1, <3>2
  <2>3. u = w \o q
    BY <1>5, <2>1
  <2>4. u \in Seq(A) /\ Len(u) = 4 /\ u[1] = a /\ u[2] = b /\ u[3] = x /\ u[4] = y
    <3>1. /\ u \in Seq(A) /\ Len(u) = Len(w) + Len(q)
          /\ \A k \in 1 .. Len(w) + Len(q) : u[k] = IF k <= Len(w) THEN w[k] ELSE q[k - Len(w)]
      BY ONLY <1>3, <2>2, <2>3, ConcatProperties
    <3>2. Len(w) + Len(q) = 4 /\ 4 - Len(w) = 1 /\ Len(w) = 3
      BY <1>3, <2>2
    <3> QED
      BY ONLY <1>3, <2>2, <3>1, <3>2
  <2>5. \A n : n = 4 => 1 .. n = {1, 2, 3, 4}
    OBVIOUS
  <2> QED
    BY <1>1, <2>4, <2>5 DEF Four
<1> QED
  BY <1>0, <1>2, <1>4, <1>5

LEMMA ExpressionGathers ==
  ASSUME PInv, PInv', Gathered, outcome = "parsing", parse_expression
  PROVE  Gathered'
<1>1. Head(calls).do = "expression" /\ Step(Expression, Missing, cursor, FALSE)
  BY DEF parse_expression, Doing, Go
<1>2. Held(Head(calls)) = <<>>
  BY <1>1, HeldCases DEF PlainCalls
<1>3. PICK a, b, x, y : /\ a = Call("unary") /\ b = [do |-> "operators", low |-> 1, high |-> 6]
                        /\ x = Call("ternary") /\ y = Call("assignment")
  OBVIOUS
<1>4. /\ a.do = "unary" /\ b.do = "operators" /\ x.do = "ternary" /\ y.do = "assignment"
      /\ Held(a) = <<>> /\ Held(b) = <<>> /\ Held(x) = <<>> /\ Held(y) = <<>>
  <2>1. b.do = "operators"
    BY <1>3
  <2> QED
    BY <1>3, <2>1, HoldsNothing, HeldCases DEF PlainCalls
<1>5. PICK u : u = Expression
  OBVIOUS
<1>6. u = (<< a, b >> \o << x >>) \o << y >>
  BY <1>3, <1>5 DEF Expression, Ternary, Levels
<1>7. /\ u \in Seq({a, b, x, y}) /\ Len(u) = 4 /\ 1 .. Len(u) = {1, 2, 3, 4}
      /\ u[1] = a /\ u[2] = b /\ u[3] = x /\ u[4] = y
  <2>1. Four((<< a, b >> \o << x >>) \o << y >>, a, b, x, y)
    BY FourElements
  <2> QED
    BY <1>6, <2>1 DEF Four
<1>8. ASSUME NEW k \in 1 .. Len(u)
      PROVE  /\ u[k].do \in {"unary", "operators", "ternary", "assignment"} /\ Held(u[k]) = <<>>
             /\ u[k].do \in Fresh => k = 1
  BY <1>4, <1>7 DEF Fresh, Beginning
<1>9. Orderly(u, cursor, Missing)
  <2>1. FreshFirst(u, Missing) /\ Unconditional(u) /\ Wanting(u, cursor, Missing)
    BY <1>8 DEF FreshFirst, Unconditional, Wanting, Waiting
  <2>2. Starts(u, cursor)
    BY <1>4, <1>7 DEF Starts
  <2>3. Rooms(u, cursor)
    BY <1>8 DEF Rooms, Roomy
  <2> QED
    BY <2>1, <2>2, <2>3 DEF Orderly
<1>10. PassesOn(u, Missing) /\ BeginsFirst(u, cursor)
  <2>1. 1 \in 1 .. Len(u) /\ u[1].do \notin Passing
    BY <1>4, <1>7 DEF Passing
  <2>2. Head(calls).do \in Beginning
    BY <1>1 DEF Beginning
  <2> QED
    BY <2>1, <2>2 DEF PassesOn, BeginsFirst
<1>11. Handles(u, Missing, cursor)
  <2>1. cursor.index <= cursor.index
    BY AtWork
  <2>2. Head(calls).do \notin Idle
    BY <1>1 DEF Idle
  <2>3. \A k \in 1 .. Len(u) : u[k].do \in InExpression
    BY <1>8 DEF InExpression, Beginning, Passing
  <2> QED
    BY <1>9, <1>10, <2>1, <2>2, <2>3 DEF Handles
<1>12. ASSUME Orderly(calls, cursor, value)
       PROVE  Keeps(u, Missing, cursor)
  <2>1. value = Missing
    BY <1>1, <1>12, AtWork DEF Fresh, Beginning
  <2>2. Holds(u, <<>>)
    BY <1>8 DEF Holds
  <2> QED
    BY <1>2, <2>1, <2>2, AtWork, KeepsInCall
<1> QED
  BY <1>1, <1>5, <1>7, <1>11, <1>12, AtWork, GatheredAfter DEF Serves

LEMMA RightGathers ==
  ASSUME PInv, PInv', Gathered, outcome = "parsing", parse_right_operand
  PROVE  Gathered'
<1> DEFINE call == Head(calls)
           v == Node(NodeOf[call.level], call.at, << call.left, value >>)
<1>1. /\ call.do = "right" /\ call.level \in 1 .. 6 /\ call.at \in 0 .. Len(tokens)
      /\ call.left \in Tree
  <2>1. call.do = "right"
    BY DEF parse_right_operand, Doing
  <2>2. call \in Inner(Len(tokens))
    BY <2>1, Working, ItemKinds DEF OuterCalls
  <2> QED
    BY <2>1, <2>2, Working, InnerFields DEF Tree
<1>2. Held(call) = Mentions(call.left)
  BY <1>1, HeldCases
<1>3. v \in Tree /\ v # Missing /\ Mentions(v) = Cat(Held(call), Mentions(value))
  <2>1. NodeOf[call.level] \in {"COMPARE", "BINARY_OP"}
    <3>1. /\ NodeOf[1] = "COMPARE" /\ NodeOf[2] = "BINARY_OP" /\ NodeOf[3] = "COMPARE"
          /\ NodeOf[4] = "COMPARE" /\ NodeOf[5] = "BINARY_OP" /\ NodeOf[6] = "BINARY_OP"
      BY DEF NodeOf
    <3>2. \A l \in 1 .. 6 : l = 1 \/ l = 2 \/ l = 3 \/ l = 4 \/ l = 5 \/ l = 6
      OBVIOUS
    <3> QED
      BY <1>1, <3>1, <3>2
  <2>2. NodeOf[call.level] \in NodeTypes \ Named /\ NodeOf[call.level] # "NULL"
    BY <2>1 DEF NodeTypes, Named, Leaves
  <2>3. << call.left, value >> \in Seq(Tree)
    <3>1. PICK A, l, r : A = Tree /\ l = call.left /\ r = value /\ l \in A /\ r \in A
      BY <1>1, AtWork
    <3>2. << l, r >> \in Seq(A)
      BY <3>1
    <3> QED
      BY <3>1, <3>2
  <2>4. MentionsAll(<< call.left, value >>) = Cat(Mentions(call.left), Mentions(value))
    BY <1>1, AtWork, MentionsOfLists
  <2> QED
    BY <1>1, <1>2, <2>2, <2>3, <2>4, AtWork, NodeInTree, MentionsOfNode
<1> HIDE DEF v
<1>4. \/ value = Missing /\ call.level >= 5 /\ (Step(<<>>, Missing, cursor, FALSE) \/ Stop("crashed", Missing))
      \/ Step(<<>>, v, cursor, FALSE)
  BY DEF parse_right_operand, Return, v
<1>5. CASE Stop("crashed", Missing)
  BY <1>5, GatheredStop
<1>6. CASE value = Missing /\ call.level >= 5 /\ Step(<<>>, Missing, cursor, FALSE)
  <2>1. ASSUME Clean, Orderly(calls, cursor, value)
        PROVE  FALSE
    <3>1. Wants(calls, 1, cursor, value)
      BY <1>1, <1>6, <2>1, ListLengths DEF Orderly, Wanting, Waiting
    <3>2. 1 .. 1 - 1 = {}
      OBVIOUS
    <3>3. /\ call.at \in 1 .. Len(tokens) /\ tokens[call.at] \in Arithmetic
          /\ value # Missing \/ Blank(call.at + 1)
      BY <3>1, <3>2, ListLengths DEF Wants
    <3>4. Unfinished(call.at)
      BY <1>6, <3>3 DEF Unfinished, Blank
    <3>5. call.at \in DOMAIN tokens
      BY <3>3, AtWork, LenProperties DEF TokensOk
    <3> QED
      BY <2>1, <3>4, <3>5 DEF Clean
  <2> QED
    BY <1>1, <1>6, <2>1, AtWork, GatheredFew
<1>7. CASE Step(<<>>, v, cursor, FALSE)
  <2>1. Handles(<<>>, v, cursor)
    BY <1>1, <1>3, AtWork, HandlesNothing DEF Idle
  <2>2. Keeps(<<>>, v, cursor)
    BY <1>3, HoldsFew, KeepsInValue
  <2> QED
    BY <1>1, <1>3, <1>7, <2>1, <2>2, AtWork, GatheredFew DEF Serves
<1> QED
  BY <1>4, <1>5, <1>6, <1>7

LEMMA OperatorTokens ==
  ASSUME NEW l \in 1 .. 6
  PROVE  /\ BinaryOps[l] \intersect DOMAIN Literal = {} /\ "EOF" \notin BinaryOps[l]
         /\ l >= 5 => BinaryOps[l] \subseteq Arithmetic
<1>1. l = 1 \/ l = 2 \/ l = 3 \/ l = 4 \/ l = 5 \/ l = 6
  OBVIOUS
<1>2. /\ BinaryOps[1] = {"OR"} /\ BinaryOps[2] = {"AND"} /\ BinaryOps[3] = {"EQ", "NEQ"}
      /\ BinaryOps[4] = {"LT", "GT", "LTE", "GTE"} /\ BinaryOps[5] = {"PLUS", "MINUS"}
      /\ BinaryOps[6] = {"ASTERISK", "SLASH"}
  BY DEF BinaryOps
<1>3. BinaryOps[l] \intersect DOMAIN Literal = {} /\ "EOF" \notin BinaryOps[l]
  BY <1>1, <1>2, LiteralFacts
<1>4. l >= 5 => BinaryOps[l] \subseteq Arithmetic
  <2>1. l >= 5 => l = 5 \/ l = 6
    BY <1>1
  <2> QED
    BY <1>2, <2>1 DEF Arithmetic
<1> QED
  BY <1>3, <1>4

LEMMA OperatorGathers ==
  ASSUME PInv, PInv', Gathered, outcome = "parsing", parse_binary_operators
  PROVE  Gathered'
<1> DEFINE call == Head(calls)
           found == {l \in call.low .. call.high :
                   Sees(BinaryOps[l]) /\ (l >= 5 => value # Missing)}
<1>1. /\ call.do = "operators" /\ call \in [do : {"operators"}, low : 1 .. 7, high : 1 .. 6]
  <2>1. call.do = "operators"
    BY DEF parse_binary_operators, Doing
  <2>2. call \in Inner(Len(tokens))
    BY <2>1, Working, ItemKinds DEF OuterCalls
  <2> QED
    BY <2>1, <2>2, Working, InnerFields
<1>2. Held(call) = <<>>
  BY <1>1, HeldCases
<1>3. CASE found = {}
  <2> DEFINE c == matched(cursor, {})
  <2>1. Step(<<>>, value, c, FALSE)
    BY <1>3 DEF parse_binary_operators, Return
  <2>2. c \in Places /\ cursor.index <= c.index /\ ReadBefore(c) = ReadBefore(cursor)
    <3>1. {} \intersect DOMAIN Literal = {}
      OBVIOUS
    <3> QED
      BY <3>1, AtWork, MatchedMoves, MatchedReads
  <2> HIDE DEF c
  <2>3. Handles(<<>>, value, c)
    BY <1>1, <2>2, HandlesNothing DEF Passing, Idle
  <2>4. Keeps(<<>>, value, c)
    BY <1>2, <2>2, AtWork, HoldsFew, KeepsInValue
  <2> QED
    BY <1>1, <2>1, <2>2, <2>3, <2>4, AtWork, GatheredFew DEF Serves
<1>4. CASE found # {}
  <2>1. PICK l \in found :
          Go(Levels(l + 1) \o
               << [do |-> "right", level |-> l, at |-> cursor.index, left |-> value],
                  [call EXCEPT !.high = l] >>, advance(cursor))
    BY <1>4 DEF parse_binary_operators
  <2>2. l \in 1 .. 6 /\ Sees(BinaryOps[l])
    BY <1>1
  <2>3. PICK a, b, x, y, c :
          /\ a = Call("unary") /\ b = [do |-> "operators", low |-> l + 1, high |-> 6]
          /\ x = [do |-> "right", level |-> l, at |-> cursor.index, left |-> value]
          /\ y = [call EXCEPT !.high = l] /\ c = advance(cursor)
    OBVIOUS
  <2>4. PICK u : u = << a, b >> \o << x, y >>
    OBVIOUS
  <2>5. Step(u, Missing, c, FALSE)
    BY <2>1, <2>3, <2>4 DEF Go, Levels
  <2>6. /\ u \in Seq({a, b, x, y}) /\ Len(u) = 4 /\ 1 .. Len(u) = {1, 2, 3, 4}
        /\ u[1] = a /\ u[2] = b /\ u[3] = x /\ u[4] = y
    <3>1. Four(<< a, b >> \o << x, y >>, a, b, x, y)
      BY FourElements
    <3> QED
      BY <2>4, <3>1 DEF Four
  <2>7. /\ a.do = "unary" /\ b.do = "operators" /\ x.do = "right" /\ y.do = "operators"
        /\ Held(a) = <<>> /\ Held(b) = <<>> /\ Held(x) = Mentions(value) /\ Held(y) = <<>>
        /\ x.level = l /\ x.at = cursor.index
    <3>1. /\ b.do = "operators" /\ y.do = "operators"
          /\ x.do = "right" /\ x.left = value /\ x.level = l /\ x.at = cursor.index
      BY <1>1, <2>3
    <3>2. a.do = "unary" /\ Held(a) = <<>>
      BY <2>3, HoldsNothing DEF PlainCalls
    <3> QED
      BY <3>1, <3>2, HeldCases
  <2>8. /\ c \in Places /\ c.index = cursor.index + 1 /\ cursor.index \in 1 .. Len(tokens)
        /\ tokens[cursor.index] \in BinaryOps[l] /\ ReadBefore(c) = ReadBefore(cursor)
    <3>1. peek(cursor) \in BinaryOps[l]
      BY <2>2 DEF Sees, matches
    <3>2. peek(cursor) # "EOF" /\ peek(cursor) \notin DOMAIN Literal
      BY <2>2, <3>1, OperatorTokens
    <3> QED
      BY <2>3, <3>1, <3>2, AtWork, AdvanceFacts, AdvanceReads, SeesToken
  <2>9. ASSUME NEW k \in 1 .. Len(u)
        PROVE  /\ u[k].do \in {"unary", "operators", "right"}
               /\ u[k].do = "unary" => k = 1
               /\ u[k].do = "right" => k = 3
               /\ k # 3 => Held(u[k]) = <<>>
    BY <2>6, <2>7
  <2>10. l >= 5 => Wants(u, 3, c, Missing)
    <3>1. SUFFICES ASSUME l >= 5 PROVE Wants(u, 3, c, Missing)
      OBVIOUS
    <3>2. tokens[u[3].at] \in Arithmetic /\ u[3].at \in 1 .. Len(tokens) /\ u[3].at < c.index
      <4>1. BinaryOps[l] \subseteq Arithmetic
        BY <2>2, <3>1, OperatorTokens
      <4>2. u[3].at = cursor.index
        BY <2>6, <2>7
      <4>3. cursor.index < c.index
        BY <2>8, AtWork
      <4> QED
        BY <2>8, <4>1, <4>2, <4>3
    <3>3. 1 .. 3 - 1 = {1, 2} /\ u[1].do \notin Passing
      BY <2>6, <2>7 DEF Passing
    <3>4. \A j \in 1 .. 3 - 1 : u[j].do \in InExpression
      BY <2>6, <2>7, <3>3 DEF InExpression, Beginning, Passing
    <3>5. u[3].at + 1 .. c.index - 1 = {}
      BY <2>6, <2>7, <2>8, AtWork
    <3> QED
      BY <3>2, <3>3, <3>4, <3>5 DEF Wants
  <2>11. Orderly(u, c, Missing)
    <3>1. FreshFirst(u, Missing) /\ Unconditional(u)
      BY <2>9 DEF FreshFirst, Unconditional, Fresh, Beginning
    <3>2. Wanting(u, c, Missing)
      BY <2>6, <2>7, <2>9, <2>10 DEF Wanting, Waiting
    <3>3. Starts(u, c)
      BY <2>6, <2>7 DEF Starts
    <3>4. Rooms(u, c)
      BY <2>9 DEF Rooms, Roomy
    <3> QED
      BY <3>1, <3>2, <3>3, <3>4 DEF Orderly
  <2>12. PassesOn(u, Missing) /\ BeginsFirst(u, c)
    <3>1. 1 \in 1 .. Len(u) /\ u[1].do \notin Passing /\ 3 \in 2 .. Len(u) /\ u[3].do \notin Passing
      BY <2>6, <2>7 DEF Passing
    <3> QED
      BY <3>1 DEF PassesOn, BeginsFirst
  <2>13. Handles(u, Missing, c)
    <3>1. cursor.index <= c.index
      BY <2>8, AtWork
    <3>2. Head(calls).do \notin Idle
      BY <1>1 DEF Idle
    <3>3. \A k \in 1 .. Len(u) : u[k].do \in InExpression
      BY <2>9 DEF InExpression, Beginning, Passing
    <3> QED
      BY <2>11, <2>12, <3>1, <3>2, <3>3 DEF Handles
  <2>14. Keeps(u, Missing, c)
    <3>1. 3 \in 1 .. Len(u) /\ u[3] = x
      BY <2>6
    <3>2. Holds(u, Mentions(value))
      BY <2>7, <2>9, <3>1 DEF Holds
    <3> QED
      BY <1>2, <2>8, <3>2, AtWork, KeepsInCall
  <2> QED
    BY <1>1, <2>5, <2>6, <2>8, <2>13, <2>14, AtWork, GatheredAfter DEF Serves
<1> QED
  BY <1>3, <1>4

LEMMA TernaryGathers ==
  ASSUME PInv, PInv', Gathered, outcome = "parsing", parse_ternary_expression
  PROVE  Gathered'
<1>1. CASE Doing("ternary")
  <2> DEFINE c == matched(cursor, {"QUESTION"})
             x == [do |-> "true_expr", condition |-> value]
  <2>1. Head(calls).do = "ternary"
    BY <1>1 DEF Doing
  <2>2. c \in Places /\ cursor.index <= c.index /\ ReadBefore(c) = ReadBefore(cursor)
    <3>1. {"QUESTION"} \intersect DOMAIN Literal = {}
      BY LiteralFacts
    <3> QED
      BY <3>1, AtWork, MatchedMoves, MatchedReads
  <2>3. CASE Sees({"QUESTION"})
    <3>1. Step(<< Call("expression"), x >>, Missing, advance(c), FALSE)
      BY <1>1, <2>1, <2>3 DEF parse_ternary_expression, Doing, Go
    <3>2. ~Clean
      <4>1. peek(cursor) = "QUESTION"
        BY <2>3 DEF Sees, matches
      <4>2. cursor.index \in 1 .. Len(tokens) /\ tokens[cursor.index] = "QUESTION"
        BY <4>1, AtWork, SeesToken
      <4>3. cursor.index \in DOMAIN tokens
        BY <4>2, AtWork, LenProperties DEF TokensOk
      <4> QED
        BY <4>2, <4>3 DEF Clean
    <3>3. advance(c) \in Places
      BY <2>2, AtWork, AdvanceFacts
    <3> HIDE DEF c, x
    <3> QED
      BY <2>1, <3>1, <3>2, <3>3, AtWork, GatheredFew
  <2>4. CASE ~Sees({"QUESTION"})
    <3>1. Step(<<>>, value, c, FALSE)
      BY <1>1, <2>1, <2>4 DEF parse_ternary_expression, Doing, Return
    <3>2. Held(Head(calls)) = <<>>
      BY <2>1, HeldCases DEF PlainCalls
    <3> HIDE DEF c
    <3>3. Handles(<<>>, value, c)
      BY <2>1, <2>2, HandlesNothing DEF Passing, Idle
    <3>4. Keeps(<<>>, value, c)
      BY <2>2, <3>2, AtWork, HoldsFew, KeepsInValue
    <3> QED
      BY <2>1, <2>2, <3>1, <3>3, <3>4, AtWork, GatheredFew DEF Serves
  <2> QED
    BY <2>3, <2>4
<1>2. ASSUME Head(calls).do \in {"true_expr", "false_expr"}, Orderly(calls, cursor, value)
      PROVE  FALSE
  BY <1>2, ListLengths DEF Orderly, Unconditional
<1>3. CASE Doing("true_expr")
  <2> DEFINE x == [do |-> "false_expr", condition |-> Head(calls).condition, true_expr |-> value]
             c == advance(matched(cursor, {"COLON"}))
             complaint == ~Sees({"COLON"})
  <2>1. Head(calls).do = "true_expr" /\ Head(calls).condition \in Tree
    <3>1. Head(calls).do = "true_expr"
      BY <1>3 DEF Doing
    <3>2. Head(calls) \in Inner(Len(tokens))
      BY <3>1, Working, ItemKinds DEF OuterCalls
    <3> QED
      BY <3>1, <3>2, Working, InnerFields DEF Tree
  <2>2. Step(Ternary \o << x >>, Missing, c, complaint)
    BY <1>3, <2>1 DEF parse_ternary_expression, Doing
  <2>3. x \in Inner(Len(tokens)) /\ x.do # "true_expr"
    BY <2>1, AtWork DEF Inner, Tree
  <2>4. c \in Places
    BY AtWork, MatchedMoves, AdvanceFacts
  <2> HIDE DEF x, c, complaint
  <2>5. Ternary \o << x >> \in Seq(Inner(Len(tokens)))
    BY <2>3, AtWork, ExpressionsPend, PendsOne, PendsAfter DEF Pends
  <2> QED
    BY <1>2, <2>1, <2>2, <2>4, <2>5, AtWork, GatheredAfter
<1>4. CASE Doing("false_expr")
  <2> DEFINE v == Node("TERNARY_OP", 0, << Head(calls).condition, Head(calls).true_expr, value >>)
  <2>1. Head(calls).do = "false_expr"
    BY <1>4 DEF Doing
  <2>2. Step(<<>>, v, cursor, FALSE)
    BY <1>4, <2>1 DEF parse_ternary_expression, Doing, Return
  <2>3. v \in Tree
    <3>1. value' \in Tree' /\ value' = v /\ tokens' = tokens
      BY <2>2 DEF PInv, Step
    <3> QED
      BY <3>1 DEF Tree
  <2> HIDE DEF v
  <2> QED
    BY <1>2, <2>1, <2>2, <2>3, AtWork, GatheredFew
<1> QED
  BY <1>1, <1>3, <1>4 DEF parse_ternary_expression

LEMMA AssignmentGathers ==
  ASSUME PInv, PInv', Gathered, outcome = "parsing", parse_assignment_expression
  PROVE  Gathered'
<1>1. CASE Doing("assignment")
  <2> DEFINE c == matched(cursor, {"EQUALS"})
             y == [do |-> "assign", at |-> cursor.index, left |-> value]
  <2>1. Head(calls).do = "assignment"
    BY <1>1 DEF Doing
  <2>2. Held(Head(calls)) = <<>>
    BY <2>1, HeldCases DEF PlainCalls
  <2>3. c \in Places /\ cursor.index <= c.index /\ ReadBefore(c) = ReadBefore(cursor)
    <3>1. {"EQUALS"} \intersect DOMAIN Literal = {}
      BY LiteralFacts
    <3> QED
      BY <3>1, AtWork, MatchedMoves, MatchedReads
  <2>4. CASE Sees({"EQUALS"})
    <3>1. Step(<< Call("expression"), y >>, Missing, c, FALSE)
      BY <1>1, <2>1, <2>4 DEF parse_assignment_expression, Doing, Go
    <3>2. Call("expression").do = "expression" /\ Held(Call("expression")) = <<>>
      BY HoldsNothing DEF PlainCalls
    <3>3. y.do = "assign" /\ Held(y) = Mentions(value)
      <4>1. y.do = "assign" /\ y.left = value
        OBVIOUS
      <4> HIDE DEF y
      <4> QED
        BY <4>1, HeldCases
    <3> HIDE DEF c, y
    <3>4. Handles(<< Call("expression"), y >>, Missing, c)
      BY <2>1, <2>3, <3>2, <3>3, HandlesTwo DEF Fresh, Beginning, Passing, InExpression, Idle
    <3>5. Keeps(<< Call("expression"), y >>, Missing, c)
      <4>1. Holds(<< Call("expression"), y >>, Mentions(value))
        BY <3>2, <3>3, HoldsFew
      <4> QED
        BY <2>2, <2>3, <4>1, AtWork, KeepsInCall
    <3> QED
      BY <2>1, <2>3, <3>1, <3>4, <3>5, AtWork, GatheredFew DEF Serves
  <2>5. CASE ~Sees({"EQUALS"})
    <3>1. Step(<<>>, value, c, FALSE)
      BY <1>1, <2>1, <2>5 DEF parse_assignment_expression, Doing, Return
    <3> HIDE DEF c
    <3>2. Handles(<<>>, value, c)
      BY <2>1, <2>3, HandlesNothing DEF Passing, Idle
    <3>3. Keeps(<<>>, value, c)
      BY <2>2, <2>3, AtWork, HoldsFew, KeepsInValue
    <3> QED
      BY <2>1, <2>3, <3>1, <3>2, <3>3, AtWork, GatheredFew DEF Serves
  <2> QED
    BY <2>4, <2>5
<1>2. CASE Doing("assign")
  <2> DEFINE v == Node("ASSIGN", Head(calls).at, << Head(calls).left, value >>)
  <2>1. /\ Head(calls).do = "assign" /\ Head(calls).at \in 0 .. Len(tokens)
        /\ Head(calls).left \in Tree
    <3>1. Head(calls).do = "assign"
      BY <1>2 DEF Doing
    <3>2. Head(calls) \in Inner(Len(tokens))
      BY <3>1, Working, ItemKinds DEF OuterCalls
    <3> QED
      BY <3>1, <3>2, Working, InnerFields DEF Tree
  <2>2. Step(<<>>, v, cursor, FALSE)
    BY <1>2, <2>1 DEF parse_assignment_expression, Doing, Return
  <2>3. v \in Tree /\ v # Missing /\ Mentions(v) = Cat(Held(Head(calls)), Mentions(value))
    <3>1. "ASSIGN" \in NodeTypes \ Named /\ "ASSIGN" # "NULL"
      BY DEF NodeTypes, Named, Leaves
    <3>2. << Head(calls).left, value >> \in Seq(Tree)
      <4>1. PICK A, l, r : A = Tree /\ l = Head(calls).left /\ r = value /\ l \in A /\ r \in A
        BY <2>1, AtWork
      <4>2. << l, r >> \in Seq(A)
        BY <4>1
      <4> QED
        BY <4>1, <4>2
    <3>3. MentionsAll(<< Head(calls).left, value >>) = Cat(Mentions(Head(calls).left), Mentions(value))
      BY <2>1, AtWork, MentionsOfLists
    <3>4. Held(Head(calls)) = Mentions(Head(calls).left)
      BY <2>1, HeldCases
    <3> QED
      BY <2>1, <3>1, <3>2, <3>3, <3>4, AtWork, NodeInTree, MentionsOfNode
  <2> HIDE DEF v
  <2>4. Handles(<<>>, v, cursor)
    BY <2>1, <2>3, AtWork, HandlesNothing DEF Idle
  <2>5. Keeps(<<>>, v, cursor)
    BY <2>3, HoldsFew, KeepsInValue
  <2> QED
    BY <2>1, <2>2, <2>3, <2>4, <2>5, AtWork, GatheredFew DEF Serves
<1> QED
  BY <1>1, <1>2 DEF parse_assignment_expression

LEMMA OperatorsGather ==
  ASSUME PInv, PInv', Gathered, outcome = "parsing", parse_operators
  PROVE  Gathered'
BY ExpressionGathers, AssignmentGathers, TernaryGathers, OperatorGathers, RightGathers,
   UnaryGathers, OperandGathers, PrimaryGathers, ParenthesisGathers, CalleeGathers,
   ArgumentsGather DEF parse_operators

-----------------------------------------------------------------------------
\* A statement that calls another function and then goes on.
LEMMA StatementCalls ==
  ASSUME PInv, PInv', Gathered, outcome = "parsing", Head(calls).do \notin InExpression \union OuterCalls,
         NEW k \in {"expression", "statement"}, NEW y,
         y.do \in {"expression_stmt", "var_decl", "start", "end", "body", "condition", "then", "else", "return"},
         NEW c \in Places, cursor.index <= c.index,
         NEW complaint, Step(<< Call(k), y >>, Missing, c, complaint),
         ~complaint => /\ Head(calls).do \in Idle => y.do \in Idle \/ cursor.index < c.index
                       /\ Orderly(calls, cursor, value) => Keeps(<< Call(k), y >>, Missing, c)
  PROVE  Gathered'
<1>1. Call(k).do = k
  BY HoldsNothing DEF PlainCalls
<1>2. PICK x : x = Call(k)
  OBVIOUS
<1>3. ASSUME ~complaint
      PROVE  Handles(<< x, y >>, Missing, c)
  BY <1>1, <1>2, <1>3, HandlesTwo DEF Fresh, Beginning
<1> QED
  BY <1>2, <1>3, AtWork, GatheredFew DEF Serves, OuterCalls

\* A statement that is complete.
LEMMA StatementReturns ==
  ASSUME PInv, PInv', Gathered, outcome = "parsing", Head(calls).do \notin InExpression \union OuterCalls,
         NEW v \in Tree, NEW c \in Places, cursor.index <= c.index,
         NEW complaint, Step(<<>>, v, c, complaint),
         ~complaint => /\ Head(calls).do \in Idle => cursor.index < c.index
                       /\ ReadBefore(c) = ReadBefore(cursor)
                       /\ Orderly(calls, cursor, value) =>
                            Mentions(v) = Cat(Held(Head(calls)), Mentions(value))
  PROVE  Gathered'
<1>1. ASSUME ~complaint
      PROVE  Handles(<<>>, v, c)
  BY <1>1, HandlesNothing
<1>2. ASSUME ~complaint, Orderly(calls, cursor, value)
      PROVE  Keeps(<<>>, v, c)
  BY <1>2, HoldsFew, KeepsInValue
<1> QED
  BY <1>1, <1>2, GatheredFew DEF Serves, OuterCalls

\* A name after the keyword of a declaration, and what follows it.
LEMMA NameRead ==
  ASSUME TokensOk, NEW c \in Places, peek(c) \notin DOMAIN Literal \union {"EOF"},
         NEW name, name = matched(advance(c), {"IDENTIFIER"}),
         NEW after, after \notin DOMAIN Literal
  PROVE  /\ name \in Places /\ matched(name, {after}) \in Places
         /\ c.index < matched(name, {after}).index
         /\ ~is_parse_end(name) => name.current \in 0 .. Len(tokens)
         /\ current(name) = "IDENTIFIER" =>
              ReadBefore(matched(name, {after})) = Cat(ReadBefore(c), << name.current >>)
<1>1. PICK d : d = advance(c)
  OBVIOUS
<1>2. /\ d \in Places /\ d.index = c.index + 1 /\ d.current = c.index /\ ReadBefore(d) = ReadBefore(c)
      /\ c.index \in 1 .. Len(tokens) /\ Kind(c.index) = peek(c)
  BY <1>1, AdvanceFacts, AdvanceReads, SeesToken DEF peek
<1>3. name \in Places /\ d.index <= name.index /\ d.index \in Nat /\ name.index \in Nat
  BY <1>1, <1>2, MatchedMoves
<1>4. /\ matched(name, {after}) \in Places /\ name.index <= matched(name, {after}).index
      /\ matched(name, {after}).index \in Nat /\ ReadBefore(matched(name, {after})) = ReadBefore(name)
  <2>1. {after} \intersect DOMAIN Literal = {}
    OBVIOUS
  <2> QED
    BY <1>3, <2>1, MatchedMoves, MatchedReads
<1>5. c.index < matched(name, {after}).index
  BY <1>2, <1>3, <1>4
<1>6. ~is_parse_end(name) => name.current \in 0 .. Len(tokens)
  <2>1. name.current \in 0 .. End /\ Len(tokens) \in Nat /\ End = Len(tokens) + 1
    BY <1>3, KindFacts DEF Places
  <2>2. ~is_parse_end(name) => name.current # End
    BY KindFacts DEF is_parse_end, current
  <2> QED
    BY <2>1, <2>2
<1>7. ASSUME current(name) = "IDENTIFIER"
      PROVE  ReadBefore(name) = Cat(ReadBefore(c), << name.current >>)
  <2>1. CASE peek(d) = "IDENTIFIER"
    <3>1. name = advance(d) /\ peek(d) \in DOMAIN Literal /\ peek(d) # "EOF"
      BY <1>1, <2>1, LiteralFacts DEF matched, matches
    <3> QED
      BY <1>2, <3>1, AdvanceFacts, AdvanceReads
  <2>2. CASE peek(d) = "EOF"
    <3>1. name = advance(d) /\ name.current = End
      BY <1>1, <1>2, <2>2, AdvanceFacts DEF matched
    <3> QED
      BY <1>7, <3>1, KindFacts DEF current
  <2>3. CASE peek(d) # "IDENTIFIER" /\ peek(d) # "EOF"
    <3>1. name = d
      BY <1>1, <2>3 DEF matched, matches
    <3>2. current(name) = peek(c)
      BY <1>2, <3>1 DEF current
    <3> QED
      BY <1>7, <3>2, LiteralFacts
  <2> QED
    BY <2>1, <2>2, <2>3
<1> QED
  BY <1>3, <1>4, <1>5, <1>6, <1>7

\* A keyword begins a statement: nothing of it has been read.
LEMMA BeginsFacts ==
  ASSUME PInv, outcome = "parsing", NEW k \in Keywords, Begins(k)
  PROVE  /\ Head(calls).do = "statement" /\ Head(calls).do \notin InExpression \union OuterCalls
         /\ peek(cursor) = k /\ k \notin DOMAIN Literal \union {"EOF"} /\ Held(Head(calls)) = <<>>
         /\ Orderly(calls, cursor, value) => value = Missing
         /\ advance(cursor) \in Places /\ advance(cursor).index = cursor.index + 1
         /\ cursor.index < advance(cursor).index
         /\ ReadBefore(advance(cursor)) = ReadBefore(cursor)
<1>1. Head(calls).do = "statement" /\ peek(cursor) = k
  BY DEF Begins, Doing, Sees, matches
<1>2. k \notin DOMAIN Literal \union {"EOF"}
  BY LiteralFacts DEF Keywords
<1>3. Head(calls).do \notin InExpression \union OuterCalls /\ Held(Head(calls)) = <<>>
  <2>1. Held(Head(calls)) = <<>>
    BY <1>1, HeldCases DEF PlainCalls
  <2> QED
    BY <1>1, <2>1 DEF InExpression, Beginning, Passing, OuterCalls
<1>4. Orderly(calls, cursor, value) => value = Missing
  BY <1>1, AtWork DEF Fresh
<1>5. /\ advance(cursor) \in Places /\ advance(cursor).index = cursor.index + 1
      /\ ReadBefore(advance(cursor)) = ReadBefore(cursor)
  BY <1>1, <1>2, AtWork, AdvanceFacts, AdvanceReads
<1>6. cursor.index < advance(cursor).index
  BY <1>5, AtWork
<1> QED
  BY <1>1, <1>2, <1>3, <1>4, <1>5, <1>6

\* The step that declares a name.
LEMMA NameKept ==
  ASSUME PInv, outcome = "parsing", Held(Head(calls)) = <<>>, value = Missing,
         NEW at \in 0 .. Len(tokens), NEW c, ReadBefore(c) = Cat(ReadBefore(cursor), << at >>),
         NEW pending, Holds(pending, << at >>)
  PROVE  Keeps(pending, Missing, c)
<1>1. << at >> \in Seq(Nat)
  <2>1. at \in Nat
    BY AtWork
  <2> QED
    BY <2>1, OneElement
<1>2. Cat(<< at >>, Mentions(Missing)) = << at >>
  BY <1>1, AtWork, CatFacts
<1> QED
  BY <1>1, <1>2, AtWork, KeepsName

LEMMA VarDeclGathers ==
  ASSUME PInv, PInv', Gathered, outcome = "parsing", parse_var_decl_stmt
  PROVE  Gathered'
<1>1. CASE Begins("LET") /\ Declaring("EQUALS", LAMBDA n :
                              << Call("expression"), [do |-> "var_decl", at |-> n] >>)
  <2> DEFINE name == matched(advance(cursor), {"IDENTIFIER"})
             wrong == current(name) # "IDENTIFIER" \/ ~matches(name, {"EQUALS"})
             y == [do |-> "var_decl", at |-> name.current]
             c == matched(name, {"EQUALS"})
  <2>1. \/ Stop("crashed", Missing)
        \/ ~is_parse_end(name) /\ Step(<< Call("expression"), y >>, Missing, c, wrong)
    BY <1>1 DEF Declaring
  <2>2. CASE Stop("crashed", Missing)
    BY <2>2, GatheredStop
  <2>3. CASE ~is_parse_end(name) /\ Step(<< Call("expression"), y >>, Missing, c, wrong)
    <3>0. "LET" \in Keywords /\ "EQUALS" \notin DOMAIN Literal
      BY LiteralFacts DEF Keywords
    <3>1. /\ Head(calls).do \notin InExpression \union OuterCalls /\ Held(Head(calls)) = <<>>
          /\ Orderly(calls, cursor, value) => value = Missing
          /\ peek(cursor) \notin DOMAIN Literal \union {"EOF"}
      BY <1>1, <3>0, BeginsFacts
    <3>2. /\ c \in Places /\ cursor.index < c.index /\ name.current \in 0 .. Len(tokens)
          /\ ~wrong => ReadBefore(c) = Cat(ReadBefore(cursor), << name.current >>)
      BY <2>3, <3>0, <3>1, AtWork, NameRead
    <3>3. y.do = "var_decl" /\ Held(y) = << name.current >>
      <4>1. y.do = "var_decl" /\ y.at = name.current
        OBVIOUS
      <4> HIDE DEF y, name
      <4> QED
        BY <4>1, HeldCases
    <3>4. cursor.index <= c.index
      <4>1. c.index \in Nat
        BY <3>2, AtWork, KindFacts DEF Places
      <4> QED
        BY <3>2, <4>1, AtWork
    <3> HIDE DEF c, y, name, wrong
    <3>5. ASSUME ~wrong, Orderly(calls, cursor, value)
          PROVE  Keeps(<< Call("expression"), y >>, Missing, c)
      <4>1. Held(Call("expression")) = <<>>
        BY HoldsNothing DEF PlainCalls
      <4>2. Holds(<< Call("expression"), y >>, << name.current >>)
        BY <3>3, <4>1, HoldsFew
      <4> QED
        BY <3>1, <3>2, <3>5, <4>2, NameKept
    <3> QED
      BY <2>3, <3>1, <3>2, <3>3, <3>4, <3>5, StatementCalls
  <2> QED
    BY <2>1, <2>2, <2>3
<1>2. CASE /\ Doing("var_decl")
           /\ ReturnExpecting(Node("VAR_DECL", Head(calls).at, << value >>), "SEMICOLON")
  <2> DEFINE v == Node("VAR_DECL", Head(calls).at, << value >>)
             c == matched(cursor, {"SEMICOLON"})
             complaint == ~Sees({"SEMICOLON"})
  <2>1. Head(calls).do = "var_decl" /\ Head(calls).at \in 0 .. Len(tokens)
    <3>1. Head(calls).do = "var_decl"
      BY <1>2 DEF Doing
    <3>2. Head(calls) \in Inner(Len(tokens))
      BY <3>1, Working, ItemKinds DEF OuterCalls
    <3> QED
      BY <3>1, <3>2, Working, InnerFields
  <2>2. Step(<<>>, v, c, complaint)
    BY <1>2 DEF ReturnExpecting
  <2>3. v \in Tree /\ Mentions(v) = Cat(Held(Head(calls)), Mentions(value))
    <3>1. "VAR_DECL" \in NodeTypes \intersect Named
      BY DEF NodeTypes, Named, Leaves
    <3>2. << value >> \in Seq(Tree) /\ MentionsAll(<< value >>) = Mentions(value)
      BY AtWork, OneElement, MentionsOfLists
    <3>3. Held(Head(calls)) = << Head(calls).at >>
      BY <2>1, HeldCases
    <3> QED
      BY <2>1, <3>1, <3>2, <3>3, AtWork, NodeInTree, MentionsOfNode
  <2>4. c \in Places /\ cursor.index <= c.index /\ ReadBefore(c) = ReadBefore(cursor)
    <3>1. {"SEMICOLON"} \intersect DOMAIN Literal = {}
      BY LiteralFacts
    <3> QED
      BY <3>1, AtWork, MatchedMoves, MatchedReads
  <2>5. Head(calls).do \notin InExpression \union OuterCalls /\ Head(calls).do \notin Idle
    BY <2>1 DEF InExpression, Beginning, Passing, OuterCalls, Idle
  <2> HIDE DEF v, c, complaint
  <2> QED
    BY <2>2, <2>3, <2>4, <2>5, StatementReturns
<1> QED
  BY <1>1, <1>2 DEF parse_var_decl_stmt

-----------------------------------------------------------------------------
\* What the working call and the value hold goes on in the call y.
LEMMA StatementHolds ==
  ASSUME PInv, outcome = "parsing", NEW k \in {"expression", "statement"},
         NEW y, Held(y) = Cat(Held(Head(calls)), Mentions(value)),
         NEW c, ReadBefore(c) = ReadBefore(cursor)
  PROVE  Keeps(<< Call(k), y >>, Missing, c)
<1>1. Held(Call(k)) = <<>>
  BY HoldsNothing DEF PlainCalls
<1>2. Holds(<< Call(k), y >>, Held(y))
  BY <1>1, HoldsFew
<1>3. Held(y) \in Seq(Nat)
  <2>1. Held(Head(calls)) \in Seq(Nat) /\ Mentions(value) \in Seq(Nat)
    BY Working, HeldTyped, MentionsOfTrees
  <2> QED
    BY <2>1, CatFacts
<1> QED
  BY <1>2, <1>3, KeepsInCall

\* The innermost call of a statement, and what it has kept.
LEMMA InnermostFields ==
  ASSUME PInv, outcome = "parsing",
         Head(calls).do \notin {"declaration", "params"} \union OuterCalls
  PROVE  /\ Head(calls).do \in {"start", "end", "body", "fn"} => Head(calls).at \in 0 .. Len(tokens)
         /\ Head(calls).do = "end" => Head(calls).start \in Tree
         /\ Head(calls).do = "body" => Head(calls).range \in Tree
         /\ Head(calls).do = "then" => Head(calls).condition \in Tree
         /\ Head(calls).do = "else" => Head(calls).parts \in Seq(Tree)
         /\ Head(calls).do \in {"block", "stmt"} => Head(calls).list \in Seq(Tree)
         /\ Head(calls).do = "fn" => Head(calls).params \in Seq(Tree)
<1>1. Head(calls) \in Inner(Len(tokens)) /\ Len(tokens) \in Nat
  BY Working, ItemKinds
<1> QED
  BY <1>1, InnerFields DEF Tree

\* One token may be consumed that is no name.
LEMMA MatchedBeyond ==
  ASSUME PInv, outcome = "parsing", NEW k, k \notin DOMAIN Literal
  PROVE  /\ matched(cursor, {k}) \in Places /\ cursor.index <= matched(cursor, {k}).index
         /\ ReadBefore(matched(cursor, {k})) = ReadBefore(cursor)
<1>1. {k} \intersect DOMAIN Literal = {}
  OBVIOUS
<1> QED
  BY <1>1, AtWork, MatchedMoves, MatchedReads

LEMMA ForGathers ==
  ASSUME PInv, PInv', Gathered, outcome = "parsing", parse_for_stmt
  PROVE  Gathered'
<1>1. CASE Begins("FOR") /\ Declaring("IN", LAMBDA n :
                              << Call("expression"), [do |-> "start", at |-> n] >>)
  <2> DEFINE name == matched(advance(cursor), {"IDENTIFIER"})
             wrong == current(name) # "IDENTIFIER" \/ ~matches(name, {"IN"})
             y == [do |-> "start", at |-> name.current]
             c == matched(name, {"IN"})
  <2>1. \/ Stop("crashed", Missing)
        \/ ~is_parse_end(name) /\ Step(<< Call("expression"), y >>, Missing, c, wrong)
    BY <1>1 DEF Declaring
  <2>2. CASE Stop("crashed", Missing)
    BY <2>2, GatheredStop
  <2>3. CASE ~is_parse_end(name) /\ Step(<< Call("expression"), y >>, Missing, c, wrong)
    <3>0. "FOR" \in Keywords /\ "IN" \notin DOMAIN Literal
      BY LiteralFacts DEF Keywords
    <3>1. /\ Head(calls).do \notin InExpression \union OuterCalls /\ Held(Head(calls)) = <<>>
          /\ Orderly(calls, cursor, value) => value = Missing
          /\ peek(cursor) \notin DOMAIN Literal \union {"EOF"}
      BY <1>1, <3>0, BeginsFacts
    <3>2. /\ c \in Places /\ cursor.index < c.index /\ name.current \in 0 .. Len(tokens)
          /\ ~wrong => ReadBefore(c) = Cat(ReadBefore(cursor), << name.current >>)
      BY <2>3, <3>0, <3>1, AtWork, NameRead
    <3>3. y.do = "start" /\ Held(y) = << name.current >>
      <4>1. y.do = "start" /\ y.at = name.current
        OBVIOUS
      <4> HIDE DEF y, name
      <4> QED
        BY <4>1, HeldCases
    <3>4. cursor.index <= c.index
      <4>1. c.index \in Nat
        BY <3>2, AtWork, KindFacts DEF Places
      <4> QED
        BY <3>2, <4>1, AtWork
    <3> HIDE DEF c, y, name, wrong
    <3>5. ASSUME ~wrong, Orderly(calls, cursor, value)
          PROVE  Keeps(<< Call("expression"), y >>, Missing, c)
      <4>1. Held(Call("expression")) = <<>>
        BY HoldsNothing DEF PlainCalls
      <4>2. Holds(<< Call("expression"), y >>, << name.current >>)
        BY <3>3, <4>1, HoldsFew
      <4> QED
        BY <3>1, <3>2, <3>5, <4>2, NameKept
    <3> QED
      BY <2>3, <3>1, <3>2, <3>3, <3>4, <3>5, StatementCalls
  <2> QED
    BY <2>1, <2>2, <2>3
<1>2. CASE /\ Doing("start")
           /\ Step(<< Call("expression"), [do |-> "end", at |-> Head(calls).at, start |-> value] >>,
                   Missing, matched(cursor, {"DOTDOT"}), ~Sees({"DOTDOT"}))
  <2> DEFINE y == [do |-> "end", at |-> Head(calls).at, start |-> value]
             c == matched(cursor, {"DOTDOT"})
             complaint == ~Sees({"DOTDOT"})
  <2>1. /\ Head(calls).do = "start" /\ Held(Head(calls)) = << Head(calls).at >>
        /\ Head(calls).do \notin InExpression \union OuterCalls /\ Head(calls).do \notin Idle
    BY <1>2, HeldCases DEF Doing, InExpression, Beginning, Passing, OuterCalls, Idle
  <2>2. y.do = "end" /\ Held(y) = Cat(Held(Head(calls)), Mentions(value))
    <3>1. y.do = "end" /\ y.at = Head(calls).at /\ y.start = value
      OBVIOUS
    <3> HIDE DEF y
    <3> QED
      BY <2>1, <3>1, HeldCases
  <2>3. c \in Places /\ cursor.index <= c.index /\ ReadBefore(c) = ReadBefore(cursor)
    BY LiteralFacts, MatchedBeyond
  <2>4. Step(<< Call("expression"), y >>, Missing, c, complaint)
    BY <1>2
  <2> HIDE DEF y, c, complaint
  <2> QED
    BY <2>1, <2>2, <2>3, <2>4, StatementHolds, StatementCalls
<1>3. CASE /\ Doing("end")
           /\ Go(<< Call("statement"),
                    [do |-> "body", at |-> Head(calls).at,
                     range |-> Node("RANGE", 0, << Head(calls).start, value >>)] >>, cursor)
  <2> DEFINE node == Node("RANGE", 0, << Head(calls).start, value >>)
             y == [do |-> "body", at |-> Head(calls).at, range |-> node]
  <2>1. /\ Head(calls).do = "end" /\ Held(Head(calls)) = Cat(<< Head(calls).at >>, Mentions(Head(calls).start))
        /\ Head(calls).do \notin InExpression \union OuterCalls /\ Head(calls).do \notin Idle
    BY <1>3, HeldCases DEF Doing, InExpression, Beginning, Passing, OuterCalls, Idle
  <2>2. Head(calls).at \in 0 .. Len(tokens) /\ Head(calls).start \in Tree
    BY <2>1, InnermostFields DEF OuterCalls
  <2>3. Mentions(node) = Cat(Mentions(Head(calls).start), Mentions(value))
    <3>1. "RANGE" \in NodeTypes \ Named /\ 0 \in 0 .. Len(tokens)
      BY AtWork DEF NodeTypes, Named, Leaves
    <3>2. PICK A, l, r : A = Tree /\ l = Head(calls).start /\ r = value /\ l \in A /\ r \in A
      BY <2>2, AtWork
    <3>3. << l, r >> \in Seq(A)
      BY <3>2
    <3>4. MentionsAll(<< l, r >>) = Cat(Mentions(l), Mentions(r))
      BY <3>2, AtWork, MentionsOfLists
    <3> QED
      BY <3>1, <3>2, <3>3, <3>4, AtWork, MentionsOfNode
  <2>4. y.do = "body" /\ Held(y) = Cat(<< Head(calls).at >>, Mentions(node))
    <3>1. y.do = "body" /\ y.at = Head(calls).at /\ y.range = node
      OBVIOUS
    <3> HIDE DEF y, node
    <3> QED
      BY <3>1, HeldCases
  <2> HIDE DEF node
  <2>5. Held(y) = Cat(Held(Head(calls)), Mentions(value))
    <3>1. << Head(calls).at >> \in Seq(Nat)
      <4>1. Head(calls).at \in Nat
        BY <2>2, AtWork
      <4> QED
        BY <4>1, OneElement
    <3>2. PICK h, m, w : h = << Head(calls).at >> /\ m = Mentions(Head(calls).start) /\ w = Mentions(value)
      OBVIOUS
    <3>3. h \in Seq(Nat) /\ m \in Seq(Nat) /\ w \in Seq(Nat)
      BY <2>2, <3>1, <3>2, AtWork, MentionsOfTrees
    <3>4. Cat(Cat(h, m), w) = Cat(h, Cat(m, w))
      BY <3>3, CatAssociative
    <3> HIDE DEF y
    <3> QED
      BY <2>1, <2>3, <2>4, <3>2, <3>4
  <2>6. Step(<< Call("statement"), y >>, Missing, cursor, FALSE)
    BY <1>3 DEF Go, node
  <2>7. cursor \in Places /\ cursor.index <= cursor.index
    BY AtWork
  <2> HIDE DEF y
  <2>8. Keeps(<< Call("statement"), y >>, Missing, cursor)
    BY <2>5, StatementHolds
  <2>9. PICK complaint : ~complaint /\ Step(<< Call("statement"), y >>, Missing, cursor, complaint)
    BY <2>6
  <2> QED
    BY <2>1, <2>4, <2>7, <2>8, <2>9, StatementCalls
<1>4. CASE /\ Doing("body")
           /\ Step(<<>>, IF value = Missing THEN Missing
                         ELSE Node("FOR", Head(calls).at, << Head(calls).range, value >>),
                   cursor, value = Missing)
  <2> DEFINE node == Node("FOR", Head(calls).at, << Head(calls).range, value >>)
             v == IF value = Missing THEN Missing ELSE node
             complaint == value = Missing
  <2>1. /\ Head(calls).do = "body" /\ Held(Head(calls)) = Cat(<< Head(calls).at >>, Mentions(Head(calls).range))
        /\ Head(calls).do \notin InExpression \union OuterCalls /\ Head(calls).do \notin Idle
    BY <1>4, HeldCases DEF Doing, InExpression, Beginning, Passing, OuterCalls, Idle
  <2>2. Head(calls).at \in 0 .. Len(tokens) /\ Head(calls).range \in Tree
    BY <2>1, InnermostFields DEF OuterCalls
  <2>3. /\ node \in Tree
        /\ Mentions(node) = Cat(<< Head(calls).at >>, Cat(Mentions(Head(calls).range), Mentions(value)))
    <3>1. "FOR" \in NodeTypes \intersect Named
      BY DEF NodeTypes, Named, Leaves
    <3>2. PICK A, l, r : A = Tree /\ l = Head(calls).range /\ r = value /\ l \in A /\ r \in A
      BY <2>2, AtWork
    <3>3. << l, r >> \in Seq(A)
      BY <3>2
    <3>4. MentionsAll(<< l, r >>) = Cat(Mentions(l), Mentions(r))
      BY <3>2, AtWork, MentionsOfLists
    <3>5. PICK at : at = Head(calls).at /\ at \in 0 .. Len(tokens)
      BY <2>2
    <3>6. node = Node("FOR", at, << l, r >>)
      BY <3>2, <3>5
    <3> HIDE DEF node
    <3>7. node \in Tree
      BY <3>1, <3>2, <3>3, <3>5, <3>6, AtWork, NodeInTree
    <3>8. Mentions(node) = Cat(<< at >>, MentionsAll(<< l, r >>))
      BY <3>1, <3>2, <3>3, <3>5, <3>6, AtWork, MentionsOfNode
    <3> QED
      BY <3>2, <3>4, <3>5, <3>7, <3>8
  <2> HIDE DEF node
  <2>4. Mentions(node) = Cat(Held(Head(calls)), Mentions(value))
    <3>1. << Head(calls).at >> \in Seq(Nat)
      <4>1. Head(calls).at \in Nat
        BY <2>2, AtWork
      <4> QED
        BY <4>1, OneElement
    <3>2. PICK h, m, w : h = << Head(calls).at >> /\ m = Mentions(Head(calls).range) /\ w = Mentions(value)
      OBVIOUS
    <3>3. h \in Seq(Nat) /\ m \in Seq(Nat) /\ w \in Seq(Nat)
      BY <2>2, <3>1, <3>2, AtWork, MentionsOfTrees
    <3>4. Cat(Cat(h, m), w) = Cat(h, Cat(m, w))
      BY <3>3, CatAssociative
    <3> QED
      BY <2>1, <2>3, <3>2, <3>4
  <2>5. v \in Tree /\ (~complaint => v = node)
    BY <2>3, AtWork
  <2>6. Step(<<>>, v, cursor, complaint)
    BY <1>4 DEF node
  <2>7. cursor \in Places /\ cursor.index <= cursor.index
    BY AtWork
  <2> HIDE DEF v, complaint
  <2> QED
    BY <2>1, <2>4, <2>5, <2>6, <2>7, StatementReturns
<1> QED
  BY <1>1, <1>2, <1>3, <1>4 DEF parse_for_stmt

LEMMA IfGathers ==
  ASSUME PInv, PInv', Gathered, outcome = "parsing", parse_if_stmt
  PROVE  Gathered'
<1>1. CASE Begins("IF") /\ Go(<< Call("expression"), Call("condition") >>, advance(cursor))
  <2> DEFINE y == Call("condition")
             c == advance(cursor)
  <2>1. Step(<< Call("expression"), y >>, Missing, c, FALSE)
    BY <1>1 DEF Go
  <2>2. "IF" \in Keywords
    BY DEF Keywords
  <2>3. y.do = "condition" /\ Held(y) = <<>>
    BY HoldsNothing DEF PlainCalls
  <2>4. /\ Head(calls).do \notin InExpression \union OuterCalls /\ Held(Head(calls)) = <<>>
        /\ Orderly(calls, cursor, value) => value = Missing
        /\ c \in Places /\ cursor.index < c.index /\ c.index = cursor.index + 1
        /\ ReadBefore(c) = ReadBefore(cursor)
    BY <1>1, <2>2, BeginsFacts
  <2>5. cursor.index <= c.index
    BY <2>4, AtWork
  <2> HIDE DEF y, c
  <2>6. ASSUME Orderly(calls, cursor, value)
        PROVE  Keeps(<< Call("expression"), y >>, Missing, c)
    BY <2>3, <2>4, <2>6, AtWork, StatementHolds
  <2>7. PICK complaint : ~complaint /\ Step(<< Call("expression"), y >>, Missing, c, complaint)
    BY <2>1
  <2> QED
    BY <2>3, <2>4, <2>5, <2>6, <2>7, StatementCalls
<1>2. CASE /\ Doing("condition")
           /\ IF value = Missing THEN Step(<<>>, Missing, cursor, TRUE)
              ELSE Go(<< Call("statement"), [do |-> "then", condition |-> value] >>, cursor)
  <2>1. /\ Head(calls).do = "condition" /\ Held(Head(calls)) = <<>>
        /\ Head(calls).do \notin InExpression \union OuterCalls /\ Head(calls).do \notin Idle
    <3>1. Head(calls).do = "condition"
      BY <1>2 DEF Doing
    <3>2. Held(Head(calls)) = <<>>
      BY <3>1, HeldCases DEF PlainCalls
    <3> QED
      BY <3>1, <3>2 DEF InExpression, Beginning, Passing, OuterCalls, Idle
  <2>2. cursor \in Places /\ cursor.index <= cursor.index
    BY AtWork
  <2>3. CASE Step(<<>>, Missing, cursor, TRUE)
    BY <2>1, <2>2, <2>3, AtWork, StatementReturns
  <2>4. CASE Go(<< Call("statement"), [do |-> "then", condition |-> value] >>, cursor)
    <3> DEFINE y == [do |-> "then", condition |-> value]
    <3>1. Step(<< Call("statement"), y >>, Missing, cursor, FALSE)
      BY <2>4 DEF Go
    <3>2. y.do = "then" /\ Held(y) = Mentions(value)
      <4>1. y.do = "then" /\ y.condition = value
        OBVIOUS
      <4> HIDE DEF y
      <4> QED
        BY <4>1, HeldCases
    <3> HIDE DEF y
    <3>3. Keeps(<< Call("statement"), y >>, Missing, cursor)
      BY <2>1, <3>2, AtWork, StatementHolds
    <3>4. PICK complaint : ~complaint /\ Step(<< Call("statement"), y >>, Missing, cursor, complaint)
      BY <3>1
    <3> QED
      BY <2>1, <2>2, <3>2, <3>3, <3>4, StatementCalls
  <2> QED
    BY <1>2, <2>3, <2>4
<1>3. CASE /\ Doing("then")
           /\ LET c == matched(cursor, {"ELSE"})
                  parts == << Head(calls).condition, value >>
              IN IF Sees({"ELSE"})
                 THEN Step(<< Call("statement"), [do |-> "else", parts |-> parts] >>,
                           Missing, c, value = Missing)
                 ELSE Step(<<>>, Node("IF", 0, Append(parts, Missing)), c, value = Missing)
  <2> DEFINE c == matched(cursor, {"ELSE"})
             parts == << Head(calls).condition, value >>
             complaint == value = Missing
  <2>1. /\ Head(calls).do = "then" /\ Held(Head(calls)) = Mentions(Head(calls).condition)
        /\ Head(calls).do \notin InExpression \union OuterCalls /\ Head(calls).do \notin Idle
    BY <1>3, HeldCases DEF Doing, InExpression, Beginning, Passing, OuterCalls, Idle
  <2>2. Head(calls).condition \in Tree
    BY <2>1, InnermostFields DEF OuterCalls
  <2>3. parts \in Seq(Tree) /\ MentionsAll(parts) = Cat(Held(Head(calls)), Mentions(value))
    <3>1. PICK A, l, r : A = Tree /\ l = Head(calls).condition /\ r = value /\ l \in A /\ r \in A
      BY <2>2, AtWork
    <3>2. << l, r >> \in Seq(A)
      BY <3>1
    <3>3. MentionsAll(<< l, r >>) = Cat(Mentions(l), Mentions(r))
      BY <3>1, AtWork, MentionsOfLists
    <3> QED
      BY <2>1, <3>1, <3>2, <3>3
  <2>4. c \in Places /\ cursor.index <= c.index /\ ReadBefore(c) = ReadBefore(cursor)
    BY LiteralFacts, MatchedBeyond
  <2>5. CASE Sees({"ELSE"})
    <3> DEFINE y == [do |-> "else", parts |-> parts]
    <3>1. Step(<< Call("statement"), y >>, Missing, c, complaint)
      BY <1>3, <2>5
    <3>2. y.do = "else" /\ Held(y) = MentionsAll(parts)
      <4>1. y.do = "else" /\ y.parts = parts
        OBVIOUS
      <4> HIDE DEF y, parts
      <4> QED
        BY <4>1, HeldCases
    <3> HIDE DEF y, parts, c, complaint
    <3> QED
      BY <2>1, <2>3, <2>4, <3>1, <3>2, StatementHolds, StatementCalls
  <2>6. CASE ~Sees({"ELSE"})
    <3> DEFINE v == Node("IF", 0, Append(parts, Missing))
    <3>1. Step(<<>>, v, c, complaint)
      BY <1>3, <2>6
    <3> HIDE DEF parts
    <3>2. v \in Tree /\ Mentions(v) = Cat(Held(Head(calls)), Mentions(value))
      <4>1. Append(parts, Missing) \in Seq(Tree)
        BY <2>3, AtWork, AppendProperties
      <4>2. MentionsAll(Append(parts, Missing)) = MentionsAll(parts)
        <5>1. MentionsAll(Append(parts, Missing)) = Cat(MentionsAll(parts), Mentions(Missing))
          BY <2>3, AtWork, MentionsOfLists
        <5>2. MentionsAll(parts) \in Seq(Nat)
          BY <2>3, AtWork, MentionsOfTrees
        <5> QED
          BY <5>1, <5>2, AtWork, CatFacts
      <4>3. "IF" \in NodeTypes \ Named /\ 0 \in 0 .. Len(tokens)
        BY AtWork DEF NodeTypes, Named, Leaves
      <4> QED
        BY <2>3, <4>1, <4>2, <4>3, AtWork, NodeInTree, MentionsOfNode
    <3> HIDE DEF v, c, complaint
    <3> QED
      BY <2>1, <2>4, <3>1, <3>2, StatementReturns
  <2> QED
    BY <2>5, <2>6
<1>4. CASE Doing("else") /\ Return(Node("IF", 0, Append(Head(calls).parts, value)), cursor)
  <2> DEFINE parts == Head(calls).parts
             v == Node("IF", 0, Append(parts, value))
  <2>1. /\ Head(calls).do = "else" /\ Held(Head(calls)) = MentionsAll(Head(calls).parts)
        /\ Head(calls).do \notin InExpression \union OuterCalls /\ Head(calls).do \notin Idle
    BY <1>4, HeldCases DEF Doing, InExpression, Beginning, Passing, OuterCalls, Idle
  <2>2. parts \in Seq(Tree)
    BY <2>1, InnermostFields DEF OuterCalls
  <2>3. v \in Tree /\ Mentions(v) = Cat(Held(Head(calls)), Mentions(value))
    <3> HIDE DEF parts
    <3>1. Append(parts, value) \in Seq(Tree)
      BY <2>2, AtWork, AppendProperties
    <3>2. MentionsAll(Append(parts, value)) = Cat(MentionsAll(parts), Mentions(value))
      BY <2>2, AtWork, MentionsOfLists
    <3>3. "IF" \in NodeTypes \ Named /\ 0 \in 0 .. Len(tokens)
      BY AtWork DEF NodeTypes, Named, Leaves
    <3>4. Held(Head(calls)) = MentionsAll(parts)
      BY <2>1 DEF parts
    <3> QED
      BY <3>1, <3>2, <3>3, <3>4, AtWork, NodeInTree, MentionsOfNode
  <2>4. Step(<<>>, v, cursor, FALSE)
    BY <1>4 DEF Return
  <2>5. cursor \in Places /\ cursor.index <= cursor.index
    BY AtWork
  <2> HIDE DEF v
  <2> QED
    BY <2>1, <2>3, <2>4, <2>5, StatementReturns
<1> QED
  BY <1>1, <1>2, <1>3, <1>4 DEF parse_if_stmt

LEMMA JumpGathers ==
  ASSUME PInv, PInv', Gathered, outcome = "parsing", parse_loop_stmt \/ parse_break_stmt
  PROVE  Gathered'
<1>1. ASSUME NEW k \in Keywords, Begins(k), NEW v \in Tree, Mentions(v) = <<>>, Return(v, advance(cursor))
      PROVE  Gathered'
  <2> DEFINE c == advance(cursor)
  <2>1. PICK complaint : ~complaint /\ Step(<<>>, v, c, complaint)
    BY <1>1 DEF Return
  <2>2. /\ Head(calls).do \notin InExpression \union OuterCalls /\ Held(Head(calls)) = <<>>
        /\ Orderly(calls, cursor, value) => value = Missing
        /\ c \in Places /\ cursor.index < c.index /\ c.index = cursor.index + 1
        /\ ReadBefore(c) = ReadBefore(cursor)
    BY <1>1, BeginsFacts
  <2>3. cursor.index <= c.index
    BY <2>2, AtWork
  <2> HIDE DEF c
  <2>4. ASSUME Orderly(calls, cursor, value)
        PROVE  Mentions(v) = Cat(Held(Head(calls)), Mentions(value))
    BY <1>1, <2>2, <2>4, AtWork
  <2> QED
    BY <2>1, <2>2, <2>3, <2>4, StatementReturns
<1>2. CASE parse_loop_stmt
  BY <1>1, <1>2, AtWork DEF parse_loop_stmt, Keywords
<1>3. CASE parse_break_stmt
  <2>1. "BREAK" \in NodeTypes \ Named /\ 0 \in 0 .. Len(tokens)
    BY AtWork DEF NodeTypes, Named, Leaves
  <2>2. PICK v : v = Leaf("BREAK", 0)
    OBVIOUS
  <2>3. v \in Tree /\ Mentions(v) = <<>>
    <3>1. <<>> \in Seq(Tree)
      BY EmptySeq
    <3> QED
      BY <2>1, <2>2, <3>1, AtWork, NodeInTree, MentionsOfLeaf DEF Leaf
  <2> QED
    BY <1>1, <1>3, <2>2, <2>3 DEF parse_break_stmt, Keywords
<1> QED
  BY <1>2, <1>3

\* A statement around one expression, up to the semicolon.
LEMMA AroundOne ==
  ASSUME PInv, PInv', Gathered, outcome = "parsing", Held(Head(calls)) = <<>>,
         Head(calls).do \notin InExpression \union OuterCalls,
         NEW type \in NodeTypes \ (Named \union {"NULL"}),
         ReturnExpecting(Node(type, 0, << value >>), "SEMICOLON")
  PROVE  Gathered'
<1> DEFINE v == Node(type, 0, << value >>)
           c == matched(cursor, {"SEMICOLON"})
           complaint == ~Sees({"SEMICOLON"})
<1>1. Step(<<>>, v, c, complaint)
  BY DEF ReturnExpecting
<1>2. v \in Tree /\ Mentions(v) = Mentions(value)
  <2>1. << value >> \in Seq(Tree) /\ MentionsAll(<< value >>) = Mentions(value) /\ 0 \in 0 .. Len(tokens)
    BY AtWork, OneElement, MentionsOfLists
  <2> QED
    BY <2>1, AtWork, NodeInTree, MentionsOfNode
<1>3. c \in Places /\ cursor.index <= c.index /\ ReadBefore(c) = ReadBefore(cursor)
  BY LiteralFacts, MatchedBeyond
<1>4. ASSUME ~complaint
      PROVE  cursor.index < c.index
  <2>1. c.index = cursor.index + 1
    BY <1>4, AtWork, MatchedMoves DEF Sees
  <2> HIDE DEF c
  <2> QED
    BY <2>1, AtWork
<1> HIDE DEF v, c, complaint
<1>5. Mentions(v) = Cat(Held(Head(calls)), Mentions(value))
  BY <1>2, AtWork
<1> QED
  BY <1>1, <1>2, <1>3, <1>4, <1>5, StatementReturns

LEMMA ReturnGathers ==
  ASSUME PInv, PInv', Gathered, outcome = "parsing", parse_return_stmt
  PROVE  Gathered'
<1>1. CASE Begins("RETURN") /\ Go(<< Call("expression"), Call("return") >>, advance(cursor))
  <2> DEFINE y == Call("return")
             c == advance(cursor)
  <2>1. PICK complaint : ~complaint /\ Step(<< Call("expression"), y >>, Missing, c, complaint)
    BY <1>1 DEF Go
  <2>2. "RETURN" \in Keywords
    BY DEF Keywords
  <2>3. y.do = "return" /\ Held(y) = <<>>
    BY HoldsNothing DEF PlainCalls
  <2>4. /\ Head(calls).do \notin InExpression \union OuterCalls /\ Held(Head(calls)) = <<>>
        /\ Orderly(calls, cursor, value) => value = Missing
        /\ c \in Places /\ cursor.index < c.index /\ c.index = cursor.index + 1
        /\ ReadBefore(c) = ReadBefore(cursor)
    BY <1>1, <2>2, BeginsFacts
  <2>5. cursor.index <= c.index
    BY <2>4, AtWork
  <2> HIDE DEF y, c
  <2>6. ASSUME Orderly(calls, cursor, value)
        PROVE  Keeps(<< Call("expression"), y >>, Missing, c)
    BY <2>3, <2>4, <2>6, AtWork, StatementHolds
  <2> QED
    BY <2>1, <2>3, <2>4, <2>5, <2>6, StatementCalls
<1>2. CASE Doing("return") /\ ReturnExpecting(Node("RETURN", 0, << value >>), "SEMICOLON")
  <2>1. Head(calls).do = "return"
    BY <1>2 DEF Doing
  <2>2. Held(Head(calls)) = <<>> /\ Head(calls).do \notin InExpression \union OuterCalls
    BY <2>1, HeldCases DEF PlainCalls, InExpression, Beginning, Passing, OuterCalls
  <2>3. "RETURN" \in NodeTypes \ (Named \union {"NULL"})
    BY DEF NodeTypes, Named, Leaves
  <2> QED
    BY <1>2, <2>2, <2>3, AroundOne
<1> QED
  BY <1>1, <1>2 DEF parse_return_stmt

LEMMA ExpressionStatementGathers ==
  ASSUME PInv, PInv', Gathered, outcome = "parsing", parse_expression_stmt
  PROVE  Gathered'
<1>1. CASE /\ Doing("statement") /\ ~Sees(Keywords)
           /\ Go(<< Call("expression"), Call("expression_stmt") >>, matched(cursor, Keywords))
  <2> DEFINE y == Call("expression_stmt")
             c == matched(cursor, Keywords)
  <2>1. PICK complaint : ~complaint /\ Step(<< Call("expression"), y >>, Missing, c, complaint)
    BY <1>1 DEF Go
  <2>2. y.do = "expression_stmt" /\ Held(y) = <<>>
    BY HoldsNothing DEF PlainCalls
  <2>3. Head(calls).do = "statement" /\ Held(Head(calls)) = <<>>
    <3>1. Head(calls).do = "statement"
      BY <1>1 DEF Doing
    <3> QED
      BY <3>1, HeldCases DEF PlainCalls
  <2>4. c \in Places /\ c.index = cursor.index
    BY <1>1, AtWork, MatchedMoves DEF Sees
  <2>5. ReadBefore(c) = ReadBefore(cursor) /\ cursor.index <= c.index
    BY <2>4, AtWork DEF ReadBefore
  <2>6. y.do \in Idle /\ Head(calls).do \notin InExpression \union OuterCalls
    BY <2>2, <2>3 DEF Idle, InExpression, Beginning, Passing, OuterCalls
  <2> HIDE DEF y, c
  <2>7. ASSUME Orderly(calls, cursor, value)
        PROVE  Keeps(<< Call("expression"), y >>, Missing, c)
    <3>1. value = Missing
      BY <2>3, <2>7, AtWork DEF Fresh
    <3> QED
      BY <2>2, <2>3, <2>5, <3>1, AtWork, StatementHolds
  <2> QED
    BY <2>1, <2>2, <2>4, <2>5, <2>6, <2>7, StatementCalls
<1>2. CASE /\ Doing("expression_stmt")
           /\ ReturnExpecting(Node("EXPRESSION_STMT", 0, << value >>), "SEMICOLON")
  <2>1. Head(calls).do = "expression_stmt"
    BY <1>2 DEF Doing
  <2>2. Held(Head(calls)) = <<>> /\ Head(calls).do \notin InExpression \union OuterCalls
    BY <2>1, HeldCases DEF PlainCalls, InExpression, Beginning, Passing, OuterCalls
  <2>3. "EXPRESSION_STMT" \in NodeTypes \ (Named \union {"NULL"})
    BY DEF NodeTypes, Named, Leaves
  <2> QED
    BY <1>2, <2>2, <2>3, AroundOne
<1> QED
  BY <1>1, <1>2 DEF parse_expression_stmt

\* There is room for one more statement: it has read a token.
LEMMA RoomLeft ==
  ASSUME PInv, outcome = "parsing", Orderly(calls, cursor, value),
         Head(calls).do \in {"stmt", "decl"}, NEW list, list = Head(calls).list
  PROVE  /\ Appended(list, value) \in Seq(Tree)
         /\ Len(Appended(list, value)) <= cursor.index - 1
         /\ MentionsAll(Appended(list, value)) = Cat(Held(Head(calls)), Mentions(value))
<1>1. list \in Seq(Tree) /\ Len(list) \in Nat /\ Held(Head(calls)) = MentionsAll(list)
  BY ListLengths, HeldCases
<1>2. Len(list) < cursor.index - 1
  <2>1. Roomy(calls, 1, cursor) /\ Head(calls) = calls[1]
    BY ListLengths DEF Orderly, Rooms
  <2> QED
    BY <2>1 DEF Roomy
<1>3. Len(list) < MaxStatements
  <2>1. cursor.index \in 1 .. End /\ End \in Nat
    BY AtWork, KindFacts DEF Places
  <2> QED
    BY <1>1, <1>2, <2>1 DEF MaxStatements
<1>4. Appended(list, value) = Append(list, value)
  BY <1>3 DEF Appended
<1>5. Append(list, value) \in Seq(Tree) /\ Len(Append(list, value)) = Len(list) + 1
  BY <1>1, AtWork, AppendProperties
<1>6. Len(list) + 1 <= cursor.index - 1
  BY <1>1, <1>2, AtWork
<1>7. MentionsAll(Append(list, value)) = Cat(MentionsAll(list), Mentions(value))
  BY <1>1, AtWork, MentionsOfLists
<1> QED
  BY <1>1, <1>4, <1>5, <1>6, <1>7

LEMMA BlockGathers ==
  ASSUME PInv, PInv', Gathered, outcome = "parsing", parse_block_stmt
  PROVE  Gathered'
<1>1. CASE Begins("LBRACE") /\ Go(<< Block(<<>>) >>, advance(cursor))
  <2> DEFINE x == Block(<<>>)
             c == advance(cursor)
  <2>1. PICK complaint : ~complaint /\ Step(<< x >>, Missing, c, complaint)
    BY <1>1 DEF Go
  <2>2. x.do = "block" /\ x.list = <<>> /\ Len(x.list) = 0
    BY DEF Block
  <2>3. /\ Head(calls).do = "statement"
        /\ Head(calls).do \notin InExpression \union OuterCalls /\ Held(Head(calls)) = <<>>
        /\ Orderly(calls, cursor, value) => value = Missing
        /\ c \in Places /\ cursor.index < c.index /\ c.index = cursor.index + 1
        /\ ReadBefore(c) = ReadBefore(cursor)
    <3>1. "LBRACE" \in Keywords
      BY DEF Keywords
    <3> QED
      BY <1>1, <3>1, BeginsFacts
  <2> HIDE DEF x, c
  <2>4. cursor.index <= c.index /\ 0 <= c.index - 1
    BY <2>3, AtWork
  <2>5. Held(x) = <<>>
    BY <2>2, AtWork, HeldCases, MentionsOfLists
  <2>6. Handles(<< x >>, Missing, c)
    BY <2>2, <2>3, <2>4, HandlesOne
  <2>7. ASSUME Orderly(calls, cursor, value)
        PROVE  Keeps(<< x >>, Missing, c)
    <3>1. Holds(<< x >>, <<>>)
      BY <2>5, HoldsFew
    <3> QED
      BY <2>3, <2>7, <3>1, AtWork, KeepsInCall
  <2> QED
    BY <2>1, <2>3, <2>6, <2>7, AtWork, GatheredFew DEF Serves
<1>2. CASE Doing("block")
  <2> DEFINE list == Head(calls).list
             c == IF is_parse_end(cursor) THEN cursor ELSE matched(cursor, {"RBRACE"})
  <2>1. /\ Head(calls).do = "block" /\ Held(Head(calls)) = MentionsAll(list)
        /\ Head(calls).do \notin InExpression \union OuterCalls /\ Head(calls).do \notin Idle
    <3>1. Head(calls).do = "block"
      BY <1>2 DEF Doing
    <3> QED
      BY <3>1, HeldCases DEF InExpression, Beginning, Passing, OuterCalls, Idle
  <2>2. list \in Seq(Tree)
    BY <2>1, InnermostFields DEF OuterCalls
  <2>3. Orderly(calls, cursor, value) => value = Missing
    BY <2>1, AtWork DEF Fresh
  <2>4. c \in Places /\ cursor.index <= c.index /\ ReadBefore(c) = ReadBefore(cursor)
    <3>1. CASE is_parse_end(cursor)
      BY <3>1, AtWork
    <3>2. CASE ~is_parse_end(cursor)
      <4>1. PICK d : d = matched(cursor, {"RBRACE"})
        OBVIOUS
      <4>2. d \in Places /\ cursor.index <= d.index /\ ReadBefore(d) = ReadBefore(cursor)
        BY <4>1, LiteralFacts, MatchedBeyond
      <4> QED
        BY <3>2, <4>1, <4>2
    <3> QED
      BY <3>1, <3>2
  <2>5. CASE is_parse_end(cursor)
    <3>1. PICK complaint : complaint /\ Step(<<>>, Missing, cursor, complaint)
      BY <2>1, <2>5, parse_block_stmt DEF parse_block_stmt, Begins, Doing
    <3>2. cursor \in Places /\ cursor.index <= cursor.index
      BY AtWork
    <3> QED
      BY <2>1, <3>1, <3>2, AtWork, StatementReturns
  <2>6. CASE ~is_parse_end(cursor) /\ Sees({"RBRACE"})
    <3> DEFINE v == Node("BLOCK", 0, list)
    <3>1. Return(v, c)
      BY <2>1, <2>6, parse_block_stmt DEF parse_block_stmt, Begins, Doing
    <3>2. PICK complaint : ~complaint /\ Step(<<>>, v, c, complaint)
      BY <3>1 DEF Return
    <3> HIDE DEF list
    <3>3. v \in Tree /\ Mentions(v) = MentionsAll(list)
      <4>1. "BLOCK" \in NodeTypes \ Named /\ 0 \in 0 .. Len(tokens)
        BY AtWork DEF NodeTypes, Named, Leaves
      <4> QED
        BY <2>2, <4>1, AtWork, NodeInTree, MentionsOfNode
    <3> HIDE DEF v, c
    <3>4. ASSUME Orderly(calls, cursor, value)
          PROVE  Mentions(v) = Cat(Held(Head(calls)), Mentions(value))
      <4>1. MentionsAll(list) \in Seq(Nat)
        BY <2>2, AtWork, MentionsOfTrees
      <4> QED
        BY <2>1, <2>3, <3>3, <3>4, <4>1, AtWork, CatFacts
    <3> QED
      BY <2>1, <2>4, <3>2, <3>3, <3>4, StatementReturns
  <2>7. CASE ~is_parse_end(cursor) /\ ~Sees({"RBRACE"})
    <3> DEFINE y == [do |-> "stmt", list |-> list]
               x == Call("statement")
    <3>1. Go(<< x, y >>, c)
      BY <2>1, <2>7, parse_block_stmt DEF parse_block_stmt, Begins, Doing
    <3>2. PICK complaint : ~complaint /\ Step(<< x, y >>, Missing, c, complaint)
      BY <3>1 DEF Go
    <3>3. y.do = "stmt" /\ y.list = list /\ Held(y) = MentionsAll(list)
      <4>1. y.do = "stmt" /\ y.list = list
        OBVIOUS
      <4> HIDE DEF y, list
      <4> QED
        BY <4>1, HeldCases
    <3>4. x.do = "statement" /\ Held(x) = <<>>
      BY HoldsNothing DEF PlainCalls
    <3> HIDE DEF x, y, c
    <3>5. ASSUME Orderly(calls, cursor, value)
          PROVE  Handles(<< x, y >>, Missing, c)
      <4>1. Len(list) \in Nat /\ Len(list) <= cursor.index - 1
        <5>1. Roomy(calls, 1, cursor) /\ Head(calls) = calls[1]
          BY <3>5, ListLengths DEF Orderly, Rooms
        <5> QED
          BY <2>1, <5>1, ListLengths DEF Roomy
      <4>2. Len(y.list) <= c.index - 1
        <5>1. c.index \in Nat
          BY <2>4, AtWork, KindFacts DEF Places
        <5> QED
          BY <2>4, <3>3, <4>1, <5>1, AtWork
      <4>3. y.do \notin Fresh \union {"right", "true_expr", "false_expr"} /\ x.do \in Idle
        BY <3>3, <3>4 DEF Fresh, Beginning, Idle
      <4> QED
        BY <2>1, <2>4, <3>3, <3>4, <4>2, <4>3, HandlesTwo
    <3>6. ASSUME Orderly(calls, cursor, value)
          PROVE  Keeps(<< x, y >>, Missing, c)
      <4>1. Holds(<< x, y >>, Held(y))
        BY <3>4, HoldsFew
      <4>2. MentionsAll(list) \in Seq(Nat)
        BY <2>2, AtWork, MentionsOfTrees
      <4>3. Held(y) \in Seq(Nat) /\ Held(y) = Cat(Held(Head(calls)), Mentions(value))
        BY <2>1, <2>3, <3>3, <3>6, <4>2, AtWork, CatFacts
      <4> QED
        BY <2>4, <4>1, <4>3, KeepsInCall
    <3> QED
      BY <2>1, <2>4, <3>2, <3>5, <3>6, AtWork, GatheredFew DEF Serves
  <2> QED
    BY <2>5, <2>6, <2>7
<1>3. CASE Doing("stmt") /\ Go(<< Block(Appended(Head(calls).list, value)) >>, cursor)
  <2> DEFINE list == Appended(Head(calls).list, value)
             x == Block(list)
  <2>1. PICK complaint : ~complaint /\ Step(<< x >>, Missing, cursor, complaint)
    BY <1>3 DEF Go
  <2>2. x.do = "block" /\ x.list = list
    BY DEF Block
  <2>3. /\ Head(calls).do = "stmt" /\ Head(calls).do \notin InExpression \union OuterCalls
        /\ Head(calls).do \notin Idle
    BY <1>3 DEF Doing, InExpression, Beginning, Passing, OuterCalls, Idle
  <2>4. cursor \in Places /\ cursor.index <= cursor.index
    BY AtWork
  <2>5. ASSUME Orderly(calls, cursor, value)
        PROVE  /\ list \in Seq(Tree) /\ Len(list) <= cursor.index - 1
               /\ MentionsAll(list) = Cat(Held(Head(calls)), Mentions(value))
    BY <2>3, <2>5, RoomLeft
  <2>6. Held(x) = MentionsAll(list)
    <3> HIDE DEF x, list
    <3> QED
      BY <2>2, HeldCases
  <2> HIDE DEF x, list
  <2>7. ASSUME Orderly(calls, cursor, value)
        PROVE  Handles(<< x >>, Missing, cursor)
    BY <2>2, <2>3, <2>4, <2>5, <2>7, HandlesOne
  <2>8. ASSUME Orderly(calls, cursor, value)
        PROVE  Keeps(<< x >>, Missing, cursor)
    <3>1. Holds(<< x >>, Held(x)) /\ Held(x) \in Seq(Nat)
      BY <2>5, <2>6, <2>8, AtWork, HoldsFew, MentionsOfTrees
    <3> QED
      BY <2>5, <2>6, <2>8, <3>1, KeepsInCall
  <2> QED
    BY <2>1, <2>3, <2>4, <2>7, <2>8, AtWork, GatheredFew DEF Serves
<1> QED
  BY <1>1, <1>2, <1>3 DEF parse_block_stmt

LEMMA StatementsGather ==
  ASSUME PInv, PInv', Gathered, outcome = "parsing", parse_statement
  PROVE  Gathered'
  BY VarDeclGathers, IfGathers, ForGathers, JumpGathers, ReturnGathers, BlockGathers,
     ExpressionStatementGathers DEF parse_statement

-----------------------------------------------------------------------------
LEMMA HeadGathers ==
  ASSUME PInv, PInv', Gathered, outcome = "parsing", Doing("declaration"), parse_fn_decl_stmt
  PROVE  Gathered'
<1> DEFINE name == matched(advance(cursor), {"IDENTIFIER"})
           wrong == current(name) # "IDENTIFIER" \/ ~matches(name, {"LPAREN"})
           x == [do |-> "params", at |-> name.current, params |-> <<>>]
           c == matched(name, {"LPAREN"})
<1>0. Sees({"FN"})
  BY DEF parse_fn_decl_stmt, Doing
<1>1. \/ Stop("crashed", Missing)
      \/ ~is_parse_end(name) /\ Step(<< x >>, Missing, c, wrong)
  BY DEF Declaring, parse_fn_decl_stmt, Doing
<1>2. CASE Stop("crashed", Missing)
  BY <1>2, GatheredStop
<1>3. CASE ~is_parse_end(name) /\ Step(<< x >>, Missing, c, wrong)
  <2>1. Head(calls).do = "declaration" /\ peek(cursor) = "FN"
    BY <1>0 DEF Doing, Sees, matches
  <2>2. /\ Held(Head(calls)) = <<>> /\ peek(cursor) \notin DOMAIN Literal \union {"EOF"}
        /\ Orderly(calls, cursor, value) => value = Missing
    BY <2>1, HeldCases, LiteralFacts, AtWork DEF Fresh
  <2>3. /\ name \in Places /\ c \in Places /\ cursor.index < c.index /\ name.current \in 0 .. Len(tokens)
        /\ ~wrong => ReadBefore(c) = Cat(ReadBefore(cursor), << name.current >>)
    BY <1>3, <2>2, LiteralFacts, AtWork, NameRead
  <2>4. x.do = "params" /\ Held(x) = << name.current >>
    <3>1. x.do = "params" /\ x.at = name.current /\ x.params = <<>>
      OBVIOUS
    <3>2. << name.current >> \in Seq(Nat)
      <4> HIDE DEF name
      <4>1. name.current \in Nat
        BY <2>3, AtWork
      <4> QED
        BY <4>1, OneElement
    <3> HIDE DEF x, name
    <3> QED
      BY <3>1, <3>2, AtWork, HeldCases, MentionsOfLists, CatFacts
  <2>5. ~wrong => current(c) = "LPAREN"
    <3>1. ~wrong => peek(name) = "LPAREN" /\ c = advance(name)
      BY DEF matches, matched
    <3> HIDE DEF wrong, c, name
    <3> QED
      BY <2>3, <3>1, AtWork, AdvanceFacts DEF current, peek
  <2>6. cursor.index <= c.index
    <3> HIDE DEF c
    <3>1. c.index \in Nat
      BY <2>3, AtWork, KindFacts DEF Places
    <3> QED
      BY <2>3, <3>1, AtWork
  <2> HIDE DEF c, x, name, wrong
  <2>7. ASSUME ~wrong
        PROVE  Handles(<< x >>, Missing, c)
    <3>1. x.do \notin {"right", "true_expr", "false_expr", "stmt", "decl"}
      BY <2>4
    <3>2. Head(calls).do \notin InExpression
      BY <2>1 DEF InExpression, Beginning, Passing
    <3> QED
      BY <2>3, <2>4, <2>5, <2>6, <2>7, <3>1, <3>2, HandlesOne
  <2>8. ASSUME ~wrong, Orderly(calls, cursor, value)
        PROVE  Keeps(<< x >>, Missing, c)
    <3>1. Holds(<< x >>, << name.current >>)
      BY <2>4, HoldsFew
    <3> QED
      BY <2>2, <2>3, <2>8, <3>1, NameKept
  <2> QED
    BY <1>3, <2>1, <2>3, <2>7, <2>8, AtWork, GatheredFew DEF Serves
<1> QED
  BY <1>1, <1>2, <1>3

\* What the loop over the parameters reads goes into the list of them.
LEMMA ParameterRead ==
  ASSUME PInv, outcome = "parsing", Orderly(calls, cursor, value), Head(calls).do = "params",
         Sees({"IDENTIFIER", "COMMA", "RPAREN"}),
         NEW c, c = matched(cursor, {"IDENTIFIER", "COMMA"}),
         NEW params, params = IF current(c) = "IDENTIFIER"
                              THEN Append(Head(calls).params, Leaf("SYMBOL", c.current))
                              ELSE Head(calls).params
  PROVE  /\ params \in Seq(Tree)
         /\ \E new \in Seq(Nat) : /\ ReadBefore(c) = Cat(ReadBefore(cursor), new)
                                  /\ MentionsAll(params) = Cat(MentionsAll(Head(calls).params), new)
<1>1. PICK old : old = Head(calls).params /\ old \in Seq(Tree)
  BY Working, ItemKinds DEF OuterCalls, Tree
<1>2. MentionsAll(old) \in Seq(Nat) /\ ReadBefore(cursor) \in Seq(Nat)
  BY <1>1, AtWork, MentionsOfTrees, ReadTyped
<1>3. CASE peek(cursor) = "IDENTIFIER"
  <2>1. c = advance(cursor)
    BY <1>3 DEF matched, matches
  <2>2. peek(cursor) # "EOF" /\ peek(cursor) \in DOMAIN Literal
    BY <1>3, LiteralFacts
  <2>3. /\ c.current = cursor.index /\ ReadBefore(c) = Cat(ReadBefore(cursor), << cursor.index >>)
        /\ current(c) = "IDENTIFIER"
    BY <1>3, <2>1, <2>2, AtWork, AdvanceFacts, AdvanceReads DEF current, peek
  <2>4. cursor.index \in 1 .. Len(tokens)
    BY <2>2, AtWork, SeesToken
  <2>5. cursor.index \in 0 .. Len(tokens) /\ << cursor.index >> \in Seq(Nat)
    <3>1. cursor.index \in 0 .. Len(tokens) /\ cursor.index \in Nat
      BY <2>4, AtWork
    <3> QED
      BY <3>1, OneElement
  <2>6. PICK v : v = Leaf("SYMBOL", cursor.index)
    OBVIOUS
  <2>7. v \in Tree /\ Mentions(v) = << cursor.index >>
    <3>1. "SYMBOL" \in NodeTypes \intersect Named /\ <<>> \in Seq(Tree)
      BY EmptySeq DEF NodeTypes, Named, Leaves
    <3> QED
      BY <2>5, <2>6, <3>1, AtWork, NodeInTree, MentionsOfLeaf DEF Leaf
  <2>8. params = Append(old, v)
    BY <1>1, <2>3, <2>6
  <2>9. params \in Seq(Tree) /\ MentionsAll(params) = Cat(MentionsAll(old), << cursor.index >>)
    BY <1>1, <2>7, <2>8, AtWork, AppendProperties, MentionsOfLists
  <2> QED
    BY <1>1, <2>3, <2>5, <2>9
<1>4. CASE peek(cursor) # "IDENTIFIER"
  <2>1. peek(cursor) \in {"COMMA", "RPAREN"}
    BY <1>4 DEF Sees, matches
  <2>2. peek(cursor) \notin DOMAIN Literal \union {"EOF"}
    BY <2>1, LiteralFacts
  <2>3. ReadBefore(c) = ReadBefore(cursor) /\ current(c) # "IDENTIFIER"
    <3>1. CASE peek(cursor) = "COMMA"
      <4>1. c = advance(cursor)
        BY <3>1 DEF matched, matches
      <4> QED
        BY <2>2, <3>1, <4>1, AtWork, AdvanceFacts, AdvanceReads DEF current, peek
    <3>2. CASE peek(cursor) = "RPAREN"
      <4>1. c = cursor
        BY <3>2 DEF matched, matches
      <4>2. Starts(calls, cursor) /\ calls # <<>> /\ Head(calls) = calls[1]
        BY ListLengths DEF Orderly
      <4> QED
        BY <3>2, <4>1, <4>2 DEF Starts
    <3> QED
      BY <2>1, <3>1, <3>2
  <2>4. params = old
    BY <1>1, <2>3
  <2> QED
    BY <1>1, <1>2, <2>3, <2>4, AtWork, CatFacts
<1> QED
  BY <1>3, <1>4

LEMMA ParametersGather ==
  ASSUME PInv, PInv', Gathered, outcome = "parsing", Doing("params"), parse_fn_decl_stmt
  PROVE  Gathered'
<1> DEFINE call == Head(calls)
           c == matched(cursor, {"IDENTIFIER", "COMMA"})
           params == IF current(c) = "IDENTIFIER"
                     THEN Append(call.params, Leaf("SYMBOL", c.current)) ELSE call.params
           closed == advance(c)
           more == [call EXCEPT !.params = params]
           body == [call EXCEPT !.do = "fn", !.params = params]
           d == matched(closed, {"LBRACE"})
           wrong == ~matches(closed, {"LBRACE"})
<1>1. /\ call.do = "params" /\ call.do \notin InExpression \union OuterCalls /\ call.do \notin Idle
      /\ call \in [do : {"params"}, at : 0 .. Len(tokens), params : Seq(Tree)]
      /\ Held(call) = Cat(<< call.at >>, MentionsAll(call.params))
  <2>1. call.do = "params"
    BY DEF Doing
  <2>2. call \in [do : {"params"}, at : 0 .. Len(tokens), params : Seq(Tree)]
    BY <2>1, Working, ItemKinds DEF OuterCalls, Tree
  <2> HIDE DEF call
  <2> QED
    BY <2>1, <2>2, HeldCases DEF InExpression, Beginning, Passing, OuterCalls, Idle
<1>2. \/ ~Sees({"IDENTIFIER", "COMMA", "RPAREN"}) /\ Step(<<>>, Missing, c, FALSE)
      \/ /\ Sees({"IDENTIFIER", "COMMA", "RPAREN"}) /\ ~matches(c, {"RPAREN"})
         /\ Step(<< more >>, Missing, matched(c, {}), FALSE)
      \/ /\ Sees({"IDENTIFIER", "COMMA", "RPAREN"}) /\ matches(c, {"RPAREN"})
         /\ Step(<< Block(<<>>), body >>, Missing, d, wrong)
  <2> HIDE DEF params
  <2> QED
    BY Zenon, <1>1, parse_fn_decl_stmt DEF parse_fn_decl_stmt, Doing, Go, Return, params
<1>3. c \in Places /\ cursor.index <= c.index
  BY AtWork, MatchedMoves
<1>4. \A k : (k.do = "params" \/ k.do = "fn") =>
        (k.at = call.at /\ k.params = params => Held(k) = Cat(<< call.at >>, MentionsAll(params)))
  <2> HIDE DEF call, params
  <2> QED
    BY HeldCases
<1>5. more.do = "params" /\ Held(more) = Cat(<< call.at >>, MentionsAll(params))
  <2>1. more.do = "params" /\ more.at = call.at /\ more.params = params
    <3> HIDE DEF params, call
    <3> QED
      BY <1>1
  <2> HIDE DEF more, call, params
  <2> QED
    BY <1>4, <2>1
<1>6. body.do = "fn" /\ Held(body) = Cat(<< call.at >>, MentionsAll(params))
  <2>1. body.do = "fn" /\ body.at = call.at /\ body.params = params
    <3> HIDE DEF params, call
    <3> QED
      BY <1>1
  <2> HIDE DEF body, call, params
  <2> QED
    BY <1>4, <2>1
<1>7. ASSUME Orderly(calls, cursor, value), Sees({"IDENTIFIER", "COMMA", "RPAREN"}),
             NEW pending, Holds(pending, Cat(<< call.at >>, MentionsAll(params))),
             NEW e, ReadBefore(e) = ReadBefore(c)
      PROVE  Keeps(pending, Missing, e)
  <2>1. PICK n, q, old : n = << call.at >> /\ q = params /\ old = MentionsAll(call.params)
    OBVIOUS
  <2>2. n \in Seq(Nat) /\ old \in Seq(Nat)
    <3>1. call.at \in Nat /\ call.params \in Seq(Tree)
      BY <1>1, AtWork
    <3> QED
      BY <2>1, <3>1, AtWork, OneElement, MentionsOfTrees
  <2>3. /\ q \in Seq(Tree)
        /\ \E new \in Seq(Nat) : ReadBefore(c) = Cat(ReadBefore(cursor), new) /\ MentionsAll(q) = Cat(old, new)
    <3> HIDE DEF c, call
    <3>1. /\ q = IF current(c) = "IDENTIFIER"
                 THEN Append(Head(calls).params, Leaf("SYMBOL", c.current)) ELSE Head(calls).params
          /\ c = matched(cursor, {"IDENTIFIER", "COMMA"})
          /\ Head(calls).do = "params" /\ old = MentionsAll(Head(calls).params)
      BY <1>1, <2>1 DEF c, call
    <3> HIDE DEF params
    <3> QED
      BY <1>7, <3>1, ParameterRead
  <2>4. PICK new \in Seq(Nat) : ReadBefore(c) = Cat(ReadBefore(cursor), new) /\ MentionsAll(q) = Cat(old, new)
    BY <2>3
  <2> HIDE DEF params, c, call
  <2>5. value = Missing /\ Cat(Cat(n, old), <<>>) = Cat(n, old) /\ Held(call) = Cat(n, old)
    <3>1. value = Missing
      BY <1>1, <1>7, AtWork DEF Fresh, call
    <3> QED
      BY <1>1, <2>1, <2>2, <3>1, CatFacts
  <2>6. Cat(Cat(n, old), new) = Cat(n, Cat(old, new)) /\ Cat(n, Cat(old, new)) \in Seq(Nat)
    BY <2>2, CatAssociative, CatFacts
  <2>7. PICK b \in Seq(Nat) : b = Cat(n, MentionsAll(q)) /\ Cat(b, <<>>) = b
    BY <2>4, <2>6, CatFacts
  <2>8. Cat(b, Mentions(Missing)) = Cat(Cat(Held(call), Mentions(value)), new)
    BY <2>4, <2>5, <2>6, <2>7, AtWork
  <2>9. Holds(pending, b) /\ ReadBefore(e) = Cat(ReadBefore(cursor), new)
    BY <1>7, <2>1, <2>4, <2>7
  <2> QED
    BY <2>8, <2>9 DEF Keeps, call
<1>8. CASE ~Sees({"IDENTIFIER", "COMMA", "RPAREN"}) /\ Step(<<>>, Missing, c, FALSE)
  <2>1. Handles(<<>>, Missing, c)
    BY <1>1, <1>3, HandlesNothing
  <2>2. Serves(<<>>, Missing, c)
    BY <1>1, <2>1 DEF Serves
  <2> HIDE DEF c
  <2> QED
    BY <1>1, <1>3, <1>8, <2>2, AtWork, GatheredFew
<1>9. CASE /\ Sees({"IDENTIFIER", "COMMA", "RPAREN"}) /\ ~matches(c, {"RPAREN"})
           /\ Step(<< more >>, Missing, matched(c, {}), FALSE)
  <2> DEFINE e == matched(c, {})
  <2>1. PICK complaint : ~complaint /\ Step(<< more >>, Missing, e, complaint)
    BY <1>9
  <2>2. /\ e \in Places /\ c.index <= e.index /\ ReadBefore(e) = ReadBefore(c)
        /\ c.index \in Nat /\ e.index \in Nat /\ peek(e) = peek(c)
    <3> HIDE DEF c
    <3>1. {} \intersect DOMAIN Literal = {} /\ ~matches(c, {})
      BY DEF matches
    <3> QED
      BY <1>3, <3>1, AtWork, MatchedMoves, MatchedReads
  <2>3. peek(e) # "RPAREN"
    BY <1>9, <2>2 DEF matches
  <2>4. cursor.index <= e.index
    <3> HIDE DEF c, e
    <3> QED
      BY <1>3, <2>2, AtWork
  <2>5. more.do \notin {"right", "true_expr", "false_expr", "stmt", "decl"}
    BY <1>5
  <2>6. Holds(<< more >>, Cat(<< call.at >>, MentionsAll(params)))
    <3> HIDE DEF more, call, params
    <3> QED
      BY <1>5, HoldsFew
  <2> HIDE DEF c, e, more, params
  <2>7. Handles(<< more >>, Missing, e)
    BY <1>1, <1>5, <2>3, <2>4, <2>5, HandlesOne
  <2>8. ASSUME Orderly(calls, cursor, value)
        PROVE  Keeps(<< more >>, Missing, e)
    BY <1>7, <1>9, <2>2, <2>6, <2>8
  <2> QED
    BY <1>1, <2>1, <2>2, <2>7, <2>8, AtWork, GatheredFew DEF Serves
<1>10. CASE /\ Sees({"IDENTIFIER", "COMMA", "RPAREN"}) /\ matches(c, {"RPAREN"})
            /\ Step(<< Block(<<>>), body >>, Missing, d, wrong)
  <2> DEFINE x == Block(<<>>)
  <2>1. x.do = "block" /\ x.list = <<>> /\ Len(x.list) = 0
    BY DEF Block
  <2>2. Held(x) = <<>>
    <3> HIDE DEF x
    <3> QED
      BY <2>1, AtWork, HeldCases, MentionsOfLists
  <2>3. /\ closed \in Places /\ d \in Places /\ ReadBefore(d) = ReadBefore(c)
        /\ cursor.index <= d.index /\ 0 <= d.index - 1
    <3>1. peek(c) = "RPAREN"
      BY <1>10 DEF matches
    <3> HIDE DEF c
    <3>2. /\ closed \in Places /\ closed.index = c.index + 1 /\ ReadBefore(closed) = ReadBefore(c)
      BY <1>3, <3>1, LiteralFacts, AtWork, AdvanceFacts, AdvanceReads
    <3> HIDE DEF closed
    <3>3. {"LBRACE"} \intersect DOMAIN Literal = {}
      BY LiteralFacts
    <3>4. d \in Places /\ closed.index <= d.index /\ d.index \in Nat /\ ReadBefore(d) = ReadBefore(closed)
      BY <3>2, <3>3, AtWork, MatchedMoves, MatchedReads
    <3> HIDE DEF d
    <3>5. c.index \in Nat \ {0} /\ closed.index \in Nat
      BY <1>3, <3>2, AtWork, KindFacts DEF Places
    <3> QED
      BY <1>3, <3>2, <3>4, <3>5, AtWork
  <2>4. body.do \notin Fresh \union {"right", "true_expr", "false_expr"}
    BY <1>6 DEF Fresh, Beginning
  <2>5. Holds(<< x, body >>, Cat(<< call.at >>, MentionsAll(params)))
    <3> HIDE DEF x, body, call, params
    <3> QED
      BY <1>6, <2>2, HoldsFew
  <2>6. Step(<< x, body >>, Missing, d, wrong)
    BY <1>10
  <2> HIDE DEF x, body, c, d, closed, params, wrong
  <2>7. Handles(<< x, body >>, Missing, d)
    BY <1>1, <1>6, <2>1, <2>3, <2>4, HandlesTwo
  <2>8. ASSUME Orderly(calls, cursor, value)
        PROVE  Keeps(<< x, body >>, Missing, d)
    BY <1>7, <1>10, <2>3, <2>5, <2>8
  <2> QED
    BY <1>1, <2>3, <2>6, <2>7, <2>8, AtWork, GatheredFew DEF Serves
<1> QED
  BY <1>2, <1>8, <1>9, <1>10

LEMMA FunctionGathers ==
  ASSUME PInv, PInv', Gathered, outcome = "parsing", Doing("fn"),
         Return(Node("FN_DECL", Head(calls).at, Head(calls).params \o << value >>), cursor)
  PROVE  Gathered'
<1> DEFINE v == Node("FN_DECL", Head(calls).at, Head(calls).params \o << value >>)
<1>1. /\ Head(calls).do = "fn" /\ Held(Head(calls)) = Cat(<< Head(calls).at >>, MentionsAll(Head(calls).params))
      /\ Head(calls).do \notin InExpression \union OuterCalls /\ Head(calls).do \notin Idle
  BY HeldCases DEF Doing, InExpression, Beginning, Passing, OuterCalls, Idle
<1>2. PICK at, l : /\ at = Head(calls).at /\ l = Head(calls).params
                   /\ at \in 0 .. Len(tokens) /\ l \in Seq(Tree)
  BY <1>1, InnermostFields DEF OuterCalls
<1>3. v \in Tree /\ Mentions(v) = Cat(<< at >>, Cat(MentionsAll(l), Mentions(value)))
  <2>1. << value >> \in Seq(Tree) /\ MentionsAll(<< value >>) = Mentions(value)
    BY AtWork, OneElement, MentionsOfLists
  <2>2. l \o << value >> \in Seq(Tree)
    BY <1>2, <2>1, ConcatProperties
  <2>3. MentionsAll(l \o << value >>) = Cat(MentionsAll(l), Mentions(value))
    BY <1>2, <2>1, AtWork, MentionsOfLists
  <2>4. "FN_DECL" \in NodeTypes \intersect Named
    BY DEF NodeTypes, Named, Leaves
  <2>5. v = Node("FN_DECL", at, l \o << value >>)
    BY <1>2
  <2> HIDE DEF v
  <2> QED
    <3>1. v \in Tree
      BY <1>2, <2>2, <2>4, <2>5, AtWork, NodeInTree
    <3>2. Mentions(v) = Cat(<< at >>, MentionsAll(l \o << value >>))
      BY <1>2, <2>2, <2>4, <2>5, AtWork, MentionsOfNode
    <3> QED
      BY <2>3, <3>1, <3>2
<1>4. PICK complaint : ~complaint /\ Step(<<>>, v, cursor, complaint)
  BY DEF Return
<1> HIDE DEF v
<1>5. Mentions(v) = Cat(Held(Head(calls)), Mentions(value))
  <2>1. << at >> \in Seq(Nat)
    <3>1. at \in Nat
      BY <1>2, AtWork
    <3> QED
      BY <3>1, OneElement
  <2>2. PICK n, m, w : n = << at >> /\ m = MentionsAll(l) /\ w = Mentions(value)
    OBVIOUS
  <2>3. n \in Seq(Nat) /\ m \in Seq(Nat) /\ w \in Seq(Nat)
    BY <1>2, <2>1, <2>2, AtWork, MentionsOfTrees
  <2>4. Cat(Cat(n, m), w) = Cat(n, Cat(m, w))
    BY <2>3, CatAssociative
  <2> QED
    BY <1>1, <1>2, <1>3, <2>2, <2>4
<1>6. cursor \in Places /\ cursor.index <= cursor.index
  BY AtWork
<1> QED
  BY <1>1, <1>3, <1>4, <1>5, <1>6, StatementReturns

LEMMA FunctionsGather ==
  ASSUME PInv, PInv', Gathered, outcome = "parsing", parse_fn_decl_stmt
  PROVE  Gathered'
<1>1. CASE Doing("fn") /\ Return(Node("FN_DECL", Head(calls).at, Head(calls).params \o << value >>), cursor)
  BY <1>1, FunctionGathers
<1> QED
  BY <1>1, HeadGathers, ParametersGather DEF parse_fn_decl_stmt

LEMMA DeclarationsGather ==
  ASSUME PInv, PInv', Gathered, outcome = "parsing", parse_decl_stmt
  PROVE  Gathered'
<1>1. Head(calls).do = "declaration"
  BY DEF parse_decl_stmt, Doing
<1>2. PICK complaint : ~complaint /\ Step(<< Call("statement") >>, Missing, cursor, complaint)
  BY DEF parse_decl_stmt, Go
<1>3. PICK x : x = Call("statement")
  OBVIOUS
<1>4. x.do = "statement" /\ Held(x) = <<>> /\ Held(Head(calls)) = <<>>
  BY <1>1, <1>3, HoldsNothing, HeldCases DEF PlainCalls
<1>5. cursor \in Places /\ cursor.index <= cursor.index
  BY AtWork
<1>6. ASSUME Orderly(calls, cursor, value)
      PROVE  Serves(<< x >>, Missing, cursor)
  <2>1. Handles(<< x >>, Missing, cursor)
    <3>1. Head(calls).do \notin InExpression /\ x.do \in Idle
      BY <1>1, <1>4 DEF InExpression, Beginning, Passing, Idle
    <3> QED
      BY <1>4, <1>5, <3>1, HandlesOne
  <2>2. Keeps(<< x >>, Missing, cursor)
    <3>1. Holds(<< x >>, <<>>)
      BY <1>4, HoldsFew
    <3>2. value = Missing
      BY <1>1, <1>6, AtWork DEF Fresh
    <3> QED
      BY <1>4, <3>1, <3>2, AtWork, KeepsInCall
  <2> QED
    BY <2>1, <2>2 DEF Serves
<1> QED
  BY <1>1, <1>2, <1>3, <1>5, <1>6, AtWork, GatheredFew

-----------------------------------------------------------------------------
(* When the program comes to the end of the tokens, its statements hold all that
   was written. *)
LEMMA AllHeld ==
  ASSUME PInv, Gathered, outcome = "parsing", Head(calls).do = "program", Clean, ~reported, Sees({"EOF"})
  PROVE  MentionsAll(Head(calls).list) = Written(Len(tokens))
<1>1. /\ TokensOk /\ Len(tokens) \in Nat /\ cursor \in Places /\ Stacked(calls, Len(tokens))
  BY AtWork DEF PInv
<1>2. Orderly(calls, cursor, value) /\ \E b : Collects(calls, b) /\ Cat(b, Mentions(value)) = ReadBefore(cursor)
  BY DEF Gathered, GivesUp
<1>3. value = Missing /\ Mentions(value) = <<>>
  BY <1>2, AtWork DEF Fresh
<1>4. PICK A : calls \in Seq(A) /\ calls # <<>>
  BY ListLengths
<1>5. Len(calls) = 1
  BY <1>1, ListLengths DEF Stacked, OuterCalls
<1>6. PICK b : Collects(calls, b) /\ Cat(b, Mentions(value)) = ReadBefore(cursor)
  BY <1>2
<1>7. PICK r \in Seq(Nat) : b = Cat(r, Held(Head(calls))) /\ Collects(Tail(calls), r)
  BY <1>4, <1>6, CollectsLess
<1>8. r = <<>>
  <2>1. Tail(calls) = <<>>
    <3>1. Tail(calls) \in Seq(A) /\ Len(Tail(calls)) = 0
      BY <1>4, <1>5
    <3> QED
      BY <3>1, EmptySeq
  <2>2. Collects(<<>>, r)
    BY <1>7, <2>1
  <2>3. Len(<<>>) + 1 = 1
    OBVIOUS
  <2>4. \E g : g[1] = r /\ g[Len(<<>>) + 1] = <<>>
    BY <2>2 DEF Collects
  <2> QED
    BY <2>3, <2>4
<1>9. MentionsAll(Head(calls).list) = ReadBefore(cursor)
  <2>1. PICK h : h = Held(Head(calls)) /\ h = MentionsAll(Head(calls).list)
    BY HeldCases
  <2>2. h \in Seq(Nat)
    BY <2>1, Working, HeldTyped
  <2>3. Cat(<<>>, h) = h /\ Cat(h, <<>>) = h
    BY <2>2, CatFacts
  <2> QED
    BY <1>3, <1>6, <1>7, <1>8, <2>1, <2>3
<1>10. cursor.index = Len(tokens) + 1
  <2>1. cursor.index \in 1 .. End /\ peek(cursor) = "EOF"
    BY <1>1 DEF Places, Sees, matches
  <2>2. cursor.index \notin 1 .. Len(tokens)
    BY <1>1, <2>1, KindFacts DEF peek
  <2> QED
    BY <1>1, <2>1, <2>2, KindFacts
<1>11. cursor.index - 1 = Len(tokens)
  BY <1>1, <1>10
<1> QED
  BY <1>9, <1>11 DEF ReadBefore

LEMMA ProgramGathers ==
  ASSUME PInv, PInv', Gathered, outcome = "parsing", parse_program
  PROVE  Gathered'
<1>1. CASE Doing("program")
  <2> DEFINE list == Head(calls).list
  <2>1. /\ Head(calls).do = "program" /\ Held(Head(calls)) = MentionsAll(list)
        /\ Head(calls).do \notin InExpression /\ Head(calls).do \notin Idle
    <3>1. Head(calls).do = "program"
      BY <1>1 DEF Doing
    <3> QED
      BY <3>1, HeldCases DEF InExpression, Beginning, Passing, Idle
  <2>2. list \in Seq(Tree) /\ Len(list) \in Nat
    BY <2>1, ListLengths
  <2>3. CASE Sees({"EOF"})
    <3> DEFINE v == Node("BLOCK", 0, list)
    <3>1. Stop("parsed", v)
      BY <2>1, <2>3, parse_program DEF parse_program, Doing
    <3>2. Mentions(v) = MentionsAll(list)
      <4>1. "BLOCK" \in NodeTypes \ Named /\ 0 \in 0 .. Len(tokens)
        BY AtWork DEF NodeTypes, Named, Leaves
      <4> HIDE DEF list
      <4> QED
        BY <2>2, <4>1, AtWork, MentionsOfNode
    <3> HIDE DEF v
    <3> QED
      BY <2>1, <2>3, <3>1, <3>2, AllHeld, GatheredStop
  <2>4. CASE ~Sees({"EOF"})
    <3> DEFINE y == [Head(calls) EXCEPT !.do = "decl"]
               x == Call("declaration")
    <3>1. PICK complaint : ~complaint /\ Step(<< x, y >>, Missing, cursor, complaint)
      BY <2>1, <2>4, parse_program DEF parse_program, Doing, Go
    <3>2. y.do = "decl" /\ y.list = list
      <4>1. PICK h \in Outer(Len(tokens)) : h = Head(calls)
        BY <2>1, Working, ItemKinds DEF OuterCalls
      <4>2. [h EXCEPT !.do = "decl"].do = "decl" /\ [h EXCEPT !.do = "decl"].list = h.list
        BY DEF Outer
      <4> QED
        BY <4>1, <4>2
    <3>3. Held(y) = MentionsAll(list)
      <4> HIDE DEF y, list
      <4> QED
        BY <3>2, HeldCases
    <3>4. x.do = "declaration" /\ Held(x) = <<>>
      BY HoldsNothing
    <3>5. cursor \in Places /\ cursor.index <= cursor.index
      BY AtWork
    <3> HIDE DEF x, y
    <3>6. ASSUME Orderly(calls, cursor, value)
          PROVE  Handles(<< x, y >>, Missing, cursor)
      <4>1. Len(list) <= cursor.index - 1
        <5>1. Roomy(calls, 1, cursor) /\ Head(calls) = calls[1]
          BY <3>6, ListLengths DEF Orderly, Rooms
        <5> QED
          BY <2>1, <5>1 DEF Roomy
      <4>2. y.do \notin Fresh \union {"right", "true_expr", "false_expr"} /\ x.do \in Idle
        BY <3>2, <3>4 DEF Fresh, Beginning, Idle
      <4> QED
        BY <2>1, <3>2, <3>4, <3>5, <4>1, <4>2, HandlesTwo
    <3> HIDE DEF list
    <3>7. ASSUME Orderly(calls, cursor, value)
          PROVE  Keeps(<< x, y >>, Missing, cursor)
      <4>1. Holds(<< x, y >>, Held(y))
        BY <3>4, HoldsFew
      <4>2. MentionsAll(list) \in Seq(Nat)
        BY <2>2, AtWork, MentionsOfTrees
      <4>3. value = Missing
        BY <2>1, <3>7, AtWork DEF Fresh
      <4>4. Held(y) \in Seq(Nat) /\ Held(y) = Cat(Held(Head(calls)), Mentions(value))
        BY <2>1, <3>3, <4>2, <4>3, AtWork, CatFacts
      <4> QED
        BY <4>1, <4>4, KeepsInCall
    <3> QED
      BY <2>1, <3>1, <3>5, <3>6, <3>7, AtWork, GatheredFew DEF Serves
  <2> QED
    BY <2>3, <2>4
<1>2. CASE Doing("decl")
  <2> DEFINE list == Appended(Head(calls).list, value)
             x == [do |-> "program", list |-> list]
  <2>1. /\ Head(calls).do = "decl" /\ Head(calls).do \notin InExpression
        /\ Head(calls).do \notin Idle
    BY <1>2 DEF Doing, InExpression, Beginning, Passing, Idle
  <2>2. CASE value = Missing
    <3>1. Stop("parsed", Missing)
      BY <2>1, <2>2, parse_program DEF parse_program, Doing
    <3> QED
      BY <3>1, GatheredStop
  <2>3. CASE value # Missing
    <3>1. PICK complaint : ~complaint /\ Step(<< x >>, Missing, cursor, complaint)
      BY <2>1, <2>3, parse_program DEF parse_program, Doing, Go
    <3>2. x.do = "program" /\ x.list = list
      OBVIOUS
    <3>3. cursor \in Places /\ cursor.index <= cursor.index
      BY AtWork
    <3>4. ASSUME Orderly(calls, cursor, value)
          PROVE  /\ list \in Seq(Tree) /\ Len(list) <= cursor.index - 1
                 /\ MentionsAll(list) = Cat(Held(Head(calls)), Mentions(value))
      BY <2>1, <3>4, RoomLeft
    <3>5. Held(x) = MentionsAll(list)
      <4> HIDE DEF x, list
      <4> QED
        BY <3>2, HeldCases
    <3> HIDE DEF x, list
    <3>6. ASSUME Orderly(calls, cursor, value)
          PROVE  Handles(<< x >>, Missing, cursor)
      BY <2>1, <3>2, <3>3, <3>4, <3>6, HandlesOne
    <3>7. ASSUME Orderly(calls, cursor, value)
          PROVE  Keeps(<< x >>, Missing, cursor)
      <4>1. Holds(<< x >>, Held(x)) /\ Held(x) \in Seq(Nat)
        BY <3>4, <3>5, <3>7, AtWork, HoldsFew, MentionsOfTrees
      <4> QED
        BY <3>4, <3>5, <3>7, <4>1, KeepsInCall
    <3> QED
      BY <2>1, <2>3, <3>1, <3>3, <3>6, <3>7, AtWork, GatheredFew DEF Serves
  <2> QED
    BY <2>2, <2>3
<1> QED
  BY <1>1, <1>2 DEF parse_program

LEMMA InitGathers == Init => Gathered
<1> SUFFICES ASSUME Init PROVE Gathered
  OBVIOUS
<1>1. PInv /\ outcome = "parsing" /\ value = Missing /\ cursor = [index |-> 1, current |-> 0]
  BY InitSound DEF Init
<1>2. PICK x : x = [do |-> "program", list |-> <<>>]
  OBVIOUS
<1>3. calls = << x >> /\ x.do = "program" /\ x.list = <<>> /\ Len(x.list) = 0
  BY <1>2 DEF Init
<1>4. Len(calls) = 1 /\ calls[1] = x /\ 1 .. Len(calls) = {1}
  BY <1>3
<1>5. Held(x) = <<>> /\ cursor.index = 1 /\ 0 <= cursor.index - 1
  <2>1. Held(x) = <<>>
    BY <1>1, <1>3, AtWork, HeldCases, MentionsOfLists
  <2>2. cursor.index = 1
    BY <1>1
  <2> QED
    BY <2>1, <2>2
<1>6. Orderly(calls, cursor, value)
  <2>1. FreshFirst(calls, value) /\ Unconditional(calls) /\ Wanting(calls, cursor, value)
    BY <1>1, <1>3, <1>4 DEF FreshFirst, Unconditional, Wanting, Waiting
  <2>2. Starts(calls, cursor)
    BY <1>3, <1>4 DEF Starts
  <2>3. Roomy(calls, 1, cursor)
    BY <1>3, <1>4, <1>5 DEF Roomy
  <2>4. Rooms(calls, cursor)
    BY <1>4, <2>3 DEF Rooms
  <2> QED
    BY <2>1, <2>2, <2>4 DEF Orderly
<1>7. Collects(calls, <<>>)
  <2> DEFINE g == [k \in 1 .. 2 |-> <<>>]
  <2>1. g[1] = <<>> /\ g[2] = <<>> /\ 1 .. Len(calls) + 1 = {1, 2} /\ Len(calls) + 1 = 2
    BY <1>4
  <2>2. \A k \in 1 .. Len(calls) + 1 : g[k] \in Seq(Nat)
    BY <2>1, EmptySeq
  <2>3. Held(calls[1]) = <<>> /\ Cat(<<>>, <<>>) = <<>>
    BY <1>1, <1>4, <1>5, AtWork
  <2> HIDE DEF g
  <2>4. \A k \in 1 .. Len(calls) : g[k] = Cat(g[k + 1], Held(calls[k]))
    BY <1>4, <2>1, <2>3
  <2> QED
    BY <2>1, <2>2, <2>4 DEF Collects
<1>8. Cat(<<>>, Mentions(value)) = ReadBefore(cursor)
  <2>1. cursor.index - 1 = 0 /\ Written(0) = <<>>
    BY <1>1, <1>5, AtWork, WrittenSteps
  <2> QED
    BY <1>1, <2>1, AtWork DEF ReadBefore
<1> QED
  BY <1>1, <1>6, <1>7, <1>8 DEF Gathered

LEMMA NextGathers == PInv /\ Gathered /\ [Next]_vars => Gathered'
<1> SUFFICES ASSUME PInv, Gathered, [Next]_vars PROVE Gathered'
  OBVIOUS
<1>1. PInv'
  BY NextSound
<1>2. CASE UNCHANGED vars
  <2>0. /\ tokens' = tokens /\ cursor' = cursor /\ calls' = calls /\ value' = value
        /\ outcome' = outcome /\ reported' = reported
    BY <1>2 DEF vars
  <2>1. Clean' = Clean /\ \A p : Blank(p)' = Blank(p)
    BY <2>0 DEF Clean, Unfinished, Blank, Kind, End
  <2>2. /\ ReadBefore(cursor)' = ReadBefore(cursor)
        /\ (Mentions(value) = Written(Len(tokens)))' = (Mentions(value) = Written(Len(tokens)))
    BY <2>0 DEF ReadBefore, Written
  <2>3. Orderly(calls, cursor, value)' = Orderly(calls, cursor, value)
    <3>1. Wanting(calls, cursor, value)' = Wanting(calls, cursor, value)
      BY <2>0, <2>1 DEF Wanting, Wants
    <3>2. Starts(calls, cursor)' = Starts(calls, cursor)
      BY <2>0 DEF Starts, peek, current, Kind, End
    <3>3. Rooms(calls, cursor)' = Rooms(calls, cursor)
      BY <2>0 DEF Rooms, Roomy
    <3>4. FreshFirst(calls, value)' = FreshFirst(calls, value) /\ Unconditional(calls)' = Unconditional(calls)
      BY <2>0 DEF FreshFirst, Unconditional
    <3> QED
      BY <3>1, <3>2, <3>3, <3>4 DEF Orderly
  <2>4. /\ GivesUp' = GivesUp
        /\ (\E b : Collects(calls, b) /\ Cat(b, Mentions(value)) = ReadBefore(cursor))' =
             \E b : Collects(calls, b) /\ Cat(b, Mentions(value)) = ReadBefore(cursor)
    BY <2>0, <2>2 DEF GivesUp
  <2> QED
    BY <2>0, <2>1, <2>2, <2>3, <2>4 DEF Gathered
<1>3. CASE Next
  <2>1. outcome = "parsing"
    BY <1>3 DEF Next, parse_program, parse_decl_stmt, parse_fn_decl_stmt, parse_statement,
       parse_operators, parse_expression, parse_assignment_expression, parse_ternary_expression,
       parse_binary_operators, parse_right_operand, parse_unary_expression, parse_unary_operand,
       parse_primary_expression, parse_parenthesis, parse_callee, parse_call_expression,
       parse_var_decl_stmt, parse_if_stmt, parse_for_stmt, parse_loop_stmt, parse_break_stmt,
       parse_return_stmt, parse_block_stmt, parse_expression_stmt, Begins, Doing
  <2> QED
    BY <1>1, <1>3, <2>1, ProgramGathers, DeclarationsGather, FunctionsGather, StatementsGather,
       OperatorsGather DEF Next
<1> QED
  BY <1>2, <1>3

(* Whatever the tokens, a program without a ternary and without an unfinished
   operator that is accepted has each of its names and literals in its tree, once
   and in the order they were written. *)
THEOREM NothingLost == Spec => []NothingLostSilently
<1>1. Init => PInv /\ Gathered
  BY InitSound, InitGathers
<1>2. PInv /\ Gathered /\ [Next]_vars => (PInv /\ Gathered)'
  BY NextSound, NextGathers
<1>3. Gathered => NothingLostSilently
  BY DEF Gathered, NothingLostSilently, Accepted, Clean
<1> QED
  BY <1>1, <1>2, <1>3, PTL DEF Spec
=================================================================================
