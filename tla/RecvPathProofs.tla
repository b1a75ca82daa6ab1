--------------------------- MODULE RecvPathProofs ---------------------------
(***************************************************************************)
(* Proofs, for every buffer, window, pool, queue cap and stream, of what   *)
(* the run of RecvPath checks on a small instance: the shape of the        *)
(* reorder queue, the exact count of mbuf references, the user's views,    *)
(* the absence of reneging, and that the receive path implements           *)
(* ByteStream.  Loops of the code are recursive functions of the model;    *)
(* the first lemmas give the induction over their steps.                   *)
(***************************************************************************)
EXTENDS RecvPath, FiniteSetTheorems, SequenceTheorems, TLAPS

-----------------------------------------------------------------------------
\* Induction and iteration.

Before == {r \in Nat \X Nat : r[1] < r[2]}

\* A set of naturals has a least element.
LEMMA Least ==
    ASSUME NEW T \in SUBSET Nat, T # {}
    PROVE  \E x \in T : \A y \in T : x <= y
<1>1. IsWellFoundedOn(Before, Nat)
  BY NatLessThanWellFounded, Zenon DEF OpToRel, Before
<1>2. ASSUME NEW x \in Nat, NEW y \in Nat, <<y, x>> \notin Before
      PROVE  x <= y
  BY <1>2 DEF Before
<1>3. PICK x \in T : \A y \in T : ~(<<y, x>> \in Before)
  BY <1>1, WFMin
<1>4. \A y \in T : x <= y
  BY <1>2, <1>3
<1> QED BY <1>4

\* Induction up to n, for the members of a set.
LEMMA UpTo ==
    ASSUME NEW n \in Nat, NEW G, 0 \in G, \A k \in 1 .. n : k - 1 \in G => k \in G
    PROVE  \A k \in 0 .. n : k \in G
<1> DEFINE B == {k \in 0 .. n : k \notin G}
<1>1. ASSUME B # {} PROVE FALSE
  <2>1. B \in SUBSET Nat
    OBVIOUS
  <2>2. PICK x \in B : \A y \in B : x <= y
    BY <1>1, <2>1, Least
  <2>3. x # 0 /\ x \in 1 .. n
    BY <2>2
  <2>4. x - 1 \in 0 .. n /\ ~(x <= x - 1)
    BY <2>3
  <2>5. x - 1 \in G
    BY <2>2, <2>4
  <2> QED BY <2>2, <2>3, <2>5
<1> QED BY <1>1

\* A function f that takes n steps from a, the k-th by F[k], within a set.
Steps(F, n, S) == F \in [1 .. n -> [S -> S]]

IsRun(f, F, n, S, a) ==
    f \in [0 .. n -> S] /\ f[0] = a /\ \A k \in 1 .. n : f[k] = F[k][f[k - 1]]

LEMMA Iterates ==
    ASSUME NEW n \in Nat, NEW S, NEW a \in S, NEW F, Steps(F, n, S)
    PROVE  \E f : IsRun(f, F, n, S, a)
<1>0. F \in [1 .. n -> [S -> S]]
  BY DEF Steps
<1> DEFINE Run(f, m) == f[0] = a /\ \A k \in 1 .. m : f[k] = F[k][f[k - 1]]
           G == {m \in 0 .. n : \E f \in [0 .. m -> S] : Run(f, m)}
<1>1. 0 \in G
  <2> DEFINE f == [k \in 0 .. 0 |-> a]
  <2>1. f \in [0 .. 0 -> S] /\ Run(f, 0)
    OBVIOUS
  <2>2. 0 \in 0 .. n
    OBVIOUS
  <2> HIDE DEF f, Run
  <2> QED BY <2>1, <2>2
<1>2. ASSUME NEW m \in 1 .. n, m - 1 \in G PROVE m \in G
  <2>1. PICK f \in [0 .. m - 1 -> S] : Run(f, m - 1)
    BY <1>2
  <2> DEFINE g == [k \in 0 .. m |-> IF k = m THEN F[m][f[m - 1]] ELSE f[k]]
  <2>2. f[m - 1] \in S /\ F[m] \in [S -> S] /\ F[m][f[m - 1]] \in S
    BY <1>0
  <2>3. \A k \in 0 .. m : k # m => k \in 0 .. m - 1
    OBVIOUS
  <2>4. g \in [0 .. m -> S]
    BY <2>2, <2>3
  <2>5. g[0] = a
    BY <2>1
  <2>6. ASSUME NEW k \in 1 .. m PROVE g[k] = F[k][g[k - 1]]
    <3>1. k - 1 \in 0 .. m - 1 /\ k - 1 # m /\ k - 1 \in 0 .. m /\ k \in 0 .. m
      OBVIOUS
    <3>2. g[k - 1] = f[k - 1]
      BY <3>1
    <3>3. CASE k = m
      BY <3>2, <3>3
    <3>4. CASE k # m
      <4>1. k \in 1 .. m - 1 /\ g[k] = f[k]
        BY <3>4
      <4>2. f[k] = F[k][f[k - 1]]
        BY <2>1, <4>1
      <4> QED BY <3>2, <4>1, <4>2
    <3> QED BY <3>3, <3>4
  <2>7. Run(g, m)
    BY <2>5, <2>6
  <2> HIDE DEF g, Run
  <2> QED BY <2>4, <2>7
<1> HIDE DEF G
<1>3. n \in G
  <2>1. \A k \in 0 .. n : k \in G
    BY <1>1, <1>2, UpTo
  <2> QED BY <2>1
<1> QED BY <1>3 DEF G, IsRun

\* A function that satisfies the equations of its steps stays in the set.
LEMMA RunOf ==
    ASSUME NEW n \in Nat, NEW S, NEW a \in S, NEW F, Steps(F, n, S),
           NEW g, g = [k \in 0 .. n |-> g[k]], g[0] = a,
           \A k \in 1 .. n : g[k - 1] \in S => g[k] = F[k][g[k - 1]]
    PROVE  IsRun(g, F, n, S, a)
<1> DEFINE G == {k \in 0 .. n : g[k] \in S}
<1>1. 0 \in G
  OBVIOUS
<1>2. ASSUME NEW k \in 1 .. n, k - 1 \in G PROVE k \in G
  <2>1. k \in 0 .. n /\ g[k - 1] \in S
    BY <1>2
  <2>2. g[k] = F[k][g[k - 1]]
    BY <2>1
  <2>3. F[k] \in [S -> S]
    BY DEF Steps
  <2> QED BY <2>1, <2>2, <2>3
<1> HIDE DEF G
<1>3. \A k \in 0 .. n : k \in G
  BY <1>1, <1>2, UpTo
<1>4. \A k \in 0 .. n : g[k] \in S
  BY <1>3 DEF G
<1>5. \A k \in 1 .. n : k - 1 \in 0 .. n
  OBVIOUS
<1> QED BY <1>4, <1>5 DEF IsRun

-----------------------------------------------------------------------------
\* Sequences.

\* A sequence is the function of its elements.
LEMMA SeqFun ==
    ASSUME NEW S, NEW n \in Nat, NEW f, f \in [1 .. n -> S]
    PROVE  f \in Seq(S) /\ Len(f) = n /\ DOMAIN f = 1 .. n
<1>1. \A i \in 1 .. n : f[i] \in S
  OBVIOUS
<1>2. f = [i \in 1 .. n |-> f[i]]
  OBVIOUS
<1>3. f \in Seq(S)
  <2>1. f \in UNION {[1 .. k -> S] : k \in Nat}
    OBVIOUS
  <2> QED BY <2>1, SeqDef
<1>4. DOMAIN f = 1 .. n /\ DOMAIN f = 1 .. Len(f) /\ Len(f) \in Nat
  BY <1>3, LenProperties
<1>5. Len(f) = n
  <2>1. ASSUME Len(f) < n PROVE FALSE
    <3>1. n \in 1 .. n /\ n \notin 1 .. Len(f)
      BY <1>4, <2>1
    <3> QED BY <1>4, <3>1
  <2>2. ASSUME n < Len(f) PROVE FALSE
    <3>1. Len(f) \in 1 .. Len(f) /\ Len(f) \notin 1 .. n
      BY <1>4, <2>2
    <3> QED BY <1>4, <3>1
  <2> QED BY <1>4, <2>1, <2>2
<1> QED BY <1>3, <1>4, <1>5

\* Appending a sequence one element longer.
LEMMA ConcatAppend ==
    ASSUME NEW S, NEW s \in Seq(S), NEW t \in Seq(S), NEW x \in S
    PROVE  s \o Append(t, x) = Append(s \o t, x)
<1>1. Append(t, x) = t \o <<x>> /\ <<x>> \in Seq(S)
  BY AppendIsConcat
<1>2. s \o t \in Seq(S)
  BY ConcatProperties
<1>3. Append(s \o t, x) = (s \o t) \o <<x>>
  BY <1>2, AppendIsConcat
<1> QED BY <1>1, <1>3, ConcatAssociative

\* A sequence splits into the first k elements and the others.
LEMMA Split ==
    ASSUME NEW S, NEW s \in Seq(S), NEW k \in 0 .. Len(s)
    PROVE  /\ SubSeq(s, 1, k) \in Seq(S) /\ Len(SubSeq(s, 1, k)) = k
           /\ SubSeq(s, k + 1, Len(s)) \in Seq(S)
           /\ s = SubSeq(s, 1, k) \o SubSeq(s, k + 1, Len(s))
<1>1. Len(s) \in Nat /\ k \in Int /\ \A i \in 1 .. Len(s) : s[i] \in S
  BY LenProperties, ElementOfSeq
<1>2. \A i \in 1 .. k : s[i] \in S
  BY <1>1
<1>3. \A i \in k + 1 .. Len(s) : s[i] \in S
  BY <1>1
<1>4. SubSeq(s, 1, k) \in Seq(S) /\ Len(SubSeq(s, 1, k)) = IF 1 <= k THEN k - 1 + 1 ELSE 0
  BY <1>1, <1>2, SubSeqProperties
<1>5. SubSeq(s, k + 1, Len(s)) \in Seq(S)
  BY <1>1, <1>3, SubSeqProperties
<1>6. SubSeq(s, 1, k) \o SubSeq(s, k + 1, Len(s)) = SubSeq(s, 1, Len(s))
  <2>1. 1 \in 1 .. Len(s) + 1 /\ k \in 1 - 1 .. Len(s) /\ Len(s) \in k .. Len(s)
    BY <1>1
  <2> QED BY <2>1, ConcatAdjacentSubSeq
<1>7. SubSeq(s, 1, Len(s)) = s
  BY SubSeqFull
<1>8. Len(SubSeq(s, 1, k)) = k
  BY <1>1, <1>4
<1> QED BY <1>4, <1>5, <1>6, <1>7, <1>8

\* The first k elements are the first k - 1 and the k-th.
LEMMA SplitLast ==
    ASSUME NEW S, NEW s \in Seq(S), NEW k \in 1 .. Len(s)
    PROVE  /\ SubSeq(s, 1, k - 1) \in Seq(S) /\ s[k] \in S
           /\ SubSeq(s, 1, k) = Append(SubSeq(s, 1, k - 1), s[k])
<1>1. Len(s) \in Nat /\ s[k] \in S
  BY LenProperties, ElementOfSeq
<1>2. k - 1 \in 0 .. Len(s) /\ 1 \in 1 .. Len(s) /\ k \in 1 .. Len(s)
  BY <1>1
<1>3. SubSeq(s, 1, k - 1) \in Seq(S)
  BY <1>2, Split
<1>4. SubSeq(s, 1, k) = SubSeq(s, 1, k - 1) \o <<s[k]>>
  BY <1>2, SubSeqRecursiveSecond
<1>5. Append(SubSeq(s, 1, k - 1), s[k]) = SubSeq(s, 1, k - 1) \o <<s[k]>>
  BY <1>1, <1>3, AppendIsConcat
<1> QED BY <1>1, <1>3, <1>4, <1>5

\* g concatenates the first k of the sequences s, for every k.
Concats(g, s, D) ==
    /\ g \in [0 .. Len(s) -> Seq(D)] /\ g[0] = <<>>
    /\ \A k \in 1 .. Len(s) : g[k] = g[k - 1] \o s[k]

LEMMA FlattenIs ==
    ASSUME NEW D, NEW s \in Seq(Seq(D)), NEW g, Concats(g, s, D)
    PROVE  FlattenSeq(s) = g[Len(s)]
<1> DEFINE n == Len(s)
           Loop(f) == f = [i \in 1 .. n |-> IF i = 1 THEN s[i] ELSE f[i - 1] \o s[i]]
           flatten == CHOOSE f : Loop(f)
<1>0. n \in Nat /\ \A i \in 1 .. n : s[i] \in Seq(D)
  BY LenProperties, ElementOfSeq
<1>1. /\ g \in [0 .. n -> Seq(D)] /\ g[0] = <<>>
      /\ \A k \in 1 .. n : g[k] = g[k - 1] \o s[k]
  BY DEF Concats
<1>2. CASE n = 0
  <2>1. s = <<>>
    BY <1>2, EmptySeq
  <2> QED BY <1>1, <1>2, <2>1 DEF FlattenSeq
<1>3. CASE n # 0
  <2> DEFINE h == [i \in 1 .. n |-> g[i]]
  <2>1. g[1] = s[1]
    <3>1. 1 \in 1 .. n /\ 1 - 1 = 0
      BY <1>0, <1>3
    <3>2. s[1] \in Seq(D) /\ g[1] = <<>> \o s[1]
      BY <1>0, <1>1, <3>1
    <3> QED BY <3>2, ConcatEmptySeq
  <2>2. ASSUME NEW i \in 1 .. n PROVE h[i] = IF i = 1 THEN s[i] ELSE h[i - 1] \o s[i]
    <3>1. CASE i = 1
      BY <2>1, <3>1
    <3>2. CASE i # 1
      <4>1. i - 1 \in 1 .. n
        BY <1>0, <3>2
      <4>2. h[i - 1] = g[i - 1] /\ h[i] = g[i]
        BY <4>1
      <4> QED BY <1>1, <3>2, <4>2
    <3> QED BY <3>1, <3>2
  <2>3. h = [i \in 1 .. n |-> h[i]]
    OBVIOUS
  <2> HIDE DEF h
  <2>4. Loop(h)
    BY <2>2, <2>3
  <2>5. Loop(flatten)
    BY <2>4
  <2>6. FlattenSeq(s) = flatten[n]
    BY <1>3 DEF FlattenSeq
  <2> HIDE DEF flatten
  <2>E. \A i \in 1 .. n : flatten[i] = IF i = 1 THEN s[i] ELSE flatten[i - 1] \o s[i]
    BY <2>5, Zenon
  <2> DEFINE G == {k \in 0 .. n : k = 0 \/ flatten[k] = g[k]}
  <2>7. 0 \in G
    BY <1>0
  <2>8. ASSUME NEW k \in 1 .. n, k - 1 \in G PROVE k \in G
    <3>1. k \in 0 .. n /\ flatten[k] = IF k = 1 THEN s[k] ELSE flatten[k - 1] \o s[k]
      BY <1>0, <2>E
    <3>2. CASE k = 1
      BY <2>1, <3>1, <3>2
    <3>3. CASE k # 1
      <4>1. k - 1 # 0 /\ flatten[k - 1] = g[k - 1]
        BY <1>0, <2>8, <3>3
      <4> QED BY <1>1, <3>1, <3>3, <4>1
    <3> QED BY <3>2, <3>3
  <2> HIDE DEF G
  <2>9. n \in G
    <3>1. \A k \in 0 .. n : k \in G
      BY <1>0, <2>7, <2>8, UpTo
    <3> QED BY <1>0, <3>1
  <2> QED BY <1>3, <2>6, <2>9 DEF G
<1> QED BY <1>2, <1>3

LEMMA FlattenRun ==
    ASSUME NEW D, NEW s \in Seq(Seq(D))
    PROVE  \E g : Concats(g, s, D)
<1> DEFINE n == Len(s)
           F == [k \in 1 .. n |-> [v \in Seq(D) |-> v \o s[k]]]
<1>0. n \in Nat /\ \A i \in 1 .. n : s[i] \in Seq(D)
  BY LenProperties, ElementOfSeq
<1>1. Steps(F, n, Seq(D))
  <2>1. \A k \in 1 .. n, v \in Seq(D) : v \o s[k] \in Seq(D)
    BY <1>0, ConcatProperties
  <2> QED BY <2>1 DEF Steps
<1>2. \A k \in 1 .. n, v \in Seq(D) : F[k][v] = v \o s[k]
  OBVIOUS
<1> HIDE DEF F
<1>3. <<>> \in Seq(D)
  BY EmptySeq
<1>4. PICK g : IsRun(g, F, n, Seq(D), <<>>)
  BY <1>0, <1>1, <1>3, Iterates
<1>5. g \in [0 .. n -> Seq(D)] /\ g[0] = <<>> /\ \A k \in 1 .. n : g[k] = F[k][g[k - 1]]
  BY <1>4 DEF IsRun
<1>6. ASSUME NEW k \in 1 .. n PROVE g[k] = g[k - 1] \o s[k]
  <2>1. k - 1 \in 0 .. n
    BY <1>0
  <2>2. g[k - 1] \in Seq(D)
    BY <1>5, <2>1
  <2> QED BY <1>2, <1>5, <2>2
<1>7. Concats(g, s, D)
  BY <1>5, <1>6 DEF Concats
<1> QED BY <1>7

\* Flattening, one sequence more.
LEMMA FlattenAppend ==
    ASSUME NEW D, NEW s \in Seq(Seq(D)), NEW x \in Seq(D)
    PROVE  /\ FlattenSeq(s) \in Seq(D)
           /\ FlattenSeq(Append(s, x)) = FlattenSeq(s) \o x
<1> DEFINE n == Len(s)
           t == Append(s, x)
<1>0. n \in Nat
  BY LenProperties
<1>1. PICK g : Concats(g, s, D)
  BY FlattenRun
<1>2. /\ g \in [0 .. n -> Seq(D)] /\ g[0] = <<>>
      /\ \A k \in 1 .. n : g[k] = g[k - 1] \o s[k]
  BY <1>1 DEF Concats
<1>3. FlattenSeq(s) = g[n] /\ g[n] \in Seq(D)
  BY <1>0, <1>1, <1>2, FlattenIs
<1>4. /\ t \in Seq(Seq(D)) /\ Len(t) = n + 1 /\ t[n + 1] = x
      /\ \A i \in 1 .. n : t[i] = s[i]
  BY AppendProperties
<1> DEFINE h == [k \in 0 .. n + 1 |-> IF k = n + 1 THEN g[n] \o x ELSE g[k]]
<1>5. h \in [0 .. n + 1 -> Seq(D)]
  <2>1. g[n] \o x \in Seq(D)
    BY <1>3, ConcatProperties
  <2>2. \A k \in 0 .. n + 1 : k # n + 1 => g[k] \in Seq(D)
    BY <1>0, <1>2
  <2> QED BY <2>1, <2>2
<1>6. h[0] = <<>> /\ h[n + 1] = g[n] \o x
  BY <1>0, <1>2
<1>7. ASSUME NEW k \in 1 .. n + 1 PROVE h[k] = h[k - 1] \o t[k]
  <2>1. k - 1 \in 0 .. n /\ h[k - 1] = g[k - 1]
    BY <1>0
  <2>2. CASE k = n + 1
    <3>1. h[k] = g[n] \o x /\ t[k] = x
      BY <1>4, <1>6, <2>2
    <3>2. k - 1 = n
      BY <1>0, <2>2
    <3>3. h[k - 1] = g[n]
      BY <2>1, <3>2
    <3> HIDE DEF h, t
    <3> QED BY <3>1, <3>3
  <2>3. CASE k # n + 1
    <3>1. k \in 1 .. n /\ h[k] = g[k]
      BY <1>0, <2>3
    <3> QED BY <1>2, <1>4, <2>1, <3>1
  <2> QED BY <2>2, <2>3
<1> HIDE DEF h, t
<1>8. Concats(h, t, D)
  BY <1>4, <1>5, <1>6, <1>7 DEF Concats
<1>9. FlattenSeq(t) = h[Len(t)]
  BY <1>4, <1>8, FlattenIs
<1>10. FlattenSeq(t) = FlattenSeq(s) \o x
  BY <1>3, <1>4, <1>6, <1>9
<1> QED BY <1>3, <1>10 DEF t

LEMMA FlattenEmpty == FlattenSeq(<<>>) = <<>>
<1>1. Len(<<>>) = 0
  BY EmptySeq
<1> QED BY <1>1 DEF FlattenSeq

LEMMA FlattenConcatAppend ==
    ASSUME NEW D, NEW s \in Seq(Seq(D)), NEW q \in Seq(Seq(D)), NEW x \in Seq(D),
           FlattenSeq(s \o q) = FlattenSeq(s) \o FlattenSeq(q)
    PROVE  FlattenSeq(s \o Append(q, x)) = FlattenSeq(s) \o FlattenSeq(Append(q, x))
<1> DEFINE T == Seq(D)
<1>1. s \in Seq(T) /\ q \in Seq(T) /\ x \in T
  OBVIOUS
<1> HIDE DEF T
<1>2. s \o q \in Seq(T) /\ s \o Append(q, x) = Append(s \o q, x)
  BY <1>1, ConcatAppend, ConcatProperties
<1>3. s \o q \in Seq(Seq(D))
  BY <1>2 DEF T
<1> DEFINE sq == s \o q
           fs == FlattenSeq(s)
           fq == FlattenSeq(q)
<1>4. fs \in Seq(D) /\ fq \in Seq(D) /\ FlattenSeq(Append(q, x)) = fq \o x
  BY FlattenAppend
<1> HIDE DEF sq, fs, fq
<1>5. FlattenSeq(Append(sq, x)) = FlattenSeq(sq) \o x
  BY <1>3, FlattenAppend DEF sq
<1>6. (fs \o fq) \o x = fs \o (fq \o x)
  BY <1>4, ConcatAssociative
<1>7. FlattenSeq(sq) = fs \o fq /\ s \o Append(q, x) = Append(sq, x)
  BY <1>2 DEF sq, fs, fq
<1> QED BY <1>4, <1>5, <1>6, <1>7 DEF fs

LEMMA FlattenConcat ==
    ASSUME NEW D, NEW s \in Seq(Seq(D)), NEW t \in Seq(Seq(D))
    PROVE  /\ FlattenSeq(s) \in Seq(D)
           /\ FlattenSeq(s \o t) = FlattenSeq(s) \o FlattenSeq(t)
<1> DEFINE n == Len(t)
           p(k) == SubSeq(t, 1, k)
           G == {k \in 0 .. n : FlattenSeq(s \o p(k)) = FlattenSeq(s) \o FlattenSeq(p(k))}
<1>0. n \in Nat /\ <<>> \in Seq(D)
  BY LenProperties, EmptySeq
<1>1. FlattenSeq(s) \in Seq(D)
  BY <1>0, FlattenAppend
<1>2. 0 \in G
  <2>1. p(0) = <<>>
    BY SubSeqEmpty
  <2>2. s \o <<>> = s /\ FlattenSeq(s) \o <<>> = FlattenSeq(s)
    BY <1>1, ConcatEmptySeq
  <2>3. FlattenSeq(s \o p(0)) = FlattenSeq(s) \o FlattenSeq(p(0))
    BY <2>1, <2>2, FlattenEmpty, Zenon
  <2>4. 0 \in 0 .. n
    BY <1>0
  <2> HIDE DEF p
  <2> QED BY <2>3, <2>4
<1>3. ASSUME NEW k \in 1 .. n, k - 1 \in G PROVE k \in G
  <2>1. p(k - 1) \in Seq(Seq(D)) /\ t[k] \in Seq(D) /\ p(k) = Append(p(k - 1), t[k])
    BY SplitLast
  <2>2. FlattenSeq(s \o p(k - 1)) = FlattenSeq(s) \o FlattenSeq(p(k - 1))
    BY <1>3
  <2> HIDE DEF p
  <2>7. FlattenSeq(s \o p(k)) = FlattenSeq(s) \o FlattenSeq(p(k))
    BY <2>1, <2>2, FlattenConcatAppend
  <2> QED BY <1>0, <2>7
<1>4. p(n) = t
  BY SubSeqFull
<1> HIDE DEF G, p
<1>5. n \in G
  <2>1. \A k \in 0 .. n : k \in G
    BY <1>0, <1>2, <1>3, UpTo
  <2> QED BY <1>0, <2>1
<1> QED BY <1>1, <1>4, <1>5 DEF G

-----------------------------------------------------------------------------
\* Types.

Pool == [1 .. Mbufs -> [refs : Nat, base : Int]]
Seg  == [seq : Nat, mbuf : 1 .. Mbufs, offset : Nat, len : Nat \ {0}]
Desc == [mbuf : 1 .. Mbufs, offset : Nat, len : Nat]
Event == [kind : {"state", "closed", "readable"}, descs : Seq(Desc)]

\* The descriptors of events.
LEMMA OwnedType ==
    ASSUME NEW s \in Seq(Event)
    PROVE  /\ [i \in DOMAIN s |-> s[i].descs] \in Seq(Seq(Desc))
           /\ Len([i \in DOMAIN s |-> s[i].descs]) = Len(s)
           /\ \A i \in 1 .. Len(s) : [j \in DOMAIN s |-> s[j].descs][i] = s[i].descs
           /\ OwnedBy(s) \in Seq(Desc)
<1> DEFINE n == Len(s)
           f == [i \in DOMAIN s |-> s[i].descs]
<1>1. n \in Nat /\ DOMAIN s = 1 .. n /\ \A i \in 1 .. n : s[i] \in Event
  BY LenProperties, ElementOfSeq
<1>2. f \in [1 .. n -> Seq(Desc)]
  BY <1>1 DEF Event
<1>3. f \in Seq(Seq(Desc)) /\ Len(f) = n
  BY <1>1, <1>2, SeqFun
<1>4. \A i \in 1 .. n : f[i] = s[i].descs
  BY <1>1
<1>5. OwnedBy(s) = FlattenSeq(f)
  BY DEF OwnedBy
<1> HIDE DEF f
<1>6. FlattenSeq(f) \in Seq(Desc)
  BY <1>3, FlattenConcat
<1> QED BY <1>3, <1>4, <1>5, <1>6 DEF f

LEMMA OwnedEmpty == OwnedBy(<<>>) = <<>>
<1>1. <<>> \in Seq(Event)
  BY EmptySeq
<1>2. [i \in DOMAIN <<>> |-> <<>>[i].descs] \in Seq(Seq(Desc))
      /\ Len([i \in DOMAIN <<>> |-> <<>>[i].descs]) = 0
  BY <1>1, OwnedType, EmptySeq
<1>3. [i \in DOMAIN <<>> |-> <<>>[i].descs] = <<>>
  BY <1>2, EmptySeq
<1> QED BY <1>3, FlattenEmpty DEF OwnedBy

LEMMA OwnedConcat ==
    ASSUME NEW s \in Seq(Event), NEW t \in Seq(Event)
    PROVE  /\ OwnedBy(s) \in Seq(Desc) /\ OwnedBy(t) \in Seq(Desc)
           /\ OwnedBy(s \o t) = OwnedBy(s) \o OwnedBy(t)
<1> DEFINE M(u) == [i \in DOMAIN u |-> u[i].descs]
           m == Len(s)
           n == Len(t)
<1>1. m \in Nat /\ n \in Nat
  BY LenProperties
<1>2. /\ s \o t \in Seq(Event) /\ Len(s \o t) = m + n
      /\ \A i \in 1 .. m + n : (s \o t)[i] = IF i <= m THEN s[i] ELSE t[i - m]
  BY ConcatProperties
<1>3. M(s) \in Seq(Seq(Desc)) /\ Len(M(s)) = m /\ \A i \in 1 .. m : M(s)[i] = s[i].descs
  BY OwnedType
<1>4. M(t) \in Seq(Seq(Desc)) /\ Len(M(t)) = n /\ \A i \in 1 .. n : M(t)[i] = t[i].descs
  BY OwnedType
<1>5. M(s \o t) \in Seq(Seq(Desc)) /\ Len(M(s \o t)) = m + n
      /\ \A i \in 1 .. m + n : M(s \o t)[i] = (s \o t)[i].descs
  BY <1>2, OwnedType
<1>6. OwnedBy(s) = FlattenSeq(M(s)) /\ OwnedBy(t) = FlattenSeq(M(t))
      /\ OwnedBy(s \o t) = FlattenSeq(M(s \o t))
  BY DEF OwnedBy
<1> HIDE DEF M
<1>7. /\ M(s) \o M(t) \in Seq(Seq(Desc)) /\ Len(M(s) \o M(t)) = m + n
      /\ \A i \in 1 .. m + n : (M(s) \o M(t))[i] = IF i <= m THEN M(s)[i] ELSE M(t)[i - m]
  <2> DEFINE a == M(s)
             b == M(t)
             T == Seq(Desc)
  <2>1. a \in Seq(T) /\ b \in Seq(T)
    BY <1>3, <1>4
  <2> HIDE DEF a, b, T
  <2>2. /\ a \o b \in Seq(T) /\ Len(a \o b) = Len(a) + Len(b)
        /\ \A i \in 1 .. Len(a) + Len(b) : (a \o b)[i] = IF i <= Len(a) THEN a[i] ELSE b[i - Len(a)]
    BY <2>1, ConcatProperties
  <2>3. Len(a) = m /\ Len(b) = n
    BY <1>3, <1>4 DEF a, b
  <2>4. /\ a \o b \in Seq(T) /\ Len(a \o b) = m + n
        /\ \A i \in 1 .. m + n : (a \o b)[i] = IF i <= m THEN a[i] ELSE b[i - m]
    BY <2>2, <2>3, Zenon
  <2> QED BY <2>4, Zenon DEF a, b, T
<1>8. ASSUME NEW i \in 1 .. m + n PROVE M(s \o t)[i] = (M(s) \o M(t))[i]
  <2>1. CASE i <= m
    <3>1. i \in 1 .. m
      BY <1>1, <2>1
    <3> QED BY <1>2, <1>3, <1>5, <1>7, <2>1, <3>1
  <2>2. CASE ~(i <= m)
    <3>1. i - m \in 1 .. n
      BY <1>1, <2>2
    <3> QED BY <1>2, <1>4, <1>5, <1>7, <2>2, <3>1
  <2> QED BY <2>1, <2>2
<1>9. M(s \o t) = M(s) \o M(t)
  BY <1>5, <1>7, <1>8, SeqEqual
<1>10. FlattenSeq(M(s) \o M(t)) = FlattenSeq(M(s)) \o FlattenSeq(M(t))
  BY <1>3, <1>4, FlattenConcat
<1> QED BY <1>6, <1>9, <1>10, OwnedType

\* The descriptors of one event.
LEMMA OwnedOne ==
    ASSUME NEW e \in Event
    PROVE  <<e>> \in Seq(Event) /\ OwnedBy(<<e>>) = e.descs
<1>1. <<e>> \in Seq(Event) /\ Len(<<e>>) = 1 /\ <<e>>[1] = e /\ e.descs \in Seq(Desc)
  BY DEF Event
<1> DEFINE f == [i \in DOMAIN <<e>> |-> <<e>>[i].descs]
<1>2. f \in Seq(Seq(Desc)) /\ Len(f) = 1 /\ f[1] = e.descs
  <2>1. 1 \in 1 .. 1
    OBVIOUS
  <2> QED BY <1>1, <2>1, OwnedType
<1>3. OwnedBy(<<e>>) = FlattenSeq(f)
  BY DEF OwnedBy
<1> HIDE DEF f
<1>4. <<>> \in Seq(Seq(Desc)) /\ <<>> \in Seq(Desc)
  BY EmptySeq
<1>5. f = Append(<<>>, e.descs)
  BY <1>1, <1>2, SMT
<1>6. FlattenSeq(f) = <<>> \o e.descs
  BY <1>1, <1>4, <1>5, FlattenAppend, FlattenEmpty
<1> QED BY <1>1, <1>3, <1>6, ConcatEmptySeq

\* The bytes that descriptors show.
LEMMA ContentType ==
    ASSUME NEW pool \in Pool, NEW d \in Desc
    PROVE  /\ Content(pool, d) \in Seq(Int) /\ Len(Content(pool, d)) = d.len
           /\ \A i \in 1 .. d.len : Content(pool, d)[i] = pool[d.mbuf].base + d.offset + i - 1
<1>1. d.len \in Nat /\ d.offset \in Nat /\ pool[d.mbuf].base \in Int
  BY DEF Desc, Pool
<1> DEFINE f == Content(pool, d)
<1>2. f = [i \in 1 .. d.len |-> pool[d.mbuf].base + d.offset + i - 1]
  BY DEF Content
<1> HIDE DEF f
<1>3. f \in [1 .. d.len -> Int]
  BY <1>1, <1>2
<1>4. f \in Seq(Int) /\ Len(f) = d.len
  BY <1>1, <1>3, SeqFun
<1> QED BY <1>2, <1>4 DEF f

LEMMA ContentsType ==
    ASSUME NEW pool \in Pool, NEW s \in Seq(Desc)
    PROVE  /\ [i \in DOMAIN s |-> Content(pool, s[i])] \in Seq(Seq(Int))
           /\ Len([i \in DOMAIN s |-> Content(pool, s[i])]) = Len(s)
           /\ \A i \in 1 .. Len(s) :
                 [j \in DOMAIN s |-> Content(pool, s[j])][i] = Content(pool, s[i])
           /\ Contents(pool, s) \in Seq(Int)
<1> DEFINE n == Len(s)
           f == [i \in DOMAIN s |-> Content(pool, s[i])]
<1>1. n \in Nat /\ DOMAIN s = 1 .. n /\ \A i \in 1 .. n : s[i] \in Desc
  BY LenProperties, ElementOfSeq
<1>2. \A i \in 1 .. n : Content(pool, s[i]) \in Seq(Int)
  BY <1>1, ContentType
<1>3. f \in [1 .. n -> Seq(Int)]
  BY <1>1, <1>2
<1>4. f \in Seq(Seq(Int)) /\ Len(f) = n
  BY <1>1, <1>3, SeqFun
<1>5. \A i \in 1 .. n : f[i] = Content(pool, s[i])
  BY <1>1
<1>6. Contents(pool, s) = FlattenSeq(f)
  BY DEF Contents
<1> HIDE DEF f
<1>7. FlattenSeq(f) \in Seq(Int)
  BY <1>4, FlattenConcat
<1> QED BY <1>4, <1>5, <1>6, <1>7 DEF f

LEMMA ContentsEmpty ==
    ASSUME NEW pool \in Pool
    PROVE  Contents(pool, <<>>) = <<>>
<1>1. <<>> \in Seq(Desc)
  BY EmptySeq
<1> DEFINE f == [i \in DOMAIN <<>> |-> Content(pool, <<>>[i])]
<1>2. f \in Seq(Seq(Int)) /\ Len(f) = 0
  BY <1>1, ContentsType, EmptySeq
<1>3. Contents(pool, <<>>) = FlattenSeq(f)
  BY DEF Contents
<1> HIDE DEF f
<1>4. f = <<>>
  BY <1>2, EmptySeq
<1> QED BY <1>3, <1>4, FlattenEmpty

LEMMA ContentsConcat ==
    ASSUME NEW pool \in Pool, NEW s \in Seq(Desc), NEW t \in Seq(Desc)
    PROVE  Contents(pool, s \o t) = Contents(pool, s) \o Contents(pool, t)
<1> DEFINE M(u) == [i \in DOMAIN u |-> Content(pool, u[i])]
           m == Len(s)
           n == Len(t)
           a == M(s)
           b == M(t)
           c == M(s \o t)
           T == Seq(Int)
<1>1. m \in Nat /\ n \in Nat
  BY LenProperties
<1>2. /\ s \o t \in Seq(Desc) /\ Len(s \o t) = m + n
      /\ \A i \in 1 .. m + n : (s \o t)[i] = IF i <= m THEN s[i] ELSE t[i - m]
  BY ConcatProperties
<1>3. a \in Seq(T) /\ Len(a) = m /\ \A i \in 1 .. m : a[i] = Content(pool, s[i])
  BY ContentsType
<1>4. b \in Seq(T) /\ Len(b) = n /\ \A i \in 1 .. n : b[i] = Content(pool, t[i])
  BY ContentsType
<1>5. c \in Seq(T) /\ Len(c) = m + n
      /\ \A i \in 1 .. m + n : c[i] = Content(pool, (s \o t)[i])
  BY <1>2, ContentsType
<1>6. Contents(pool, s) = FlattenSeq(a) /\ Contents(pool, t) = FlattenSeq(b)
      /\ Contents(pool, s \o t) = FlattenSeq(c)
  BY DEF Contents
<1> HIDE DEF a, b, c, T
<1>7. /\ a \o b \in Seq(T) /\ Len(a \o b) = Len(a) + Len(b)
      /\ \A i \in 1 .. Len(a) + Len(b) : (a \o b)[i] = IF i <= Len(a) THEN a[i] ELSE b[i - Len(a)]
  BY <1>3, <1>4, ConcatProperties
<1>8. ASSUME NEW i \in 1 .. m + n PROVE c[i] = (a \o b)[i]
  <2>1. CASE i <= m
    <3>1. i \in 1 .. m
      BY <1>1, <2>1
    <3> QED BY <1>2, <1>3, <1>4, <1>5, <1>7, <2>1, <3>1
  <2>2. CASE ~(i <= m)
    <3>1. i - m \in 1 .. n
      BY <1>1, <2>2
    <3> QED BY <1>2, <1>3, <1>4, <1>5, <1>7, <2>2, <3>1
  <2> QED BY <2>1, <2>2
<1>9. c = a \o b
  BY <1>3, <1>4, <1>5, <1>7, <1>8, SeqEqual
<1>10. FlattenSeq(a \o b) = FlattenSeq(a) \o FlattenSeq(b)
  <2>1. a \in Seq(Seq(Int)) /\ b \in Seq(Seq(Int))
    BY <1>3, <1>4 DEF T
  <2> QED BY <2>1, FlattenConcat
<1> QED BY <1>6, <1>9, <1>10

LEMMA ContentsOne ==
    ASSUME NEW pool \in Pool, NEW d \in Desc
    PROVE  <<d>> \in Seq(Desc) /\ Contents(pool, <<d>>) = Content(pool, d)
<1>1. <<d>> \in Seq(Desc) /\ Len(<<d>>) = 1 /\ <<d>>[1] = d
  OBVIOUS
<1> DEFINE f == [i \in DOMAIN <<d>> |-> Content(pool, <<d>>[i])]
           x == Content(pool, d)
<1>2. f \in Seq(Seq(Int)) /\ Len(f) = 1 /\ f[1] = x
  <2>1. 1 \in 1 .. 1
    OBVIOUS
  <2> QED BY <1>1, <2>1, ContentsType
<1>3. Contents(pool, <<d>>) = FlattenSeq(f)
  BY DEF Contents
<1>T. x \in Seq(Int)
  BY ContentType
<1> HIDE DEF f, x
<1>4. <<>> \in Seq(Seq(Int)) /\ <<>> \in Seq(Int)
  BY EmptySeq
<1>5. f = Append(<<>>, x)
  BY <1>T, <1>2, SMT
<1>6. FlattenSeq(f) = <<>> \o x
  BY <1>T, <1>4, <1>5, FlattenAppend, FlattenEmpty
<1>7. Contents(pool, <<d>>) = x
  BY <1>T, <1>3, <1>6, ConcatEmptySeq
<1> QED BY <1>1, <1>7 DEF x

\* Descriptors show the same bytes when the mbufs they show are unchanged.
LEMMA ContentsSame ==
    ASSUME NEW pool \in Pool, NEW new \in Pool, NEW s \in Seq(Desc),
           \A i \in 1 .. Len(s) : new[s[i].mbuf].base = pool[s[i].mbuf].base
    PROVE  Contents(new, s) = Contents(pool, s)
<1>1. DOMAIN s = 1 .. Len(s)
  BY LenProperties
<1>2. \A i \in DOMAIN s : Content(new, s[i]) = Content(pool, s[i])
  BY <1>1 DEF Content
<1>3. [i \in DOMAIN s |-> Content(new, s[i])] = [i \in DOMAIN s |-> Content(pool, s[i])]
  BY <1>2
<1> QED BY <1>3 DEF Contents

-----------------------------------------------------------------------------
\* Counting the descriptors that show an mbuf.

Count(s, m) == Cardinality({i \in DOMAIN s : s[i].mbuf = m})

LEMMA CountType ==
    ASSUME NEW D, NEW s \in Seq(D), NEW m
    PROVE  /\ IsFiniteSet({i \in DOMAIN s : s[i].mbuf = m}) /\ Count(s, m) \in Nat
           /\ Count(s, m) = 0 <=> \A i \in 1 .. Len(s) : s[i].mbuf # m
<1>1. Len(s) \in Nat /\ DOMAIN s = 1 .. Len(s)
  BY LenProperties
<1> DEFINE T == {i \in DOMAIN s : s[i].mbuf = m}
<1>2. IsFiniteSet(T)
  <2>1. IsFiniteSet(1 .. Len(s))
    BY <1>1, FS_Interval
  <2>2. T \in SUBSET (1 .. Len(s))
    BY <1>1
  <2> HIDE DEF T
  <2> QED BY <2>1, <2>2, FS_Subset
<1>3. Cardinality(T) \in Nat /\ (Cardinality(T) = 0 <=> T = {})
  BY <1>2, FS_CardinalityType, FS_EmptySet
<1>4. T = {} <=> \A i \in 1 .. Len(s) : s[i].mbuf # m
  BY <1>1
<1> QED BY <1>2, <1>3, <1>4 DEF Count

LEMMA CountEmpty ==
    ASSUME NEW m
    PROVE  Count(<<>>, m) = 0
<1>1. <<>> \in Seq({}) /\ Len(<<>>) = 0
  BY EmptySeq
<1>2. \A i \in 1 .. Len(<<>>) : <<>>[i].mbuf # m
  BY <1>1
<1> QED BY <1>1, <1>2, CountType

\* Moving a set of positions does not change its size.
LEMMA Moved ==
    ASSUME NEW T \in SUBSET Int, NEW n \in Int, IsFiniteSet(T)
    PROVE  /\ IsFiniteSet({i + n : i \in T})
           /\ Cardinality({i + n : i \in T}) = Cardinality(T)
<1> DEFINE U == {i + n : i \in T}
           f == [i \in T |-> i + n]
<1>1. f \in [T -> U]
  OBVIOUS
<1>2. ASSUME NEW a \in T, NEW b \in T, f[a] = f[b] PROVE a = b
  <2>1. a \in Int /\ b \in Int /\ a + n = b + n
    BY <1>2
  <2> QED BY <2>1
<1>3. ASSUME NEW u \in U PROVE \E a \in T : f[a] = u
  OBVIOUS
<1> HIDE DEF f, U
<1>4. f \in Bijection(T, U)
  BY <1>1, <1>2, <1>3 DEF Bijection, Injection, Surjection, IsInjective
<1>5. ExistsBijection(T, U)
  BY <1>4 DEF ExistsBijection
<1>6. IsFiniteSet(U) /\ Cardinality(U) = Cardinality(T)
  BY <1>5, FS_Bijection
<1> QED BY <1>6 DEF U

LEMMA CountConcat ==
    ASSUME NEW D, NEW s \in Seq(D), NEW t \in Seq(D), NEW m
    PROVE  Count(s \o t, m) = Count(s, m) + Count(t, m)
<1> DEFINE n == Len(s)
           k == Len(t)
           A == {i \in DOMAIN s : s[i].mbuf = m}
           B == {i \in DOMAIN t : t[i].mbuf = m}
           C == {i \in DOMAIN (s \o t) : (s \o t)[i].mbuf = m}
           B1 == {i + n : i \in B}
<1>1. n \in Nat /\ k \in Nat /\ DOMAIN s = 1 .. n /\ DOMAIN t = 1 .. k
  BY LenProperties
<1>2. /\ s \o t \in Seq(D) /\ DOMAIN (s \o t) = 1 .. n + k
      /\ \A i \in 1 .. n + k : (s \o t)[i] = IF i <= n THEN s[i] ELSE t[i - n]
  <2>1. /\ s \o t \in Seq(D) /\ Len(s \o t) = n + k
        /\ \A i \in 1 .. n + k : (s \o t)[i] = IF i <= n THEN s[i] ELSE t[i - n]
    BY ConcatProperties
  <2> QED BY <2>1, LenProperties
<1>3. IsFiniteSet(A) /\ IsFiniteSet(B) /\ B \in SUBSET Int
  <2>1. IsFiniteSet(A)
    BY CountType, Zenon
  <2>2. IsFiniteSet(B)
    BY CountType, Zenon
  <2>3. B \in SUBSET Int
    BY <1>1
  <2> QED BY <2>1, <2>2, <2>3
<1>4. IsFiniteSet(B1) /\ Cardinality(B1) = Cardinality(B)
  <2>1. n \in Int
    BY <1>1
  <2> HIDE DEF B
  <2> QED BY <2>1, <1>3, Moved, Zenon
<1>5. C \subseteq A \cup B1
  <2> SUFFICES ASSUME NEW i \in C PROVE i \in A \cup B1
    OBVIOUS
  <2>1. i \in 1 .. n + k /\ (s \o t)[i].mbuf = m
    BY <1>2
  <2>2. CASE i <= n
    BY <1>1, <1>2, <2>1, <2>2
  <2>3. CASE ~(i <= n)
    <3>1. i - n \in 1 .. k /\ t[i - n].mbuf = m /\ i = (i - n) + n
      BY <1>1, <1>2, <2>1, <2>3
    <3>2. i - n \in B
      BY <1>1, <3>1
    <3> HIDE DEF B
    <3>3. i \in B1
      BY <3>1, <3>2
    <3> QED BY <3>3
  <2> QED BY <2>2, <2>3
<1>6. A \subseteq C
  <2> SUFFICES ASSUME NEW i \in A PROVE i \in C
    OBVIOUS
  <2>1. i \in 1 .. n /\ s[i].mbuf = m /\ i \in 1 .. n + k /\ i <= n
    BY <1>1
  <2> QED BY <1>2, <2>1
<1>7. B1 \subseteq C
  <2> SUFFICES ASSUME NEW j \in B PROVE j + n \in C
    OBVIOUS
  <2>1. j \in 1 .. k /\ t[j].mbuf = m
    BY <1>1
  <2>2. j + n \in 1 .. n + k /\ ~(j + n <= n) /\ (j + n) - n = j
    BY <1>1, <2>1
  <2> QED BY <1>2, <2>1, <2>2
<1>8. A \cap B1 = {}
  <2> SUFFICES ASSUME NEW j \in B, j + n \in A PROVE FALSE
    OBVIOUS
  <2>1. j \in 1 .. k /\ j + n \in 1 .. n
    BY <1>1
  <2> QED BY <1>1, <2>1
<1>9. C = A \cup B1
  BY <1>5, <1>6, <1>7
<1>10. Count(s, m) = Cardinality(A) /\ Count(t, m) = Cardinality(B) /\ Count(s \o t, m) = Cardinality(C)
  BY DEF Count
<1>11. Cardinality(A) \in Nat /\ Cardinality(B) \in Nat
  BY <1>3, FS_CardinalityType
<1> HIDE DEF A, B, C, B1
<1>12. Cardinality(A \cup B1) = Cardinality(A) + Cardinality(B1) - Cardinality(A \cap B1)
  BY <1>3, <1>4, FS_Union
<1>13. Cardinality(A \cap B1) = 0
  BY <1>8, FS_EmptySet
<1> QED BY <1>4, <1>9, <1>10, <1>11, <1>12, <1>13

LEMMA CountOne ==
    ASSUME NEW D, NEW x \in D, NEW m
    PROVE  <<x>> \in Seq(D) /\ Count(<<x>>, m) = IF x.mbuf = m THEN 1 ELSE 0
<1>1. <<x>> \in Seq(D) /\ Len(<<x>>) = 1 /\ <<x>>[1] = x /\ DOMAIN <<x>> = 1 .. 1
  OBVIOUS
<1>2. CASE x.mbuf = m
  <2>1. {i \in DOMAIN <<x>> : <<x>>[i].mbuf = m} = {1}
    BY <1>1, <1>2
  <2> QED BY <1>1, <1>2, <2>1, FS_Singleton DEF Count
<1>3. CASE x.mbuf # m
  <2>1. {i \in DOMAIN <<x>> : <<x>>[i].mbuf = m} = {}
    BY <1>1, <1>3
  <2> QED BY <1>1, <1>3, <2>1, FS_EmptySet DEF Count
<1> QED BY <1>2, <1>3

LEMMA CountAppend ==
    ASSUME NEW D, NEW s \in Seq(D), NEW x \in D, NEW m
    PROVE  Count(Append(s, x), m) = Count(s, m) + (IF x.mbuf = m THEN 1 ELSE 0)
<1>1. Append(s, x) = s \o <<x>>
  BY AppendIsConcat
<1>2. <<x>> \in Seq(D) /\ Count(<<x>>, m) = IF x.mbuf = m THEN 1 ELSE 0
  BY CountOne
<1>3. Count(s \o <<x>>, m) = Count(s, m) + Count(<<x>>, m)
  BY <1>2, CountConcat
<1> QED BY <1>1, <1>2, <1>3

\* Releasing one reference per descriptor of ds leaves those that others hold,
\* and the content of every mbuf that someone still shows.
Owes(pool, kept, ds) == \A m \in 1 .. Mbufs : pool[m].refs = kept[m] + Count(ds, m)

Leaves(new, pool, kept) ==
    \A m \in 1 .. Mbufs :
        new[m].refs = kept[m] /\ (kept[m] > 0 => new[m].base = pool[m].base)

LEMMA ReleaseExact ==
    ASSUME NEW pool \in Pool, NEW D, NEW ds \in Seq(D),
           NEW kept \in [1 .. Mbufs -> Nat], Owes(pool, kept, ds)
    PROVE  Release(pool, ds) \in Pool /\ Leaves(Release(pool, ds), pool, kept)
<1> DEFINE new == Release(pool, ds)
<1>1. DOMAIN pool = 1 .. Mbufs
      /\ \A m \in 1 .. Mbufs : pool[m] \in [refs : Nat, base : Int]
  BY DEF Pool
<1>2. new = [m \in 1 .. Mbufs |->
               IF Count(ds, m) > 0 /\ pool[m].refs <= Count(ds, m) THEN NoMbuf
               ELSE [pool[m] EXCEPT !.refs = pool[m].refs - Count(ds, m)]]
  BY <1>1 DEF Release, Count
<1> HIDE DEF new
<1>3. ASSUME NEW m \in 1 .. Mbufs
      PROVE  /\ new[m] \in [refs : Nat, base : Int] /\ new[m].refs = kept[m]
             /\ kept[m] > 0 => new[m].base = pool[m].base
  <2> DEFINE c == Count(ds, m)
             r == pool[m]
  <2>1. c \in Nat /\ kept[m] \in Nat /\ r.refs = kept[m] + c
    BY CountType DEF Owes
  <2>2. r \in [refs : Nat, base : Int]
    BY <1>1
  <2>3. new[m] = IF c > 0 /\ r.refs <= c THEN NoMbuf ELSE [r EXCEPT !.refs = r.refs - c]
    BY <1>2
  <2> HIDE DEF c, r
  <2>4. CASE c > 0 /\ r.refs <= c
    <3>1. new[m] = [refs |-> 0, base |-> -1] /\ kept[m] = 0
      BY <2>1, <2>3, <2>4 DEF NoMbuf, None
    <3> QED BY <3>1
  <2>5. CASE ~(c > 0 /\ r.refs <= c)
    <3>1. new[m] = [r EXCEPT !.refs = r.refs - c] /\ r.refs - c = kept[m]
      BY <2>1, <2>3, <2>5
    <3>2. new[m] = [r EXCEPT !.refs = kept[m]]
      BY <3>1
    <3>3. new[m].refs = kept[m] /\ new[m].base = r.base /\ new[m] \in [refs : Nat, base : Int]
      BY <2>1, <2>2, <3>2
    <3> QED BY <3>3 DEF r
  <2> QED BY <2>4, <2>5
<1>4. new \in Pool
  BY <1>2, <1>3 DEF Pool
<1> QED BY <1>3, <1>4 DEF new, Leaves

-----------------------------------------------------------------------------
\* The reorder queue.

Sep(s, t) == EndSeq(s) <= t.seq

Sorted(q) == \A i, j \in 1 .. Len(q) : i < j => Sep(q[i], q[j])

\* A set of segments that do not overlap.
Apart(all) == \A s, t \in all : s # t => Sep(s, t) \/ Sep(t, s)

LEMMA SegFacts ==
    ASSUME NEW s \in Seg
    PROVE  /\ s.seq \in Nat /\ s.len \in Nat /\ s.len > 0 /\ s.offset \in Nat
           /\ s.mbuf \in 1 .. Mbufs /\ EndSeq(s) \in Nat /\ s.seq < EndSeq(s)
           /\ EndSeq(s) = s.seq + s.len
BY DEF Seg, EndSeq

\* A sorted queue holds no segment twice, and its segments are apart.
LEMMA SortedApart ==
    ASSUME NEW q \in Seq(Seg), Sorted(q)
    PROVE  /\ \A i, j \in 1 .. Len(q) : q[i] = q[j] => i = j
           /\ \A i, j \in 1 .. Len(q) : i # j => Sep(q[i], q[j]) \/ Sep(q[j], q[i])
<1>1. Len(q) \in Nat /\ \A i \in 1 .. Len(q) : q[i] \in Seg
  BY LenProperties, ElementOfSeq
<1>2. ASSUME NEW i \in 1 .. Len(q), NEW j \in 1 .. Len(q), i # j
      PROVE  Sep(q[i], q[j]) \/ Sep(q[j], q[i])
  <2>1. i < j \/ j < i
    BY <1>1, <1>2
  <2> QED BY <2>1 DEF Sorted
<1>3. ASSUME NEW i \in 1 .. Len(q), NEW j \in 1 .. Len(q), q[i] = q[j], i # j
      PROVE  FALSE
  <2>1. Sep(q[i], q[i])
    BY <1>2, <1>3
  <2>2. q[i] \in Seg
    BY <1>1
  <2> QED BY <2>1, <2>2, SegFacts DEF Sep
<1> QED BY <1>2, <1>3

\* The segments of a set, sorted by rank: every one, once, in order.
ByRank(all) ==
    [i \in 1 .. Cardinality(all) |->
        CHOOSE s \in all : Cardinality({t \in all : t.seq < s.seq}) = i - 1]

LEMMA Ranked ==
    ASSUME NEW all \in SUBSET Seg, IsFiniteSet(all), Apart(all),
           NEW new, new = ByRank(all)
    PROVE  /\ new \in Seq(Seg) /\ Len(new) = Cardinality(all) /\ Sorted(new)
           /\ \A i \in 1 .. Len(new) : new[i] \in all
           /\ \A s \in all : \E i \in 1 .. Len(new) : new[i] = s
<1> DEFINE n == Cardinality(all)
           Below(s) == {t \in all : t.seq < s.seq}
           rank == [s \in all |-> Cardinality(Below(s))]
<1>1. n \in Nat
  BY FS_CardinalityType
<1>2. ASSUME NEW s \in all
      PROVE  /\ Below(s) \in SUBSET all /\ s \notin Below(s) /\ IsFiniteSet(Below(s))
             /\ rank[s] = Cardinality(Below(s)) /\ rank[s] \in 0 .. n - 1
  <2>1. s \in Seg /\ s.seq \in Nat
    BY SegFacts
  <2>2. Below(s) \in SUBSET all /\ s \notin Below(s)
    BY <2>1
  <2> DEFINE B == Below(s)
  <2> HIDE DEF Below
  <2>3. IsFiniteSet(B) /\ Cardinality(B) <= n /\ (n = Cardinality(B) => all = B)
    BY <2>2, FS_Subset
  <2>4. Cardinality(B) \in Nat
    BY <2>3, FS_CardinalityType
  <2>5. Cardinality(B) # n
    BY <2>2, <2>3
  <2>6. Cardinality(B) \in 0 .. n - 1
    BY <1>1, <2>3, <2>4, <2>5
  <2> QED BY <2>2, <2>3, <2>6
<1>6. rank \in [all -> 0 .. n - 1]
  BY <1>2
<1> HIDE DEF rank
<1>I. \A s \in all : rank[s] \in 0 .. n - 1 /\ rank[s] \in Int
  BY <1>1, <1>6
<1>3. ASSUME NEW s \in all, NEW t \in all, s.seq < t.seq PROVE rank[s] < rank[t]
  <2>1. s \in Seg /\ s.seq \in Nat /\ t \in Seg /\ t.seq \in Nat
    BY SegFacts
  <2>2. Below(s) \in SUBSET Below(t) /\ s \in Below(t)
    <3>1. \A u \in all : u.seq \in Nat
      BY SegFacts
    <3> QED BY <1>3, <2>1, <3>1
  <2>3. s \notin Below(s) /\ IsFiniteSet(Below(t)) /\ rank[s] = Cardinality(Below(s))
        /\ rank[t] = Cardinality(Below(t)) /\ rank[s] \in Int /\ rank[t] \in Int
    BY <1>2, <1>I
  <2> HIDE DEF Below
  <2>4. Cardinality(Below(s)) <= Cardinality(Below(t))
        /\ (Cardinality(Below(t)) = Cardinality(Below(s)) => Below(t) = Below(s))
    BY <2>2, <2>3, FS_Subset
  <2>5. rank[s] # rank[t]
    BY <2>2, <2>3, <2>4
  <2> QED BY <2>3, <2>4, <2>5
<1>4. ASSUME NEW s \in all, NEW t \in all, s # t PROVE s.seq < t.seq \/ t.seq < s.seq
  <2>1. Sep(s, t) \/ Sep(t, s)
    BY <1>4 DEF Apart
  <2> QED BY <2>1, SegFacts DEF Sep
<1>5. ASSUME NEW s \in all, NEW t \in all, rank[s] = rank[t] PROVE s = t
  <2>1. rank[s] \in Int /\ rank[t] \in Int
    BY <1>I
  <2> QED BY <1>3, <1>4, <1>5, <2>1
<1>7. ASSUME NEW k \in 0 .. n - 1 PROVE \E s \in all : rank[s] = k
  <2>1. rank \in Injection(all, 0 .. n - 1)
    BY <1>5, <1>6 DEF Injection, IsInjective
  <2>2. IsFiniteSet(0 .. n - 1) /\ Cardinality(0 .. n - 1) = n
    <3>1. 0 \in Int /\ n - 1 \in Int
      BY <1>1
    <3>2. IsFiniteSet(0 .. n - 1)
          /\ Cardinality(0 .. n - 1) = IF 0 > n - 1 THEN 0 ELSE n - 1 - 0 + 1
      BY <3>1, FS_Interval
    <3> QED BY <1>1, <3>2
  <2> DEFINE T == 0 .. n - 1
  <2>3. rank \in Surjection(all, T)
    <3> HIDE DEF T
    <3>1. rank \in Injection(all, T) /\ IsFiniteSet(T) /\ Cardinality(all) = Cardinality(T)
      BY <2>1, <2>2 DEF T
    <3> QED BY <3>1, FS_Injection
  <2> QED BY <2>3 DEF Surjection
<1>8. ASSUME NEW i \in 1 .. n PROVE new[i] \in all /\ rank[new[i]] = i - 1
  <2>1. new[i] = CHOOSE s \in all : Cardinality(Below(s)) = i - 1
    BY DEF ByRank
  <2>2. i - 1 \in 0 .. n - 1
    BY <1>1
  <2>3. \A s \in all : rank[s] = Cardinality(Below(s))
    BY <1>2
  <2> HIDE DEF Below
  <2>4. \E s \in all : Cardinality(Below(s)) = i - 1
    BY <1>7, <2>2, <2>3
  <2>5. new[i] \in all /\ Cardinality(Below(new[i])) = i - 1
    BY <2>1, <2>4
  <2> QED BY <2>3, <2>5
<1>9. new \in Seq(Seg) /\ Len(new) = n
  <2>1. new \in [1 .. n -> Seg]
    BY <1>8 DEF ByRank
  <2> QED BY <1>1, <2>1, SeqFun
<1>10. ASSUME NEW s \in all PROVE \E i \in 1 .. n : new[i] = s
  <2> DEFINE i == rank[s] + 1
  <2>1. i \in 1 .. n /\ rank[s] = i - 1
    BY <1>1, <1>I
  <2> HIDE DEF i
  <2>2. new[i] \in all /\ rank[new[i]] = i - 1
    BY <1>8, <2>1
  <2> QED BY <1>5, <2>1, <2>2
<1>11. ASSUME NEW i \in 1 .. n, NEW j \in 1 .. n, i < j PROVE Sep(new[i], new[j])
  <2> DEFINE s == new[i]
             t == new[j]
  <2>1. s \in all /\ t \in all /\ rank[s] = i - 1 /\ rank[t] = j - 1
    BY <1>8
  <2>2. s \in Seg /\ t \in Seg /\ s # t
    <3>1. i - 1 # j - 1
      BY <1>11
    <3> HIDE DEF s, t
    <3> QED BY <2>1, <3>1
  <2> HIDE DEF s, t
  <2>3. ASSUME Sep(t, s) PROVE FALSE
    <3>1. t.seq < s.seq
      BY <2>2, <2>3, SegFacts DEF Sep
    <3>2. rank[t] < rank[s]
      BY <1>3, <2>1, <3>1
    <3> QED BY <1>11, <2>1, <3>2
  <2>4. Sep(s, t)
    BY <2>1, <2>2, <2>3 DEF Apart
  <2> QED BY <2>4 DEF s, t
<1>12. Sorted(new)
  BY <1>9, <1>11 DEF Sorted
<1> QED BY <1>8, <1>9, <1>10, <1>12

\* A maximal run of the bytes taken.
Run(taken, a, b) ==
    a <= b /\ a .. b \subseteq taken /\ a - 1 \notin taken /\ b + 1 \notin taken

Piece(a, b, m, seq) == [seq |-> a, mbuf |-> m, offset |-> a - seq, len |-> b - a + 1]

LEMMA CarvedFrom ==
    ASSUME NEW taken \in SUBSET Int, NEW m, NEW seq, NEW c \in Carved(taken, m, seq)
    PROVE  \E a \in taken : \E b \in taken :
                Run(taken, a, b) /\ c = Piece(a, b, m, seq)
<1> DEFINE R == {p \in taken \X taken : Run(taken, p[1], p[2])}
<1>1. Carved(taken, m, seq) = {Piece(p[1], p[2], m, seq) : p \in R}
  BY DEF Carved, Run, Piece
<1>2. PICK p \in R : c = Piece(p[1], p[2], m, seq)
  BY <1>1
<1>3. p[1] \in taken /\ p[2] \in taken /\ Run(taken, p[1], p[2])
  OBVIOUS
<1> QED BY <1>2, <1>3

LEMMA CarvedTo ==
    ASSUME NEW taken, NEW m, NEW seq, NEW a \in taken, NEW b \in taken, Run(taken, a, b)
    PROVE  Piece(a, b, m, seq) \in Carved(taken, m, seq)
<1> DEFINE R == {p \in taken \X taken : Run(taken, p[1], p[2])}
           p == <<a, b>>
<1>1. Carved(taken, m, seq) = {Piece(r[1], r[2], m, seq) : r \in R}
  BY DEF Carved, Run, Piece
<1>2. p \in taken \X taken /\ p[1] = a /\ p[2] = b
  OBVIOUS
<1> HIDE DEF p
<1>3. p \in R
  BY <1>2
<1>4. Piece(p[1], p[2], m, seq) \in Carved(taken, m, seq)
  BY <1>1, <1>3
<1> QED BY <1>2, <1>4

\* The runs around a byte taken.
LEMMA RunAround ==
    ASSUME NEW lo \in Nat, NEW hi \in Int, NEW taken \in SUBSET (lo .. hi), NEW x \in taken
    PROVE  \E a, b \in taken : a <= x /\ x <= b /\ Run(taken, a, b)
<1>0. x \in Int /\ lo <= x /\ x <= hi
  OBVIOUS
<1> DEFINE U == {d \in Nat : x + d + 1 \notin taken}
           L == {d \in Nat : x - d - 1 \notin taken}
<1>1. U \in SUBSET Nat /\ L \in SUBSET Nat
  OBVIOUS
<1>2. U # {}
  <2>1. hi - x \in Nat /\ x + (hi - x) + 1 = hi + 1 /\ hi + 1 \notin lo .. hi
    BY <1>0
  <2>2. hi - x \in U
    BY <2>1
  <2> QED BY <2>2
<1>3. L # {}
  <2>1. x - lo \in Nat /\ x - (x - lo) - 1 = lo - 1 /\ lo - 1 \notin lo .. hi
    BY <1>0
  <2>2. x - lo \in L
    BY <2>1
  <2> QED BY <2>2
<1>4. PICK u \in U : \A v \in U : u <= v
  <2> HIDE DEF U
  <2> QED BY <1>1, <1>2, Least
<1>5. PICK l \in L : \A v \in L : l <= v
  <2> HIDE DEF L
  <2> QED BY <1>1, <1>3, Least
<1> DEFINE a == x - l
           b == x + u
<1>6. u \in Nat /\ l \in Nat /\ x + u + 1 \notin taken /\ x - l - 1 \notin taken
  BY <1>4, <1>5
<1>7. ASSUME NEW z \in a .. b PROVE z \in taken
  <2>1. CASE z = x
    BY <2>1
  <2>2. CASE z > x
    <3>1. z - x - 1 \in Nat /\ ~(u <= z - x - 1) /\ x + (z - x - 1) + 1 = z
      BY <1>0, <1>6, <2>2
    <3>2. z - x - 1 \notin U
      BY <1>4, <3>1
    <3> QED BY <3>1, <3>2
  <2>3. CASE z < x
    <3>1. x - z - 1 \in Nat /\ ~(l <= x - z - 1) /\ x - (x - z - 1) - 1 = z
      BY <1>0, <1>6, <2>3
    <3>2. x - z - 1 \notin L
      BY <1>5, <3>1
    <3> QED BY <3>1, <3>2
  <2> QED BY <1>0, <1>6, <2>1, <2>2, <2>3
<1>8. a \in a .. b /\ b \in a .. b /\ a <= x /\ x <= b /\ a <= b
      /\ a - 1 = x - l - 1 /\ b + 1 = x + u + 1
  BY <1>0, <1>6
<1> HIDE DEF a, b
<1>9. a \in taken /\ b \in taken
  BY <1>7, <1>8
<1>10. Run(taken, a, b)
  BY <1>6, <1>7, <1>8 DEF Run
<1> QED BY <1>8, <1>9, <1>10

\* What insert stores: segments apart from one another that hold exactly the
\* bytes taken, through the frame's mbuf.
LEMMA CarvedFacts ==
    ASSUME NEW seq \in Nat, NEW hi \in Int, NEW taken \in SUBSET (seq .. hi),
           NEW m \in 1 .. Mbufs
    PROVE  /\ Carved(taken, m, seq) \in SUBSET Seg
           /\ IsFiniteSet(Carved(taken, m, seq)) /\ Apart(Carved(taken, m, seq))
           /\ \A c \in Carved(taken, m, seq) :
                 /\ c.mbuf = m /\ seq + c.offset = c.seq
                 /\ \A b \in c.seq .. EndSeq(c) - 1 : b \in taken
           /\ \A x \in taken : \E c \in Carved(taken, m, seq) : c.seq <= x /\ x < EndSeq(c)
<1> DEFINE C == Carved(taken, m, seq)
           mk(a, b) == Piece(a, b, m, seq)
<1>0. taken \in SUBSET Int
  OBVIOUS
<1>1. ASSUME NEW c \in C PROVE \E a, b \in taken : Run(taken, a, b) /\ c = mk(a, b)
  <2>1. c \in Carved(taken, m, seq)
    OBVIOUS
  <2>2. \E a \in taken : \E b \in taken : Run(taken, a, b) /\ c = Piece(a, b, m, seq)
    BY <1>0, <2>1, CarvedFrom
  <2> QED BY <2>2
<1>2. ASSUME NEW a \in taken, NEW b \in taken, Run(taken, a, b) PROVE mk(a, b) \in C
  BY <1>2, CarvedTo
<1> HIDE DEF C
<1>3. ASSUME NEW a \in taken, NEW b \in taken, Run(taken, a, b)
      PROVE  /\ mk(a, b) \in Seg /\ mk(a, b).mbuf = m /\ seq + mk(a, b).offset = a
             /\ mk(a, b).seq = a /\ EndSeq(mk(a, b)) = b + 1
  <2>1. a \in seq .. hi /\ b \in seq .. hi /\ a <= b
    BY <1>3 DEF Run
  <2>2. a \in Nat /\ a - seq \in Nat /\ b - a + 1 \in Nat \ {0} /\ a + (b - a + 1) = b + 1
        /\ seq + (a - seq) = a
    BY <2>1
  <2> QED BY <2>2 DEF Seg, EndSeq, Piece
<1>4. C \in SUBSET Seg
  BY <1>1, <1>3
<1>5. ASSUME NEW c \in C
      PROVE  /\ c.mbuf = m /\ seq + c.offset = c.seq /\ c.seq \in taken
             /\ \A b \in c.seq .. EndSeq(c) - 1 : b \in taken
  <2>1. PICK a \in taken, b \in taken : Run(taken, a, b) /\ c = mk(a, b)
    BY <1>1
  <2>2. c.mbuf = m /\ seq + c.offset = a /\ c.seq = a /\ EndSeq(c) = b + 1
    BY <1>3, <2>1
  <2>3. EndSeq(c) - 1 = b
    BY <1>0, <2>2
  <2> QED BY <2>1, <2>2, <2>3 DEF Run
<1>6. ASSUME NEW c \in C, NEW e \in C, c # e PROVE Sep(c, e) \/ Sep(e, c)
  <2>1. PICK a \in taken, b \in taken : Run(taken, a, b) /\ c = mk(a, b)
    BY <1>1
  <2>2. PICK g \in taken, h \in taken : Run(taken, g, h) /\ e = mk(g, h)
    BY <1>1
  <2>3. c.seq = a /\ EndSeq(c) = b + 1 /\ e.seq = g /\ EndSeq(e) = h + 1
    BY <1>3, <2>1, <2>2
  <2>4. a \in Int /\ b \in Int /\ g \in Int /\ h \in Int
    BY <1>0
  <2>5. /\ a <= b /\ \A z \in a .. b : z \in taken
        /\ a - 1 \notin taken /\ b + 1 \notin taken
    BY <2>1 DEF Run
  <2>6. /\ g <= h /\ \A z \in g .. h : z \in taken
        /\ g - 1 \notin taken /\ h + 1 \notin taken
    BY <2>2 DEF Run
  <2>7. CASE a < g
    <3>1. g - 1 \notin a .. b
      BY <2>5, <2>6
    <3>2. b + 1 <= g
      BY <2>4, <2>7, <3>1
    <3> QED BY <2>3, <3>2 DEF Sep
  <2>8. CASE g < a
    <3>1. a - 1 \notin g .. h
      BY <2>5, <2>6
    <3>2. h + 1 <= a
      BY <2>4, <2>8, <3>1
    <3> QED BY <2>3, <3>2 DEF Sep
  <2>9. CASE a = g
    <3>1. b + 1 \notin g .. h /\ h + 1 \notin a .. b
      BY <2>5, <2>6
    <3>2. b = h
      BY <2>4, <2>5, <2>6, <2>9, <3>1
    <3> QED BY <1>6, <2>1, <2>2, <2>9, <3>2
  <2> QED BY <2>4, <2>7, <2>8, <2>9
<1>7. Apart(C)
  BY <1>6 DEF Apart
<1>8. IsFiniteSet(C)
  <2> DEFINE f == [c \in C |-> c.seq]
             T == seq .. hi
  <2>1. f \in [C -> T]
    BY <1>5
  <2>2. ASSUME NEW c \in C, NEW e \in C, f[c] = f[e] PROVE c = e
    <3>1. c.seq = e.seq /\ c \in Seg /\ e \in Seg
      BY <1>4, <2>2
    <3>2. ~Sep(c, e) /\ ~Sep(e, c)
      BY <3>1, SegFacts DEF Sep
    <3> QED BY <1>6, <3>2
  <2> HIDE DEF f
  <2>3. IsFiniteSet(T)
    BY FS_Interval
  <2> HIDE DEF T
  <2>4. f \in Injection(C, T)
    BY <2>1, <2>2 DEF Injection, IsInjective
  <2> QED BY <2>3, <2>4, FS_Injection
<1>9. ASSUME NEW x \in taken PROVE \E c \in C : c.seq <= x /\ x < EndSeq(c)
  <2>1. PICK a \in taken, b \in taken : a <= x /\ x <= b /\ Run(taken, a, b)
    BY RunAround
  <2>2. mk(a, b) \in C /\ mk(a, b).seq = a /\ EndSeq(mk(a, b)) = b + 1
    BY <1>2, <1>3, <2>1
  <2>3. x < b + 1
    BY <1>0, <2>1
  <2> HIDE DEF mk
  <2> QED BY <2>1, <2>2, <2>3
<1> QED BY <1>4, <1>5, <1>7, <1>8, <1>9 DEF C

\* In a queue without repetition, positions count as segments do.
LEMMA CountRange ==
    ASSUME NEW q \in Seq(Seg), \A i, j \in 1 .. Len(q) : q[i] = q[j] => i = j, NEW m
    PROVE  /\ IsFiniteSet({s \in Range(q) : s.mbuf = m})
           /\ Count(q, m) = Cardinality({s \in Range(q) : s.mbuf = m})
<1>1. DOMAIN q = 1 .. Len(q) /\ Len(q) \in Nat
  BY LenProperties
<1> DEFINE T == {i \in DOMAIN q : q[i].mbuf = m}
           U == {s \in Range(q) : s.mbuf = m}
           f == [i \in T |-> q[i]]
<1>2. f \in [T -> U]
  BY <1>1 DEF Range
<1>3. ASSUME NEW a \in T, NEW b \in T, f[a] = f[b] PROVE a = b
  <2>1. a \in 1 .. Len(q) /\ b \in 1 .. Len(q) /\ q[a] = q[b]
    BY <1>1, <1>3
  <2> QED BY <2>1
<1>4. ASSUME NEW u \in U PROVE \E a \in T : f[a] = u
  BY <1>1 DEF Range
<1>5. IsFiniteSet(T) /\ Count(q, m) = Cardinality(T)
  <2>1. IsFiniteSet(1 .. Len(q)) /\ T \in SUBSET (1 .. Len(q))
    BY <1>1, FS_Interval
  <2>2. IsFiniteSet(T)
    <3> HIDE DEF T
    <3> QED BY <2>1, FS_Subset
  <2> QED BY <2>2 DEF Count
<1> HIDE DEF f, T, U
<1>6. f \in Bijection(T, U)
  BY <1>2, <1>3, <1>4 DEF Bijection, Injection, Surjection, IsInjective
<1>7. ExistsBijection(T, U)
  BY <1>6 DEF ExistsBijection
<1>8. IsFiniteSet(U) /\ Cardinality(U) = Cardinality(T)
  BY <1>5, <1>7, FS_Bijection
<1> QED BY <1>5, <1>8 DEF U

LEMMA RangeFinite ==
    ASSUME NEW q \in Seq(Seg)
    PROVE  IsFiniteSet(Range(q)) /\ Range(q) \in SUBSET Seg
<1>1. DOMAIN q = 1 .. Len(q) /\ Len(q) \in Nat /\ \A i \in 1 .. Len(q) : q[i] \in Seg
  BY LenProperties, ElementOfSeq
<1> DEFINE T == 1 .. Len(q)
           U == Range(q)
<1>2. q \in Surjection(T, U)
  <2>1. q \in [T -> U]
    BY <1>1, LenProperties DEF Range
  <2>2. \A u \in U : \E i \in T : q[i] = u
    BY <1>1 DEF Range
  <2> QED BY <2>1, <2>2 DEF Surjection
<1>3. IsFiniteSet(T)
  BY <1>1, FS_Interval
<1>4. U \in SUBSET Seg
  BY <1>1 DEF Range
<1> HIDE DEF T, U
<1>5. IsFiniteSet(U)
  BY <1>2, <1>3, FS_Surjection
<1> QED BY <1>4, <1>5 DEF U

Clear(q, C) == \A c \in C, i \in 1 .. Len(q) : Sep(q[i], c) \/ Sep(c, q[i])

Merges(new, q, C) ==
    /\ new \in Seq(Seg) /\ Sorted(new)
    /\ \A i \in 1 .. Len(new) : new[i] \in C \/ \E j \in 1 .. Len(q) : new[i] = q[j]
    /\ \A j \in 1 .. Len(q) : \E i \in 1 .. Len(new) : new[i] = q[j]
    /\ \A c \in C : \E i \in 1 .. Len(new) : new[i] = c
    /\ \A m : Count(new, m) = Count(q, m) + Cardinality({c \in C : c.mbuf = m})

\* insert_merged keeps the queue sorted, adds exactly the segments carved, and
\* counts with one descriptor for each of them.
LEMMA InsertedFacts ==
    ASSUME NEW q \in Seq(Seg), Sorted(q), NEW C \in SUBSET Seg, IsFiniteSet(C), Apart(C),
           Clear(q, C)
    PROVE  Merges(Inserted(q, C), q, C)
<1> DEFINE R == Range(q)
           new == Inserted(q, C)
           all == R \cup C
<1>1. DOMAIN q = 1 .. Len(q) /\ Len(q) \in Nat /\ \A i \in 1 .. Len(q) : q[i] \in Seg
  BY LenProperties, ElementOfSeq
<1>2. IsFiniteSet(R) /\ R \in SUBSET Seg
  BY RangeFinite
<1>3. \A s \in R : \E i \in 1 .. Len(q) : s = q[i]
  BY <1>1 DEF Range
<1>4. \A i \in 1 .. Len(q) : q[i] \in R
  BY <1>1 DEF Range
<1>5. new = ByRank(all)
  BY DEF Inserted, ByRank
<1>6. /\ \A i, j \in 1 .. Len(q) : q[i] = q[j] => i = j
      /\ \A i, j \in 1 .. Len(q) : i # j => Sep(q[i], q[j]) \/ Sep(q[j], q[i])
  BY SortedApart
<1> HIDE DEF R, new
<1>7. \A c \in C, s \in R : Sep(s, c) \/ Sep(c, s)
  BY <1>3 DEF Clear
<1>8. \A s, t \in R : s # t => Sep(s, t) \/ Sep(t, s)
  BY <1>3, <1>6
<1>9. all \in SUBSET Seg /\ IsFiniteSet(all)
  BY <1>2, FS_Union
<1>10. Apart(all)
  BY <1>7, <1>8 DEF Apart
<1>11. R \cap C = {}
  <2> SUFFICES ASSUME NEW s \in R, s \in C PROVE FALSE
    OBVIOUS
  <2>1. Sep(s, s) /\ s \in Seg
    BY <1>2, <1>7
  <2> QED BY <2>1, SegFacts DEF Sep
<1> HIDE DEF all
<1>12. /\ new \in Seq(Seg) /\ Len(new) = Cardinality(all) /\ Sorted(new)
       /\ \A i \in 1 .. Len(new) : new[i] \in all
       /\ \A s \in all : \E i \in 1 .. Len(new) : new[i] = s
  BY <1>5, <1>9, <1>10, Ranked
<1>13. ASSUME NEW i \in 1 .. Len(new) PROVE new[i] \in C \/ \E j \in 1 .. Len(q) : new[i] = q[j]
  <2>1. new[i] \in C \/ new[i] \in R
    BY <1>12 DEF all
  <2> QED BY <1>3, <2>1
<1>14. ASSUME NEW j \in 1 .. Len(q) PROVE \E i \in 1 .. Len(new) : new[i] = q[j]
  <2>1. q[j] \in all
    BY <1>4 DEF all
  <2> QED BY <1>12, <2>1
<1>15. ASSUME NEW c \in C PROVE \E i \in 1 .. Len(new) : new[i] = c
  <2>1. c \in all
    BY DEF all
  <2> QED BY <1>12, <2>1
<1>16. ASSUME NEW m PROVE Count(new, m) = Count(q, m) + Cardinality({c \in C : c.mbuf = m})
  <2> DEFINE A == {s \in R : s.mbuf = m}
             B == {c \in C : c.mbuf = m}
  <2>1. IsFiniteSet(A) /\ Count(q, m) = Cardinality(A)
    BY <1>6, CountRange DEF R
  <2>2. Count(new, m) = Cardinality({s \in Range(new) : s.mbuf = m})
    <3>1. \A i, j \in 1 .. Len(new) : new[i] = new[j] => i = j
      BY <1>12, SortedApart
    <3>2. new \in Seq(Seg)
      BY <1>12
    <3> QED BY <3>1, <3>2, CountRange, Zenon
  <2>3. Range(new) = all
    <3>1. DOMAIN new = 1 .. Len(new)
      BY <1>12, LenProperties
    <3> QED BY <1>12, <3>1 DEF Range
  <2>4. {s \in Range(new) : s.mbuf = m} = A \cup B
    BY <2>3 DEF all
  <2>5. IsFiniteSet(B)
    <3>1. B \in SUBSET C
      OBVIOUS
    <3> QED BY <3>1, FS_Subset
  <2>6. A \cap B = {}
    BY <1>11
  <2> HIDE DEF A, B
  <2>7. Cardinality(A \cup B) = Cardinality(A) + Cardinality(B) - Cardinality(A \cap B)
    BY <2>1, <2>5, FS_Union
  <2>8. Cardinality(A \cap B) = 0 /\ Cardinality(A) \in Nat /\ Cardinality(B) \in Nat
    BY <2>1, <2>5, <2>6, FS_EmptySet, FS_CardinalityType
  <2>C. Count(new, m) = Cardinality(A \cup B)
    BY <2>2, <2>4, Zenon
  <2>9. Count(new, m) = Count(q, m) + Cardinality(B)
    BY <2>C, <2>1, <2>7, <2>8
  <2> QED BY <2>9 DEF B
<1> QED BY <1>12, <1>13, <1>14, <1>15, <1>16 DEF Merges, new

-----------------------------------------------------------------------------
\* drain_contiguous_into.

DrainState ==
    [rest : Seq(Seg), out : Seq(Desc), freed : Seq(Seg), nxt : Nat, room : Nat, left : Int]

\* A segment beyond the gap stays, one that was overtaken is freed, and of any
\* other the rest is delivered, if there is room for it.
Stays(d, e, s) ==
    /\ e.rest = Append(d.rest, s) /\ e.out = d.out /\ e.freed = d.freed
    /\ e.nxt = d.nxt /\ e.room = d.room /\ e.left = d.left

Overtaken(d, e, s) ==
    /\ e.rest = d.rest /\ e.out = d.out /\ e.freed = Append(d.freed, s)
    /\ e.nxt = d.nxt /\ e.room = d.room /\ e.left = d.left - s.len

TailOf(d, s) ==
    [mbuf |-> s.mbuf, offset |-> s.offset + (d.nxt - s.seq), len |-> EndSeq(s) - d.nxt]

Delivered(d, e, s) ==
    /\ e.rest = d.rest /\ e.out = Append(d.out, TailOf(d, s)) /\ e.freed = d.freed
    /\ e.nxt = EndSeq(s) /\ e.room = d.nxt + d.room - EndSeq(s)
    /\ e.left = d.left - s.len

LEMMA DrainStepIs ==
    ASSUME NEW d \in DrainState, NEW s \in Seg, NEW e, e = DrainStep(d, s)
    PROVE  /\ e \in DrainState
           /\ d.nxt < s.seq => Stays(d, e, s)
           /\ EndSeq(s) <= d.nxt => Overtaken(d, e, s)
           /\ s.seq <= d.nxt /\ d.nxt < EndSeq(s) /\ EndSeq(s) <= d.nxt + d.room
                => Delivered(d, e, s) /\ TailOf(d, s) \in Desc
<1> DEFINE skip == d.nxt - s.seq
           take == Lesser(s.len - skip, d.room)
           x == [mbuf |-> s.mbuf, offset |-> s.offset + skip, len |-> take]
<1>1. /\ d.rest \in Seq(Seg) /\ d.out \in Seq(Desc) /\ d.freed \in Seq(Seg)
      /\ d.nxt \in Nat /\ d.room \in Nat /\ d.left \in Int
  BY DEF DrainState
<1>2. /\ s.seq \in Nat /\ s.len \in Nat /\ s.len > 0 /\ s.offset \in Nat
      /\ s.mbuf \in 1 .. Mbufs /\ EndSeq(s) \in Nat /\ s.seq < EndSeq(s)
      /\ EndSeq(s) = s.seq + s.len
  BY SegFacts
<1>3. CASE d.nxt < s.seq
  <2>1. e = [d EXCEPT !.rest = Append(d.rest, s)]
    BY <1>3 DEF DrainStep
  <2>2. Append(d.rest, s) \in Seq(Seg)
    BY <1>1, AppendProperties
  <2>3. Stays(d, e, s)
    BY <2>1 DEF Stays, DrainState
  <2>4. e \in DrainState
    BY <2>1, <2>2 DEF DrainState
  <2>5. ~(EndSeq(s) <= d.nxt) /\ ~(s.seq <= d.nxt)
    BY <1>1, <1>2, <1>3
  <2> QED BY <2>3, <2>4, <2>5
<1>4. CASE EndSeq(s) <= d.nxt
  <2>1. ~(d.nxt < s.seq) /\ ~(d.nxt < EndSeq(s))
    BY <1>1, <1>2, <1>4
  <2>2. e = [d EXCEPT !.freed = Append(d.freed, s), !.left = d.left - s.len]
    BY <1>4, <2>1 DEF DrainStep
  <2>3. Append(d.freed, s) \in Seq(Seg) /\ d.left - s.len \in Int
    BY <1>1, <1>2, AppendProperties
  <2>4. Overtaken(d, e, s)
    BY <2>2 DEF Overtaken, DrainState
  <2>5. e \in DrainState
    BY <2>2, <2>3 DEF DrainState
  <2> QED BY <2>1, <2>4, <2>5
<1>5. CASE ~(d.nxt < s.seq) /\ ~(EndSeq(s) <= d.nxt)
  <2>1. skip \in Nat /\ s.len - skip \in Nat /\ s.len - skip > 0
        /\ s.len - skip = EndSeq(s) - d.nxt
    BY <1>1, <1>2, <1>5
  <2>2. take \in Nat /\ take <= d.room
    BY <1>1, <2>1 DEF Lesser
  <2>3. CASE take = 0
    <3>1. e = [d EXCEPT !.freed = Append(d.freed, s), !.left = d.left - s.len]
      BY <1>5, <2>3 DEF DrainStep
    <3>2. Append(d.freed, s) \in Seq(Seg) /\ d.left - s.len \in Int
      BY <1>1, <1>2, AppendProperties
    <3>3. e \in DrainState
      BY <3>1, <3>2 DEF DrainState
    <3>4. ~(EndSeq(s) <= d.nxt + d.room)
      <4>1. ~(s.len - skip <= d.room)
        BY <1>1, <2>1, <2>3 DEF Lesser
      <4>2. ~(EndSeq(s) - d.nxt <= d.room)
        BY <2>1, <4>1, Zenon
      <4> HIDE DEF skip
      <4> QED BY <1>1, <1>2, <4>2
    <3> QED BY <1>5, <3>3, <3>4
  <2>4. CASE take # 0
    <3>1. e = [d EXCEPT !.out = Append(d.out, x), !.nxt = d.nxt + take,
                        !.room = d.room - take, !.left = d.left - s.len]
      BY <1>5, <2>4 DEF DrainStep
    <3>2. x \in Desc
      BY <1>2, <2>1, <2>2 DEF Desc
    <3> HIDE DEF x, take
    <3>3. d.nxt + take \in Nat /\ d.room - take \in Nat /\ d.left - s.len \in Int
      BY <1>1, <1>2, <2>2, SMTT(30)
    <3>4. Append(d.out, x) \in Seq(Desc)
      BY <1>1, <3>2, AppendProperties
    <3>5. e \in DrainState
      BY <3>1, <3>3, <3>4 DEF DrainState
    <3>6. ASSUME EndSeq(s) <= d.nxt + d.room PROVE Delivered(d, e, s) /\ TailOf(d, s) \in Desc
      <4>0. EndSeq(s) - d.nxt <= d.room
        BY <1>1, <1>2, <3>6
      <4>1. s.len - skip <= d.room
        BY <2>1, <4>0, Zenon
      <4>2. take = EndSeq(s) - d.nxt
        BY <2>1, <4>1 DEF take, Lesser
      <4>3. x = TailOf(d, s)
        BY <4>2 DEF x, TailOf
      <4>4. d.nxt + take = EndSeq(s) /\ d.room - take = d.nxt + d.room - EndSeq(s)
        BY <1>1, <1>2, <4>2
      <4>5. /\ e.rest = d.rest /\ e.out = Append(d.out, x) /\ e.freed = d.freed
            /\ e.nxt = d.nxt + take /\ e.room = d.room - take /\ e.left = d.left - s.len
        BY <3>1 DEF DrainState
      <4> QED BY <3>2, <4>3, <4>4, <4>5 DEF Delivered
    <3> QED BY <1>5, <3>5, <3>6
  <2> QED BY <2>3, <2>4
<1> QED BY <1>3, <1>4, <1>5

\* The loop of Drain.
DrainStart(left, nxt, room) ==
    [rest |-> <<>>, out |-> <<>>, freed |-> <<>>, nxt |-> nxt, room |-> room, left |-> left]

LEMMA DrainRun ==
    ASSUME NEW q \in Seq(Seg), NEW left \in Int, NEW nxt \in Nat, NEW room \in Nat
    PROVE  \E g \in [0 .. Len(q) -> DrainState] :
              /\ g[0] = DrainStart(left, nxt, room) /\ Drain(q, left, nxt, room) = g[Len(q)]
              /\ \A k \in 1 .. Len(q) : g[k] = DrainStep(g[k - 1], q[k])
<1> DEFINE m == Len(q)
           S == DrainState
           w == DrainStart(left, nxt, room)
           F == [k \in 1 .. m |-> [v \in S |-> DrainStep(v, q[k])]]
           Loop(f) == f = [k \in 0 .. m |-> IF k = 0 THEN w ELSE DrainStep(f[k - 1], q[k])]
           g == CHOOSE f : Loop(f)
<1>1. m \in Nat /\ \A k \in 1 .. m : q[k] \in Seg
  BY LenProperties, ElementOfSeq
<1>W. w \in S
  BY EmptySeq DEF DrainStart, DrainState
<1>2. Steps(F, m, S)
  <2>1. \A k \in 1 .. m, v \in S : DrainStep(v, q[k]) \in S
    BY <1>1, DrainStepIs
  <2> QED BY <2>1 DEF Steps
<1>3. \A k \in 1 .. m, v \in S : F[k][v] = DrainStep(v, q[k])
  OBVIOUS
<1>4. Drain(q, left, nxt, room) = g[m]
  BY DEF Drain, DrainStart
<1> HIDE DEF F, S, m, w
<1>5. PICK f : IsRun(f, F, m, S, w)
  BY <1>1, <1>W, <1>2, Iterates
<1>6. Loop(f)
  <2>1. ASSUME NEW k \in 1 .. m PROVE f[k] = DrainStep(f[k - 1], q[k])
    <3>1. k - 1 \in 0 .. m
      BY <1>1
    <3>2. f[k - 1] \in S /\ f[k] = F[k][f[k - 1]]
      BY <1>5, <3>1 DEF IsRun
    <3> QED BY <1>3, <3>2
  <2>2. \A k \in 0 .. m : k = 0 \/ k \in 1 .. m
    BY <1>1
  <2>3. \A k \in 0 .. m : f[k] = IF k = 0 THEN w ELSE DrainStep(f[k - 1], q[k])
    BY <1>5, <2>1, <2>2 DEF IsRun
  <2>4. f = [k \in 0 .. m |-> f[k]]
    BY <1>5 DEF IsRun
  <2> QED BY <2>3, <2>4
<1>7. Loop(g)
  BY <1>6
<1> HIDE DEF g
<1>8. /\ g = [k \in 0 .. m |-> g[k]] /\ g[0] = w
      /\ \A k \in 1 .. m : g[k] = DrainStep(g[k - 1], q[k])
  <2> DEFINE E == [k \in 0 .. m |-> IF k = 0 THEN w ELSE DrainStep(g[k - 1], q[k])]
  <2>1. g = E
    BY <1>7
  <2>2. E = [k \in 0 .. m |-> E[k]]
        /\ \A k \in 0 .. m : E[k] = IF k = 0 THEN w ELSE DrainStep(g[k - 1], q[k])
    OBVIOUS
  <2> HIDE DEF E
  <2>3. 0 \in 0 .. m /\ \A k \in 1 .. m : k # 0 /\ k \in 0 .. m
    BY <1>1
  <2> QED BY <2>1, <2>2, <2>3
<1>9. \A k \in 1 .. m : g[k - 1] \in S => g[k] = F[k][g[k - 1]]
  BY <1>3, <1>8
<1>10. IsRun(g, F, m, S, w)
  BY <1>1, <1>W, <1>2, <1>8, <1>9, RunOf
<1> QED BY <1>4, <1>8, <1>10 DEF IsRun, S, m, w

\* The bytes that a segment, and a queue, hold.
In(s, b) == s.seq <= b /\ b < EndSeq(s)

Held(q) == {b \in 0 .. StreamLen : Holds(q, b)}

LEMMA HoldsIn ==
    ASSUME NEW q \in Seq(Seg), NEW b
    PROVE  Holds(q, b) <=> \E i \in 1 .. Len(q) : In(q[i], b)
<1>1. DOMAIN q = 1 .. Len(q)
  BY LenProperties
<1> QED BY <1>1 DEF Holds, In

LEMMA HoldsAppend ==
    ASSUME NEW q \in Seq(Seg), NEW s \in Seg, NEW b
    PROVE  Holds(Append(q, s), b) <=> Holds(q, b) \/ In(s, b)
<1> DEFINE t == Append(q, s)
           n == Len(q)
<1>1. /\ t \in Seq(Seg) /\ Len(t) = n + 1 /\ n \in Nat
      /\ \A i \in 1 .. n : t[i] = q[i] /\ t[n + 1] = s
  BY AppendProperties, LenProperties
<1>S. t[n + 1] = s
  BY AppendProperties
<1> HIDE DEF t
<1>2. Holds(t, b) <=> \E i \in 1 .. n + 1 : In(t[i], b)
  BY <1>1, HoldsIn
<1>3. Holds(q, b) <=> \E i \in 1 .. n : In(q[i], b)
  BY HoldsIn
<1>4. ASSUME NEW i \in 1 .. n + 1, In(t[i], b) PROVE Holds(q, b) \/ In(s, b)
  <2>1. i = n + 1 \/ i \in 1 .. n
    BY <1>1
  <2> QED BY <1>1, <1>S, <1>3, <1>4, <2>1
<1>5. ASSUME NEW i \in 1 .. n, In(q[i], b) PROVE \E j \in 1 .. n + 1 : In(t[j], b)
  <2>1. i \in 1 .. n + 1 /\ t[i] = q[i]
    BY <1>1
  <2> QED BY <1>5, <2>1
<1>6. ASSUME In(s, b) PROVE \E j \in 1 .. n + 1 : In(t[j], b)
  <2>1. n + 1 \in 1 .. n + 1
    BY <1>1
  <2> QED BY <1>6, <1>S, <2>1
<1>7. Holds(t, b) <=> Holds(q, b) \/ In(s, b)
  BY <1>2, <1>3, <1>4, <1>5, <1>6
<1> QED BY <1>7 DEF t

\* The bytes a to b - 1.
Bytes(a, b) == [i \in 1 .. b - a |-> a + i - 1]

LEMMA BytesType ==
    ASSUME NEW a \in Nat, NEW b \in Nat, a <= b
    PROVE  /\ Bytes(a, b) \in Seq(Int) /\ Len(Bytes(a, b)) = b - a
           /\ \A i \in 1 .. b - a : Bytes(a, b)[i] = a + i - 1
<1>1. b - a \in Nat
  OBVIOUS
<1>2. Bytes(a, b) \in [1 .. b - a -> Int]
  BY DEF Bytes
<1>3. Bytes(a, b) \in Seq(Int) /\ Len(Bytes(a, b)) = b - a
  BY <1>1, <1>2, SeqFun
<1> QED BY <1>3 DEF Bytes

LEMMA BytesConcat ==
    ASSUME NEW a \in Nat, NEW b \in Nat, NEW c \in Nat, a <= b, b <= c
    PROVE  Bytes(a, b) \o Bytes(b, c) = Bytes(a, c)
<1> DEFINE s == Bytes(a, b)
           t == Bytes(b, c)
           u == Bytes(a, c)
<1>1. s \in Seq(Int) /\ Len(s) = b - a /\ \A i \in 1 .. b - a : s[i] = a + i - 1
  BY BytesType
<1>2. t \in Seq(Int) /\ Len(t) = c - b /\ \A i \in 1 .. c - b : t[i] = b + i - 1
  BY BytesType
<1>3. u \in Seq(Int) /\ Len(u) = c - a /\ \A i \in 1 .. c - a : u[i] = a + i - 1
  BY BytesType
<1> HIDE DEF s, t, u
<1>4. /\ s \o t \in Seq(Int) /\ Len(s \o t) = Len(s) + Len(t)
      /\ \A i \in 1 .. Len(s) + Len(t) : (s \o t)[i] = IF i <= Len(s) THEN s[i] ELSE t[i - Len(s)]
  BY <1>1, <1>2, ConcatProperties
<1>5. Len(s) + Len(t) = c - a
  BY <1>1, <1>2
<1>6. ASSUME NEW i \in 1 .. c - a PROVE (s \o t)[i] = u[i]
  <2>1. (s \o t)[i] = IF i <= b - a THEN s[i] ELSE t[i - (b - a)]
    BY <1>1, <1>4, <1>5
  <2>2. CASE i <= b - a
    BY <1>1, <1>3, <2>1, <2>2
  <2>3. CASE ~(i <= b - a)
    <3>1. i - (b - a) \in 1 .. c - b /\ b + (i - (b - a)) - 1 = a + i - 1
      BY <2>3
    <3> QED BY <1>2, <1>3, <2>1, <2>3, <3>1
  <2> QED BY <2>2, <2>3
<1>7. s \o t = u
  BY <1>3, <1>4, <1>5, <1>6, SeqEqual
<1> QED BY <1>7 DEF s, t, u

\* Taking an interval out of a finite set.
LEMMA IntervalOut ==
    ASSUME NEW A, IsFiniteSet(A), NEW a \in Int, NEW n \in Nat, a .. a + n - 1 \subseteq A
    PROVE  Cardinality(A \ (a .. a + n - 1)) = Cardinality(A) - n
<1> DEFINE I == a .. a + n - 1
           B == A \ I
<1>1. IsFiniteSet(I) /\ Cardinality(I) = n
  <2>1. a + n - 1 \in Int
    OBVIOUS
  <2>2. IsFiniteSet(I) /\ Cardinality(I) = IF a > a + n - 1 THEN 0 ELSE a + n - 1 - a + 1
    BY <2>1, FS_Interval
  <2> QED BY <2>2
<1>2. B \in SUBSET A /\ B \cap I = {} /\ B \cup I = A
  OBVIOUS
<1> HIDE DEF I, B
<1>3. IsFiniteSet(B)
  BY <1>2, FS_Subset
<1>4. Cardinality(B \cup I) = Cardinality(B) + Cardinality(I) - Cardinality(B \cap I)
  BY <1>1, <1>3, FS_Union
<1>5. Cardinality(B \cap I) = 0 /\ Cardinality(B) \in Nat
  BY <1>2, <1>3, FS_EmptySet, FS_CardinalityType
<1>E. Cardinality(A) = Cardinality(B \cup I)
  BY <1>2, Zenon
<1>6. Cardinality(A) = Cardinality(B) + n
  BY <1>1, <1>E, <1>4, <1>5
<1>7. Cardinality(B) = Cardinality(A) - n
  BY <1>5, <1>6
<1> QED BY <1>7 DEF B, I

\* What a drain is given: a sorted queue that shows what it stands for, within
\* the stream and within the room from nxt.
Drainable(q, left, nxt, room, pool) ==
    /\ q \in Seq(Seg) /\ Sorted(q) /\ pool \in Pool
    /\ nxt \in Nat /\ room \in Nat /\ nxt <= StreamLen
    /\ left = Cardinality(Held(q))
    /\ \A i \in 1 .. Len(q) :
          /\ EndSeq(q[i]) <= nxt + room /\ EndSeq(q[i]) <= StreamLen
          /\ pool[q[i].mbuf].base + q[i].offset = q[i].seq

\* The bytes not yet taken out after the first k segments.
Still(rest, q, k) ==
    {b \in 0 .. StreamLen : Holds(rest, b) \/ \E j \in k + 1 .. Len(q) : In(q[j], b)}

\* After the first k segments: where the drain stands, what remains,
DrainQueue(d, q, nxt, room, k) ==
    /\ nxt <= d.nxt /\ d.nxt + d.room = nxt + room /\ d.nxt <= StreamLen
    /\ Sorted(d.rest)
    /\ \A i \in 1 .. Len(d.rest) :
          d.rest[i].seq > d.nxt /\ \E j \in 1 .. k : d.rest[i] = q[j]
    /\ \A j \in 1 .. k :
          EndSeq(q[j]) <= d.nxt \/ \E i \in 1 .. Len(d.rest) : d.rest[i] = q[j]

\* which descriptors carry the references,
DrainRefs(d, q, k) ==
    \A m : Count(SubSeq(q, 1, k), m) = Count(d.rest, m) + Count(d.out, m) + Count(d.freed, m)

\* how many bytes remain, and what was delivered.
DrainBytes(d, q, k) == d.left = Cardinality(Still(d.rest, q, k))

DrainShows(d, nxt, pool) == Contents(pool, d.out) = Bytes(nxt, d.nxt)

\* The three cases of a step: the room never binds.
LEMMA DrainCases ==
    ASSUME NEW q, NEW left, NEW nxt, NEW room, NEW pool, Drainable(q, left, nxt, room, pool),
           NEW k \in 1 .. Len(q), NEW d \in DrainState, DrainQueue(d, q, nxt, room, k - 1),
           NEW e, e = DrainStep(d, q[k])
    PROVE  /\ e \in DrainState /\ q[k] \in Seg
           /\ \/ d.nxt < q[k].seq /\ Stays(d, e, q[k])
              \/ EndSeq(q[k]) <= d.nxt /\ Overtaken(d, e, q[k])
              \/ /\ q[k].seq <= d.nxt /\ d.nxt < EndSeq(q[k])
                 /\ Delivered(d, e, q[k]) /\ TailOf(d, q[k]) \in Desc
<1> DEFINE s == q[k]
<1>1. q \in Seq(Seg) /\ s \in Seg
  BY ElementOfSeq DEF Drainable
<1>2. EndSeq(s) <= d.nxt + d.room
  BY DEF Drainable, DrainQueue
<1>3. d.nxt \in Nat /\ d.room \in Nat /\ s.seq \in Nat /\ EndSeq(s) \in Nat
  BY <1>1, SegFacts DEF DrainState
<1>4. e = DrainStep(d, s)
  OBVIOUS
<1> HIDE DEF s
<1>5. /\ e \in DrainState
      /\ d.nxt < s.seq => Stays(d, e, s)
      /\ EndSeq(s) <= d.nxt => Overtaken(d, e, s)
      /\ s.seq <= d.nxt /\ d.nxt < EndSeq(s) /\ EndSeq(s) <= d.nxt + d.room
           => Delivered(d, e, s) /\ TailOf(d, s) \in Desc
  BY <1>1, <1>4, DrainStepIs
<1>6. d.nxt < s.seq \/ EndSeq(s) <= d.nxt \/ (s.seq <= d.nxt /\ d.nxt < EndSeq(s))
  BY <1>3
<1> QED BY <1>1, <1>2, <1>5, <1>6 DEF s

LEMMA DrainQueueStep ==
    ASSUME NEW q, NEW left, NEW nxt, NEW room, NEW pool, Drainable(q, left, nxt, room, pool),
           NEW k \in 1 .. Len(q), NEW d \in DrainState, DrainQueue(d, q, nxt, room, k - 1),
           NEW e, e = DrainStep(d, q[k])
    PROVE  DrainQueue(e, q, nxt, room, k)
<1> DEFINE s == q[k]
<1>0. q \in Seq(Seg) /\ Len(q) \in Nat /\ Sorted(q) /\ nxt \in Nat /\ room \in Nat
      /\ \A i \in 1 .. Len(q) : q[i] \in Seg /\ EndSeq(q[i]) <= StreamLen
  BY LenProperties, ElementOfSeq DEF Drainable
<1>1. s \in Seg /\ e \in DrainState
      /\ \/ d.nxt < s.seq /\ Stays(d, e, s)
         \/ EndSeq(s) <= d.nxt /\ Overtaken(d, e, s)
         \/ /\ s.seq <= d.nxt /\ d.nxt < EndSeq(s)
            /\ Delivered(d, e, s) /\ TailOf(d, s) \in Desc
  BY DrainCases
<1>2. /\ d.nxt \in Nat /\ d.room \in Nat /\ d.rest \in Seq(Seg) /\ Len(d.rest) \in Nat
      /\ s.seq \in Nat /\ EndSeq(s) \in Nat /\ s.seq < EndSeq(s)
      /\ \A i \in 1 .. Len(d.rest) : d.rest[i] \in Seg
  BY <1>1, SegFacts, LenProperties, ElementOfSeq DEF DrainState
<1>3. /\ nxt <= d.nxt /\ d.nxt + d.room = nxt + room /\ d.nxt <= StreamLen
      /\ Sorted(d.rest)
      /\ \A i \in 1 .. Len(d.rest) :
            d.rest[i].seq > d.nxt /\ \E j \in 1 .. k - 1 : d.rest[i] = q[j]
      /\ \A j \in 1 .. k - 1 :
            EndSeq(q[j]) <= d.nxt \/ \E i \in 1 .. Len(d.rest) : d.rest[i] = q[j]
  BY DEF DrainQueue
<1>4. ASSUME NEW i \in 1 .. Len(d.rest)
      PROVE  Sep(d.rest[i], s) /\ \E j \in 1 .. k : d.rest[i] = q[j]
  <2>1. PICK j \in 1 .. k - 1 : d.rest[i] = q[j]
    BY <1>3
  <2>2. j \in 1 .. Len(q) /\ j < k /\ j \in 1 .. k
    BY <1>0
  <2>3. Sep(q[j], q[k])
    BY <1>0, <2>2 DEF Sorted
  <2> QED BY <2>1, <2>2, <2>3
<1>5. \A j \in 1 .. k : j = k \/ j \in 1 .. k - 1
  BY <1>0
<1>K. k \in 1 .. k
  BY <1>0
<1>6. CASE d.nxt < s.seq /\ Stays(d, e, s)
  <2> DEFINE n == Len(d.rest)
  <2>1. e.rest = Append(d.rest, s) /\ e.nxt = d.nxt /\ e.room = d.room
    BY <1>6 DEF Stays
  <2>2. Len(e.rest) = n + 1 /\ e.rest[n + 1] = s /\ \A i \in 1 .. n : e.rest[i] = d.rest[i]
    BY <1>1, <1>2, <2>1, AppendProperties
  <2>3. \A i \in 1 .. n + 1 : i = n + 1 \/ i \in 1 .. n
    BY <1>2
  <2>N. n + 1 \in 1 .. n + 1 /\ \A i \in 1 .. n : i \in 1 .. n + 1
    BY <1>2
  <2>4. Sorted(e.rest)
    <3> SUFFICES ASSUME NEW i \in 1 .. n + 1, NEW j \in 1 .. n + 1, i < j
                 PROVE  Sep(e.rest[i], e.rest[j])
      BY <2>2 DEF Sorted
    <3>1. i \in 1 .. n /\ i # n + 1
      BY <1>2
    <3>2. CASE j = n + 1
      BY <1>4, <2>2, <3>1, <3>2
    <3>3. CASE j \in 1 .. n
      BY <1>3, <2>2, <3>1, <3>3 DEF Sorted
    <3> QED BY <2>3, <3>2, <3>3
  <2>5. ASSUME NEW i \in 1 .. n + 1
        PROVE  e.rest[i].seq > e.nxt /\ \E j \in 1 .. k : e.rest[i] = q[j]
    <3>1. CASE i = n + 1
      <4>1. e.rest[i] = q[k] /\ s.seq > d.nxt
        BY <1>2, <1>6, <2>2, <3>1
      <4> QED BY <1>K, <2>1, <4>1
    <3>2. CASE i \in 1 .. n
      BY <1>3, <1>4, <2>1, <2>2, <3>2
    <3> QED BY <2>3, <3>1, <3>2
  <2>6. ASSUME NEW j \in 1 .. k
        PROVE  EndSeq(q[j]) <= e.nxt \/ \E i \in 1 .. n + 1 : e.rest[i] = q[j]
    <3>1. CASE j = k
      BY <2>2, <2>N, <3>1
    <3>2. CASE j \in 1 .. k - 1
      <4>1. EndSeq(q[j]) <= d.nxt \/ \E i \in 1 .. n : d.rest[i] = q[j]
        BY <1>3, <3>2
      <4> QED BY <2>1, <2>2, <2>N, <4>1
    <3> QED BY <1>5, <3>1, <3>2
  <2> QED BY <1>3, <2>1, <2>2, <2>4, <2>5, <2>6 DEF DrainQueue
<1>7. CASE ~(d.nxt < s.seq)
  <2>1. Len(d.rest) = 0
    <3> SUFFICES ASSUME Len(d.rest) # 0 PROVE FALSE
      OBVIOUS
    <3>1. 1 \in 1 .. Len(d.rest)
      BY <1>2
    <3>2. Sep(d.rest[1], s) /\ d.rest[1].seq > d.nxt /\ d.rest[1] \in Seg
      BY <1>2, <1>3, <1>4, <3>1
    <3> HIDE DEF s
    <3> QED BY <1>2, <1>7, <3>2, SegFacts DEF Sep
  <2>2. e.rest = d.rest /\ e.nxt \in Nat /\ e.nxt + e.room = d.nxt + d.room
        /\ d.nxt <= e.nxt /\ e.nxt <= StreamLen /\ EndSeq(s) <= e.nxt
    <3>1. CASE EndSeq(s) <= d.nxt /\ Overtaken(d, e, s)
      BY <1>2, <1>3, <3>1 DEF Overtaken
    <3>2. CASE d.nxt < EndSeq(s) /\ Delivered(d, e, s)
      <4>1. e.rest = d.rest /\ e.nxt = EndSeq(s) /\ e.room = d.nxt + d.room - EndSeq(s)
        BY <3>2 DEF Delivered
      <4>2. EndSeq(s) <= StreamLen
        BY <1>0
      <4> HIDE DEF s
      <4> QED BY <1>2, <3>2, <4>1, <4>2
    <3> QED BY <1>1, <1>7, <3>1, <3>2
  <2>3. ASSUME NEW j \in 1 .. k PROVE EndSeq(q[j]) <= e.nxt
    <3>1. CASE j = k
      BY <2>2, <3>1
    <3>2. CASE j \in 1 .. k - 1
      <4>1. EndSeq(q[j]) <= d.nxt
        BY <1>3, <2>1, <3>2
      <4>2. EndSeq(q[j]) \in Nat
        <5>1. j \in 1 .. Len(q)
          BY <1>0
        <5> QED BY <1>0, <5>1, SegFacts
      <4> QED BY <1>2, <2>2, <4>1, <4>2
    <3> QED BY <1>5, <3>1, <3>2
  <2>4. nxt <= e.nxt
    BY <1>0, <1>2, <1>3, <2>2
  <2>5. \A i \in 1 .. Len(e.rest) : FALSE
    BY <2>1, <2>2
  <2>6. e.nxt + e.room = nxt + room
    BY <1>3, <2>2
  <2> QED BY <2>2, <2>3, <2>4, <2>5, <2>6 DEF DrainQueue, Sorted
<1>8. d.nxt < s.seq => ~(EndSeq(s) <= d.nxt) /\ ~(s.seq <= d.nxt)
  BY <1>2
<1> QED BY <1>1, <1>6, <1>7, <1>8

LEMMA DrainRefsStep ==
    ASSUME NEW q, NEW left, NEW nxt, NEW room, NEW pool, Drainable(q, left, nxt, room, pool),
           NEW k \in 1 .. Len(q), NEW d \in DrainState, DrainQueue(d, q, nxt, room, k - 1),
           DrainRefs(d, q, k - 1), NEW e, e = DrainStep(d, q[k])
    PROVE  DrainRefs(e, q, k)
<1> DEFINE s == q[k]
           p == SubSeq(q, 1, k - 1)
<1>1. s \in Seg /\ e \in DrainState
      /\ \/ Stays(d, e, s)
         \/ Overtaken(d, e, s)
         \/ Delivered(d, e, s) /\ TailOf(d, s) \in Desc
  BY DrainCases
<1>2. q \in Seq(Seg) /\ d.rest \in Seq(Seg) /\ d.out \in Seq(Desc) /\ d.freed \in Seq(Seg)
  BY DEF Drainable, DrainState
<1>3. p \in Seq(Seg) /\ SubSeq(q, 1, k) = Append(p, s)
  BY <1>2, SplitLast
<1> SUFFICES ASSUME NEW m
             PROVE  Count(SubSeq(q, 1, k), m) = Count(e.rest, m) + Count(e.out, m) + Count(e.freed, m)
  BY DEF DrainRefs
<1> DEFINE one == IF s.mbuf = m THEN 1 ELSE 0
           T == TailOf(d, s)
<1>4. Count(p, m) = Count(d.rest, m) + Count(d.out, m) + Count(d.freed, m)
  BY DEF DrainRefs
<1>M. T.mbuf = s.mbuf
  BY DEF TailOf
<1> HIDE DEF p, s, T
<1>5. Count(SubSeq(q, 1, k), m) = Count(p, m) + one
  <2>1. p \in Seq(Seg) /\ s \in Seg
    BY <1>1, <1>3
  <2>2. Count(Append(p, s), m) = Count(p, m) + (IF s.mbuf = m THEN 1 ELSE 0)
    BY <2>1, CountAppend
  <2>3. SubSeq(q, 1, k) = Append(p, s)
    BY <1>3
  <2> QED BY <2>2, <2>3
<1>6. Count(d.rest, m) \in Nat /\ Count(d.out, m) \in Nat /\ Count(d.freed, m) \in Nat /\ one \in Nat
  BY <1>2, CountType
<1> DEFINE a == Count(d.rest, m)
           b == Count(d.out, m)
           c == Count(d.freed, m)
<1>7. CASE Stays(d, e, s)
  <2>1. e.rest = Append(d.rest, s) /\ e.out = d.out /\ e.freed = d.freed
    BY <1>7 DEF Stays
  <2>2. Count(e.rest, m) = a + one
    BY <1>1, <1>2, <2>1, CountAppend
  <2>3. Count(e.out, m) = b /\ Count(e.freed, m) = c
    BY <2>1
  <2> HIDE DEF one, a, b, c
  <2> QED BY <1>4, <1>5, <1>6, <2>2, <2>3 DEF a, b, c
<1>8. CASE Overtaken(d, e, s)
  <2>1. e.freed = Append(d.freed, s) /\ e.out = d.out /\ e.rest = d.rest
    BY <1>8 DEF Overtaken
  <2>2. Count(e.freed, m) = c + one
    BY <1>1, <1>2, <2>1, CountAppend
  <2>3. Count(e.out, m) = b /\ Count(e.rest, m) = a
    BY <2>1
  <2> HIDE DEF one, a, b, c
  <2> QED BY <1>4, <1>5, <1>6, <2>2, <2>3 DEF a, b, c
<1>9. CASE Delivered(d, e, s) /\ T \in Desc
  <2>1. e.freed = d.freed /\ e.out = Append(d.out, T) /\ e.rest = d.rest
    BY <1>9 DEF Delivered, T
  <2>2. Count(e.out, m) = b + one
    BY <1>M, <1>9, <1>2, <2>1, CountAppend
  <2>3. Count(e.freed, m) = c /\ Count(e.rest, m) = a
    BY <2>1
  <2> HIDE DEF one, a, b, c
  <2> QED BY <1>4, <1>5, <1>6, <2>2, <2>3 DEF a, b, c
<1> QED BY <1>1, <1>7, <1>8, <1>9 DEF T

LEMMA DrainBytesStep ==
    ASSUME NEW q, NEW left, NEW nxt, NEW room, NEW pool, Drainable(q, left, nxt, room, pool),
           NEW k \in 1 .. Len(q), NEW d \in DrainState, DrainQueue(d, q, nxt, room, k - 1),
           DrainBytes(d, q, k - 1), NEW e, e = DrainStep(d, q[k]), StreamLen \in Nat
    PROVE  DrainBytes(e, q, k)
<1> DEFINE s == q[k]
           A == Still(d.rest, q, k - 1)
           B == Still(e.rest, q, k)
           later(b) == \E j \in k + 1 .. Len(q) : In(q[j], b)
<1>0. q \in Seq(Seg) /\ Len(q) \in Nat /\ Sorted(q)
      /\ \A i \in 1 .. Len(q) : q[i] \in Seg /\ EndSeq(q[i]) <= StreamLen
  BY LenProperties, ElementOfSeq DEF Drainable
<1>1. s \in Seg /\ e \in DrainState
      /\ \/ Stays(d, e, s)
         \/ Overtaken(d, e, s)
         \/ Delivered(d, e, s)
  BY DrainCases
<1>2. /\ s.seq \in Nat /\ EndSeq(s) \in Nat /\ s.len \in Nat /\ EndSeq(s) = s.seq + s.len
      /\ EndSeq(s) <= StreamLen /\ d.rest \in Seq(Seg)
  BY <1>0, <1>1, SegFacts DEF DrainState
<1>3. A = {b \in 0 .. StreamLen : Holds(d.rest, b) \/ In(s, b) \/ later(b)}
  <2>1. \A b : (\E j \in (k - 1) + 1 .. Len(q) : In(q[j], b)) <=> In(s, b) \/ later(b)
    <3> TAKE b
    <3>1. \A j \in (k - 1) + 1 .. Len(q) : j = k \/ j \in k + 1 .. Len(q)
      BY <1>0
    <3>2. k \in (k - 1) + 1 .. Len(q)
      BY <1>0
    <3>3. \A j \in k + 1 .. Len(q) : j \in (k - 1) + 1 .. Len(q)
      BY <1>0
    <3> QED BY <3>1, <3>2, <3>3
  <2> HIDE DEF later, s
  <2> QED BY <2>1 DEF Still
<1>4. B = {b \in 0 .. StreamLen : Holds(e.rest, b) \/ later(b)}
  BY DEF Still
<1>5. d.left = Cardinality(A)
  BY DEF DrainBytes
<1>6. CASE Stays(d, e, s)
  <2>1. e.rest = Append(d.rest, s) /\ e.left = d.left
    BY <1>6 DEF Stays
  <2>2. \A b : Holds(e.rest, b) <=> Holds(d.rest, b) \/ In(s, b)
    BY <1>1, <1>2, <2>1, HoldsAppend
  <2> HIDE DEF later, s
  <2>3. A = B
    BY <1>3, <1>4, <2>2
  <2> QED BY <1>5, <2>1, <2>3 DEF DrainBytes
<1>7. CASE Overtaken(d, e, s) \/ Delivered(d, e, s)
  <2> DEFINE I == s.seq .. s.seq + s.len - 1
  <2>1. e.rest = d.rest /\ e.left = d.left - s.len
    BY <1>7 DEF Overtaken, Delivered
  <2>2. \A b \in Int : b \in I <=> In(s, b)
    <3> HIDE DEF s
    <3> QED BY <1>2 DEF In
  <2>3. ASSUME NEW b \in Int, In(s, b) PROVE b \in 0 .. StreamLen /\ ~Holds(d.rest, b) /\ ~later(b)
    <3>1. s.seq <= b /\ b < EndSeq(s)
      BY <2>3 DEF In
    <3>2. b \in 0 .. StreamLen
      <4> HIDE DEF s
      <4> QED BY <1>2, <3>1
    <3>3. ASSUME Holds(d.rest, b) PROVE FALSE
      <4>1. PICK i \in 1 .. Len(d.rest) : In(d.rest[i], b)
        BY <1>2, <3>3, HoldsIn
      <4>2. PICK j \in 1 .. k - 1 : d.rest[i] = q[j]
        BY DEF DrainQueue
      <4>3. j \in 1 .. Len(q) /\ j < k
        BY <1>0
      <4>4. Sep(q[j], q[k]) /\ q[j] \in Seg
        BY <1>0, <4>3 DEF Sorted
      <4>5. b < EndSeq(q[j]) /\ EndSeq(q[j]) <= s.seq /\ EndSeq(q[j]) \in Nat
        BY <4>1, <4>2, <4>4, SegFacts DEF In, Sep
      <4> HIDE DEF s
      <4> QED BY <1>2, <3>1, <4>5
    <3>4. ASSUME later(b) PROVE FALSE
      <4>1. PICK j \in k + 1 .. Len(q) : In(q[j], b)
        BY <3>4
      <4>2. j \in 1 .. Len(q) /\ k < j
        BY <1>0
      <4>3. Sep(q[k], q[j]) /\ q[j] \in Seg
        BY <1>0, <4>2 DEF Sorted
      <4>4. q[j].seq <= b /\ EndSeq(s) <= q[j].seq /\ q[j].seq \in Nat
        BY <4>1, <4>3, SegFacts DEF In, Sep
      <4> HIDE DEF s
      <4> QED BY <1>2, <3>1, <4>4
    <3> QED BY <3>2, <3>3, <3>4
  <2>I. \A b \in I : b \in Int
    <3> HIDE DEF s
    <3> QED BY <1>2
  <2>Z. \A b \in 0 .. StreamLen : b \in Int
    OBVIOUS
  <2> HIDE DEF later, s, I
  <2>4. I \subseteq A
    BY <1>3, <2>2, <2>3, <2>I
  <2>5. B = A \ I
    BY <1>3, <1>4, <2>1, <2>2, <2>3, <2>Z
  <2>6. IsFiniteSet(A)
    <3>1. A \in SUBSET (0 .. StreamLen)
      BY <1>3
    <3>2. IsFiniteSet(0 .. StreamLen)
      BY FS_Interval
    <3> HIDE DEF A
    <3> QED BY <3>1, <3>2, FS_Subset
  <2> HIDE DEF A, B
  <2>7. Cardinality(A \ I) = Cardinality(A) - s.len
    <3>1. s.seq \in Int /\ s.len \in Nat
      BY <1>2
    <3>2. s.seq .. s.seq + s.len - 1 \subseteq A
      BY <2>4 DEF I
    <3> QED BY <2>6, <3>1, <3>2, IntervalOut DEF I
  <2>8. e.left = Cardinality(B)
    BY <1>5, <2>1, <2>5, <2>7
  <2> QED BY <2>8 DEF DrainBytes, B
<1> QED BY <1>1, <1>6, <1>7

LEMMA DrainShowsStep ==
    ASSUME NEW q, NEW left, NEW nxt, NEW room, NEW pool, Drainable(q, left, nxt, room, pool),
           NEW k \in 1 .. Len(q), NEW d \in DrainState, DrainQueue(d, q, nxt, room, k - 1),
           DrainShows(d, nxt, pool), NEW e, e = DrainStep(d, q[k])
    PROVE  DrainShows(e, nxt, pool)
<1> DEFINE s == q[k]
           T == TailOf(d, s)
<1>1. s \in Seg /\ e \in DrainState
      /\ \/ Stays(d, e, s)
         \/ Overtaken(d, e, s)
         \/ d.nxt < EndSeq(s) /\ s.seq <= d.nxt /\ Delivered(d, e, s) /\ T \in Desc
  BY DrainCases
<1>2. pool \in Pool /\ nxt \in Nat /\ pool[s.mbuf].base + s.offset = s.seq
  BY DEF Drainable
<1>3. d.out \in Seq(Desc) /\ d.nxt \in Nat /\ nxt <= d.nxt
  BY DEF DrainState, DrainQueue
<1>4. CASE Stays(d, e, s) \/ Overtaken(d, e, s)
  BY <1>4 DEF Stays, Overtaken, DrainShows
<1>5. CASE d.nxt < EndSeq(s) /\ s.seq <= d.nxt /\ Delivered(d, e, s) /\ T \in Desc
  <2>1. e.out = Append(d.out, T) /\ e.nxt = EndSeq(s)
    BY <1>5 DEF Delivered
  <2>2. /\ T.mbuf = s.mbuf /\ T.offset = s.offset + (d.nxt - s.seq)
        /\ T.len = EndSeq(s) - d.nxt
    BY DEF TailOf
  <2>3. s.seq \in Nat /\ EndSeq(s) \in Nat /\ s.offset \in Nat /\ s.mbuf \in 1 .. Mbufs
    BY <1>1, SegFacts
  <2>4. pool[s.mbuf].base \in Int
    BY <1>2, <2>3 DEF Pool
  <2> HIDE DEF T, s
  <2>L. d.nxt <= EndSeq(s)
    BY <1>3, <1>5, <2>3
  <2>5. /\ Content(pool, T) \in Seq(Int) /\ Len(Content(pool, T)) = T.len
        /\ \A i \in 1 .. T.len : Content(pool, T)[i] = pool[T.mbuf].base + T.offset + i - 1
    BY <1>2, <1>5, ContentType
  <2>6. /\ Bytes(d.nxt, EndSeq(s)) \in Seq(Int) /\ Len(Bytes(d.nxt, EndSeq(s))) = EndSeq(s) - d.nxt
        /\ \A i \in 1 .. EndSeq(s) - d.nxt : Bytes(d.nxt, EndSeq(s))[i] = d.nxt + i - 1
    BY <1>3, <2>L, <2>3, BytesType
  <2>7. Content(pool, T) = Bytes(d.nxt, EndSeq(s))
    <3>1. \A i \in 1 .. EndSeq(s) - d.nxt :
             pool[s.mbuf].base + (s.offset + (d.nxt - s.seq)) + i - 1 = d.nxt + i - 1
      BY <1>2, <1>3, <2>3, <2>4, SMTT(30)
    <3>2. \A i \in 1 .. EndSeq(s) - d.nxt : Content(pool, T)[i] = Bytes(d.nxt, EndSeq(s))[i]
      BY <2>2, <2>5, <2>6, <3>1
    <3> QED BY <2>2, <2>5, <2>6, <3>2, SeqEqual
  <2>8. Contents(pool, e.out) = Contents(pool, d.out) \o Content(pool, T)
    <3>1. Append(d.out, T) = d.out \o <<T>> /\ <<T>> \in Seq(Desc)
      BY <1>3, <1>5, AppendIsConcat
    <3>2. Contents(pool, <<T>>) = Content(pool, T)
      BY <1>2, <1>5, ContentsOne
    <3>3. Contents(pool, d.out \o <<T>>) = Contents(pool, d.out) \o Contents(pool, <<T>>)
      BY <1>2, <1>3, <3>1, ContentsConcat
    <3> QED BY <2>1, <3>1, <3>2, <3>3
  <2>9. Bytes(nxt, d.nxt) \o Bytes(d.nxt, EndSeq(s)) = Bytes(nxt, EndSeq(s))
    BY <1>2, <1>3, <2>L, <2>3, BytesConcat
  <2> QED BY <2>1, <2>7, <2>8, <2>9 DEF DrainShows
<1> QED BY <1>1, <1>4, <1>5

\* What a drain returns: the segments beyond the new nxt, every reference
\* accounted for, the count of the bytes kept, and the bytes up to the new nxt.
LEMMA DrainFacts ==
    ASSUME NEW q, NEW left, NEW nxt, NEW room, NEW pool, Drainable(q, left, nxt, room, pool),
           StreamLen \in Nat, NEW r, r = Drain(q, left, nxt, room)
    PROVE  /\ r \in DrainState /\ DrainQueue(r, q, nxt, room, Len(q))
           /\ \A m : Count(q, m) = Count(r.rest, m) + Count(r.out, m) + Count(r.freed, m)
           /\ r.left = Cardinality(Held(r.rest))
           /\ Contents(pool, r.out) = Bytes(nxt, r.nxt)
<1> DEFINE n == Len(q)
           All(d, k) == /\ DrainQueue(d, q, nxt, room, k) /\ DrainRefs(d, q, k)
                        /\ DrainBytes(d, q, k) /\ DrainShows(d, nxt, pool)
<1>0. /\ q \in Seq(Seg) /\ n \in Nat /\ pool \in Pool /\ nxt \in Nat /\ room \in Nat
      /\ nxt <= StreamLen /\ left = Cardinality(Held(q))
  BY LenProperties DEF Drainable
<1>1. left \in Int
  <2>1. IsFiniteSet(0 .. StreamLen)
    BY FS_Interval
  <2>2. Held(q) \in SUBSET (0 .. StreamLen)
    BY DEF Held
  <2>3. IsFiniteSet(Held(q))
    BY <2>1, <2>2, FS_Subset
  <2>4. Cardinality(Held(q)) \in Nat
    BY <2>3, FS_CardinalityType
  <2> QED BY <1>0, <2>4
<1>2. PICK g \in [0 .. n -> DrainState] :
              /\ g[0] = DrainStart(left, nxt, room) /\ Drain(q, left, nxt, room) = g[n]
              /\ \A k \in 1 .. n : g[k] = DrainStep(g[k - 1], q[k])
  BY <1>0, <1>1, DrainRun, ZenonT(60)
<1> DEFINE G == {k \in 0 .. n : All(g[k], k)}
<1>E. <<>> \in Seq(Seg) /\ Len(<<>>) = 0
  BY EmptySeq
<1>3. 0 \in G
  <2> DEFINE d == g[0]
  <2>1. d.rest = <<>> /\ d.out = <<>> /\ d.freed = <<>> /\ d.nxt = nxt /\ d.room = room /\ d.left = left
    BY <1>2 DEF DrainStart
  <2> HIDE DEF d
  <2>2. DrainQueue(d, q, nxt, room, 0)
    BY <1>E, <1>0, <2>1 DEF DrainQueue, Sorted
  <2>3. DrainRefs(d, q, 0)
    <3>1. SubSeq(q, 1, 0) = <<>>
      BY SubSeqEmpty
    <3> QED BY <2>1, <3>1, CountEmpty DEF DrainRefs
  <2>4. DrainBytes(d, q, 0)
    <3>1. \A b : ~Holds(<<>>, b)
      BY <1>E, HoldsIn
    <3>2. 0 + 1 = 1
      OBVIOUS
    <3>3. Still(<<>>, q, 0) = Held(q)
      BY <1>0, <3>1, <3>2, HoldsIn DEF Still, Held
    <3> QED BY <1>0, <2>1, <3>3 DEF DrainBytes
  <2>5. DrainShows(d, nxt, pool)
    <3>1. Bytes(nxt, nxt) \in Seq(Int) /\ Len(Bytes(nxt, nxt)) = 0
      BY <1>0, BytesType
    <3>2. Bytes(nxt, nxt) = <<>>
      BY <3>1, EmptySeq
    <3>3. Contents(pool, <<>>) = <<>>
      BY <1>0, ContentsEmpty
    <3> QED BY <2>1, <3>2, <3>3 DEF DrainShows
  <2>6. All(g[0], 0)
    BY <2>2, <2>3, <2>4, <2>5 DEF d
  <2>7. 0 \in 0 .. n
    BY <1>0
  <2> HIDE DEF All
  <2> QED BY <2>6, <2>7
<1>4. ASSUME NEW k \in 1 .. n, k - 1 \in G PROVE k \in G
  <2> DEFINE d == g[k - 1]
             e == g[k]
  <2>1. k - 1 \in 0 .. n /\ k \in 0 .. n
    BY <1>0
  <2>2. d \in DrainState /\ e = DrainStep(d, q[k])
    BY <1>2, <2>1
  <2>3. /\ DrainQueue(d, q, nxt, room, k - 1) /\ DrainRefs(d, q, k - 1)
        /\ DrainBytes(d, q, k - 1) /\ DrainShows(d, nxt, pool)
    BY <1>4
  <2> HIDE DEF d, e
  <2>4. DrainQueue(e, q, nxt, room, k)
    BY <2>2, <2>3, DrainQueueStep
  <2>5. DrainRefs(e, q, k)
    BY <2>2, <2>3, DrainRefsStep
  <2>6. DrainBytes(e, q, k)
    BY <2>2, <2>3, DrainBytesStep
  <2>7. DrainShows(e, nxt, pool)
    BY <2>2, <2>3, DrainShowsStep
  <2>8. All(g[k], k)
    BY <2>4, <2>5, <2>6, <2>7 DEF e
  <2> HIDE DEF All
  <2> QED BY <2>1, <2>8
<1> HIDE DEF G
<1>5. n \in G
  <2>1. \A k \in 0 .. n : k \in G
    BY <1>0, <1>3, <1>4, UpTo
  <2> QED BY <1>0, <2>1
<1>6. r = g[n] /\ n \in 0 .. n
  BY <1>0, <1>2
<1>7. r \in DrainState
  BY <1>2, <1>6
<1>8. All(r, n)
  BY <1>5, <1>6 DEF G
<1>9. r.left = Cardinality(Held(r.rest))
  <2>1. \A j \in n + 1 .. n : FALSE
    BY <1>0
  <2>2. Still(r.rest, q, n) = Held(r.rest)
    BY <2>1 DEF Still, Held
  <2> QED BY <1>8, <2>2 DEF DrainBytes
<1>10. \A m : Count(q, m) = Count(r.rest, m) + Count(r.out, m) + Count(r.freed, m)
  <2>1. SubSeq(q, 1, n) = q
    BY <1>0, SubSeqFull
  <2> QED BY <1>8, <2>1 DEF DrainRefs
<1> QED BY <1>7, <1>8, <1>9, <1>10 DEF DrainShows

-----------------------------------------------------------------------------
\* The ACK.

\* A SACK block stands for a queued segment.
LEMMA ReportedHeld ==
    ASSUME NEW q \in Seq(Seg), NEW nxt, NEW trigger, NEW free,
           NEW b \in Reported(AckOf(nxt, q, trigger, free))
    PROVE  b \in Nat /\ Holds(q, b)
<1> DEFINE n == Len(q)
           first == {i \in DOMAIN q : q[i].seq <= trigger /\ trigger < EndSeq(q[i])}
           k == CHOOSE i \in first : TRUE
           B == Blocks(q, trigger)
           top == Lesser(n, MaxBlocks)
           at(i) == IF first = {} THEN n + 1 - i
                    ELSE IF i = 1 THEN k
                    ELSE IF n + 2 - i > k THEN n + 2 - i ELSE n + 1 - i
           a == AckOf(nxt, q, trigger, free)
<1>1. n \in Nat /\ DOMAIN q = 1 .. n /\ \A i \in 1 .. n : q[i] \in Seg
  BY LenProperties, ElementOfSeq
<1>2. top \in Nat /\ top <= n
  BY <1>1, RecvPathParams DEF Lesser
<1>3. first # {} => k \in 1 .. n
  BY <1>1
<1>4. B = [i \in 1 .. top |-> at(i)]
  BY DEF Blocks
<1> HIDE DEF first, k, top, B
<1>5. ASSUME NEW i \in DOMAIN B PROVE B[i] \in 1 .. n
  <2>1. i \in 1 .. top /\ B[i] = at(i)
    BY <1>4
  <2>2. i \in Nat /\ 1 <= i /\ i <= n
    BY <1>1, <1>2, <2>1
  <2>3. CASE first = {}
    BY <1>1, <2>1, <2>2, <2>3
  <2>4. CASE first # {}
    BY <1>1, <1>3, <2>1, <2>2, <2>4
  <2> QED BY <2>3, <2>4
<1>6. a.blocks = [i \in DOMAIN B |-> [left |-> q[B[i]].seq, right |-> EndSeq(q[B[i]])]]
  BY DEF AckOf, B
<1> HIDE DEF a
<1>7. PICK i \in DOMAIN a.blocks : b \in a.blocks[i].left .. a.blocks[i].right - 1
  BY DEF Reported, a
<1> DEFINE s == q[B[i]]
<1>8. i \in DOMAIN B /\ a.blocks[i].left = s.seq /\ a.blocks[i].right = EndSeq(s)
  BY <1>6
<1>9. B[i] \in 1 .. n /\ s \in Seg
  BY <1>1, <1>5, <1>8
<1>10. b \in s.seq .. EndSeq(s) - 1
  BY <1>7, <1>8
<1> HIDE DEF s
<1>11. b \in Nat /\ In(s, b)
  BY <1>9, <1>10, SegFacts DEF In
<1> QED BY <1>9, <1>11, HoldsIn DEF s

-----------------------------------------------------------------------------
\* The event queue.

\* A push cuts a front off the queue with what is pushed, and releases what the
\* front owned; the others' references stay.
Cuts(cut, evs, new, kept) ==
    /\ cut \in Seq(Event) /\ kept \in Seq(Event) /\ evs \o new = cut \o kept

LEMMA PushFacts ==
    ASSUME NEW evs \in Seq(Event), NEW new \in Seq(Event), NEW pool \in Pool,
           NEW others \in [1 .. Mbufs -> Nat],
           \A m \in 1 .. Mbufs :
              pool[m].refs = others[m] + Count(OwnedBy(evs), m) + Count(OwnedBy(new), m)
    PROVE  LET p == Pushed(evs, new)
               after == Release(pool, OwnedBy(p.cut))
           IN  /\ Cuts(p.cut, evs, new, p.kept) /\ after \in Pool
               /\ \A m \in 1 .. Mbufs :
                     /\ after[m].refs = others[m] + Count(OwnedBy(p.kept), m)
                     /\ after[m].refs > 0 => after[m].base = pool[m].base
<1> DEFINE all == evs \o new
           c == SatSub(Len(all), SoftCap)
           cut == SubSeq(all, 1, c)
           kept == SubSeq(all, c + 1, Len(all))
           after == Release(pool, OwnedBy(cut))
<1>1. all \in Seq(Event) /\ Len(all) \in Nat
  BY ConcatProperties, LenProperties
<1>2. c \in 0 .. Len(all)
  BY <1>1, RecvPathParams DEF SatSub
<1>3. Pushed(evs, new).cut = cut /\ Pushed(evs, new).kept = kept
  BY DEF Pushed
<1> HIDE DEF all, c
<1>4. cut \in Seq(Event) /\ kept \in Seq(Event) /\ all = cut \o kept
  BY <1>1, <1>2, Split
<1> HIDE DEF cut, kept
<1>5. /\ OwnedBy(evs) \in Seq(Desc) /\ OwnedBy(new) \in Seq(Desc)
      /\ OwnedBy(cut) \in Seq(Desc) /\ OwnedBy(kept) \in Seq(Desc)
      /\ OwnedBy(evs) \o OwnedBy(new) = OwnedBy(cut) \o OwnedBy(kept)
  <2>1. OwnedBy(evs) \in Seq(Desc) /\ OwnedBy(new) \in Seq(Desc)
        /\ OwnedBy(evs \o new) = OwnedBy(evs) \o OwnedBy(new)
    BY OwnedConcat
  <2>2. OwnedBy(cut) \in Seq(Desc) /\ OwnedBy(kept) \in Seq(Desc)
        /\ OwnedBy(cut \o kept) = OwnedBy(cut) \o OwnedBy(kept)
    BY <1>4, OwnedConcat
  <2>3. evs \o new = cut \o kept
    BY <1>4 DEF all
  <2> QED BY <2>1, <2>2, <2>3
<1>6. ASSUME NEW m
      PROVE  /\ Count(OwnedBy(evs), m) + Count(OwnedBy(new), m)
                  = Count(OwnedBy(cut), m) + Count(OwnedBy(kept), m)
             /\ Count(OwnedBy(cut), m) \in Nat /\ Count(OwnedBy(kept), m) \in Nat
             /\ Count(OwnedBy(evs), m) \in Nat /\ Count(OwnedBy(new), m) \in Nat
  <2> DEFINE w == OwnedBy(evs)
             x == OwnedBy(new)
             y == OwnedBy(cut)
             z == OwnedBy(kept)
  <2>1. w \in Seq(Desc) /\ x \in Seq(Desc) /\ y \in Seq(Desc) /\ z \in Seq(Desc) /\ w \o x = y \o z
    BY <1>5
  <2> HIDE DEF w, x, y, z
  <2>2. Count(w \o x, m) = Count(w, m) + Count(x, m)
    <3>1. w \in Seq(Desc) /\ x \in Seq(Desc)
      BY <2>1
    <3> QED BY <3>1, CountConcat
  <2>3. Count(y \o z, m) = Count(y, m) + Count(z, m)
    BY <2>1, CountConcat
  <2>4. Count(w, m) \in Nat /\ Count(x, m) \in Nat /\ Count(y, m) \in Nat /\ Count(z, m) \in Nat
    BY <2>1, CountType
  <2>5. Count(w, m) + Count(x, m) = Count(y, m) + Count(z, m)
    BY <2>1, <2>2, <2>3
  <2> QED BY <2>4, <2>5 DEF w, x, y, z
<1> DEFINE stay == [m \in 1 .. Mbufs |-> others[m] + Count(OwnedBy(kept), m)]
<1>7. stay \in [1 .. Mbufs -> Nat]
  BY <1>6
<1>8. ASSUME NEW m \in 1 .. Mbufs
      PROVE  pool[m].refs = stay[m] + Count(OwnedBy(cut), m)
  <2>1. pool[m].refs = others[m] + Count(OwnedBy(evs), m) + Count(OwnedBy(new), m)
    OBVIOUS
  <2>2. stay[m] = others[m] + Count(OwnedBy(kept), m) /\ others[m] \in Nat
    OBVIOUS
  <2> HIDE DEF stay
  <2> QED BY <1>6, <2>1, <2>2
<1>S. \A m \in 1 .. Mbufs : stay[m] = others[m] + Count(OwnedBy(kept), m)
  OBVIOUS
<1> HIDE DEF stay
<1>9. /\ after \in Pool
      /\ \A m \in 1 .. Mbufs :
            /\ after[m].refs = stay[m]
            /\ stay[m] > 0 => after[m].base = pool[m].base
  <2> DEFINE ds == OwnedBy(cut)
  <2>1. ds \in Seq(Desc) /\ Owes(pool, stay, ds)
    BY <1>5, <1>8 DEF Owes
  <2> HIDE DEF ds
  <2>2. Release(pool, ds) \in Pool /\ Leaves(Release(pool, ds), pool, stay)
    BY <1>7, <2>1, ReleaseExact
  <2> QED BY <2>2 DEF ds, Leaves
<1>10. Cuts(cut, evs, new, kept)
  BY <1>4 DEF Cuts, all
<1> HIDE DEF after
<1>11. /\ Cuts(cut, evs, new, kept) /\ after \in Pool
       /\ \A m \in 1 .. Mbufs :
             /\ after[m].refs = others[m] + Count(OwnedBy(kept), m)
             /\ after[m].refs > 0 => after[m].base = pool[m].base
  BY <1>S, <1>9, <1>10
<1> QED BY <1>3, <1>11 DEF after

-----------------------------------------------------------------------------
\* The bytes on their way to the user.

Ascends(s, lim) ==
    \A i \in 1 .. Len(s) : s[i] < lim /\ \A j \in 1 .. Len(s) : i < j => s[i] < s[j]

LEMMA AscendsMore ==
    ASSUME NEW s \in Seq(Int), NEW a \in Nat, NEW b \in Nat, a <= b, Ascends(s, a)
    PROVE  Ascends(s \o Bytes(a, b), b)
<1> DEFINE t == Bytes(a, b)
           n == Len(s)
           u == s \o t
<1>1. n \in Nat /\ \A i \in 1 .. n : s[i] \in Int
  BY LenProperties, ElementOfSeq
<1>2. t \in Seq(Int) /\ Len(t) = b - a /\ \A i \in 1 .. b - a : t[i] = a + i - 1
  BY BytesType
<1> HIDE DEF t
<1>3. /\ Len(u) = n + (b - a)
      /\ \A i \in 1 .. n + (b - a) : u[i] = IF i <= n THEN s[i] ELSE t[i - n]
  BY <1>2, ConcatProperties, ZenonT(60)
<1> HIDE DEF u
<1>4. ASSUME NEW i \in 1 .. n + (b - a)
      PROVE  \/ i \in 1 .. n /\ u[i] = s[i] /\ u[i] < a
             \/ i > n /\ u[i] = a + (i - n) - 1 /\ i - n \in 1 .. b - a
  <2>1. CASE i <= n
    <3>1. i \in 1 .. n /\ u[i] = s[i]
      BY <1>1, <1>3, <2>1
    <3> QED BY <3>1 DEF Ascends
  <2>2. CASE ~(i <= n)
    <3>1. i - n \in 1 .. b - a /\ i > n
      BY <1>1, <2>2
    <3> QED BY <1>2, <1>3, <2>2, <3>1
  <2> QED BY <2>1, <2>2
<1>5. ASSUME NEW i \in 1 .. n + (b - a) PROVE u[i] < b /\ u[i] \in Int
  BY <1>1, <1>4
<1>6. ASSUME NEW i \in 1 .. n + (b - a), NEW j \in 1 .. n + (b - a), i < j PROVE u[i] < u[j]
  <2>1. CASE i \in 1 .. n /\ j \in 1 .. n
    BY <1>1, <1>4, <1>6, <2>1, SMTT(30) DEF Ascends
  <2>2. CASE i \in 1 .. n /\ j > n
    <3>1. u[i] < a /\ u[i] \in Int
      BY <1>1, <1>4, <1>5, <2>2
    <3>2. u[j] = a + (j - n) - 1 /\ j - n \in 1 .. b - a
      BY <1>1, <1>4, <2>2
    <3> QED BY <1>1, <3>1, <3>2
  <2>3. CASE i > n
    <3>1. j > n /\ u[i] = a + (i - n) - 1 /\ u[j] = a + (j - n) - 1
      BY <1>1, <1>4, <1>6, <2>3
    <3> QED BY <1>1, <1>6, <3>1
  <2> QED BY <1>1, <2>1, <2>2, <2>3
<1>7. Ascends(u, b)
  BY <1>3, <1>5, <1>6 DEF Ascends
<1> QED BY <1>7 DEF u, t

\* What is left when a middle part is dropped still ascends.
LEMMA AscendsCut ==
    ASSUME NEW x \in Seq(Int), NEW y \in Seq(Int), NEW z \in Seq(Int), NEW lim,
           Ascends(x \o (y \o z), lim)
    PROVE  Ascends(x \o z, lim)
<1> DEFINE a == Len(x)
           b == Len(y)
           c == Len(z)
           v == y \o z
           s == x \o v
           t == x \o z
<1>1. a \in Nat /\ b \in Nat /\ c \in Nat
  BY LenProperties
<1>2. v \in Seq(Int) /\ Len(v) = b + c
      /\ \A i \in 1 .. b + c : v[i] = IF i <= b THEN y[i] ELSE z[i - b]
  BY ConcatProperties
<1> HIDE DEF v
<1>3. /\ Len(s) = a + (b + c)
      /\ \A i \in 1 .. a + (b + c) : s[i] = IF i <= a THEN x[i] ELSE v[i - a]
  <2>1. v \in Seq(Int)
    BY <1>2
  <2>2. /\ Len(s) = a + Len(v)
        /\ \A i \in 1 .. a + Len(v) : s[i] = IF i <= a THEN x[i] ELSE v[i - a]
    BY <2>1, ConcatProperties
  <2>3. Len(v) = b + c
    BY <1>2
  <2> HIDE DEF s
  <2> QED BY <2>2, <2>3, Zenon
<1>4. /\ Len(t) = a + c
      /\ \A i \in 1 .. a + c : t[i] = IF i <= a THEN x[i] ELSE z[i - a]
  BY ConcatProperties
<1>5. Ascends(s, lim)
  BY DEF v
<1> HIDE DEF s, t
<1> DEFINE at(i) == IF i <= a THEN i ELSE i + b
<1>6. ASSUME NEW i \in 1 .. a + c PROVE at(i) \in 1 .. a + (b + c) /\ t[i] = s[at(i)]
  <2>1. CASE i <= a
    <3>1. i \in 1 .. a + (b + c)
      BY <1>1
    <3> QED BY <1>3, <1>4, <2>1, <3>1
  <2>2. CASE ~(i <= a)
    <3>1. /\ i + b \in 1 .. a + (b + c) /\ ~(i + b <= a) /\ i + b - a \in 1 .. b + c
          /\ ~(i + b - a <= b) /\ (i + b - a) - b = i - a
      BY <1>1, <2>2
    <3>2. s[i + b] = v[i + b - a]
      BY <1>3, <3>1
    <3>4. v[i + b - a] = z[(i + b - a) - b]
      <4> DEFINE e == i + b - a
      <4>1. e \in 1 .. b + c /\ ~(e <= b)
        BY <3>1
      <4> HIDE DEF e
      <4>2. v[e] = z[e - b]
        BY <1>2, <4>1
      <4> QED BY <4>2 DEF e
    <3>3. t[i] = z[i - a]
      BY <1>4, <2>2
    <3> QED BY <2>2, <3>1, <3>2, <3>3, <3>4
  <2> QED BY <2>1, <2>2
<1>7. ASSUME NEW i \in 1 .. a + c, NEW j \in 1 .. a + c, i < j PROVE at(i) < at(j)
  BY <1>1, <1>7
<1> HIDE DEF at
<1>8. \A i \in 1 .. a + c : t[i] < lim
  BY <1>3, <1>5, <1>6 DEF Ascends
<1>9. ASSUME NEW i \in 1 .. a + c, NEW j \in 1 .. a + c, i < j PROVE t[i] < t[j]
  BY <1>3, <1>5, <1>6, <1>7, <1>9 DEF Ascends
<1>10. Ascends(t, lim)
  BY <1>4, <1>8, <1>9 DEF Ascends
<1> QED BY <1>10 DEF t

-----------------------------------------------------------------------------
\* The inductive invariant.

TypeInv ==
    /\ state \in {"Established", "CloseWait", "Closed"} /\ rcv_nxt \in Nat
    /\ reorder \in Seq(Seg) /\ mbuf \in Pool
    /\ events \in Seq(Event) /\ scratch \in Seq(Event)
    /\ events_dropped \in BOOLEAN /\ polling \in BOOLEAN
    /\ sacked \in SUBSET Nat /\ got \in Seq(Int)

\* The user's views end before anything is received.
LentInv == polling => scratch = <<>>

\* A queue after which rcv_nxt is nxt, seen through the pool.
QueueOf(q, left, nxt, pool) ==
    /\ Sorted(q)
    /\ \A i \in 1 .. Len(q) :
          /\ q[i].seq > nxt /\ EndSeq(q[i]) <= StreamLen /\ EndSeq(q[i]) <= nxt + RcvWnd
          /\ pool[q[i].mbuf].base + q[i].offset = q[i].seq
    /\ left = Cardinality(Held(q))

\* With chained frames a FIN can be accepted over payload that was dropped;
\* nothing is promised of the queue of such a connection.
Trusted == state # "CloseWait" \/ ~Chains

QueueInv == Trusted => QueueOf(reorder, total_bytes, rcv_nxt, mbuf)

PlaceInv ==
    /\ state = "Established" => rcv_nxt <= StreamLen
    /\ state = "CloseWait" /\ ~Chains => rcv_nxt = StreamLen + 1

RefsInv ==
    \A m \in 1 .. Mbufs :
        mbuf[m].refs = Count(reorder, m) + Count(OwnedBy(events), m) + Count(OwnedBy(scratch), m)

Arrived == IF rcv_nxt > StreamLen THEN StreamLen ELSE rcv_nxt

\* What the user has and what waits in the queue: ascending, below what
\* arrived, and all of it unless an event was dropped.
StreamOf(g, pool, evs, lim, lost) ==
    LET s == g \o Contents(pool, OwnedBy(evs))
    IN  Ascends(s, lim) /\ (~lost => s = Bytes(0, lim))

StreamInv == ~Chains => StreamOf(got, mbuf, events, Arrived, events_dropped)

Inv ==
    /\ TypeInv /\ LentInv /\ QueueInv /\ PlaceInv /\ RefsInv
    /\ ViewStable /\ NoRenege /\ StreamInv

-----------------------------------------------------------------------------
\* The payload of a segment.

LEMMA Params ==
    /\ RecvBuf \in Nat \ {0} /\ U16Max \in Nat \ {0} /\ SoftCap \in Nat \ {0}
    /\ MaxBlocks \in Nat \ {0} /\ Mbufs \in Nat \ {0} /\ StreamLen \in Nat /\ MaxLen \in Nat
    /\ MaxEvents \in Nat /\ Chains \in BOOLEAN
    /\ RcvWnd \in Nat \ {0} /\ RcvWnd <= RecvBuf
BY RecvPathParams DEF RcvWnd, Lesser

\* A segment of an established connection is received into the free mbuf m.
Fresh(m) ==
    Inv /\ polling /\ state = "Established" /\ m \in 1 .. Mbufs /\ mbuf[m] = NoMbuf

Owned == OwnedBy(events)

LEMMA FreshFacts ==
    ASSUME NEW m, Fresh(m)
    PROVE  /\ rcv_nxt \in Nat /\ rcv_nxt <= StreamLen /\ reorder \in Seq(Seg) /\ mbuf \in Pool
           /\ events \in Seq(Event) /\ Owned \in Seq(Desc) /\ scratch = <<>> /\ m \in 1 .. Mbufs
           /\ QueueOf(reorder, total_bytes, rcv_nxt, mbuf)
           /\ \A k \in 1 .. Mbufs : mbuf[k].refs = Count(reorder, k) + Count(Owned, k)
           /\ Count(reorder, m) = 0 /\ Count(Owned, m) = 0
<1>1. /\ TypeInv /\ LentInv /\ QueueInv /\ PlaceInv /\ RefsInv
      /\ polling /\ state = "Established" /\ m \in 1 .. Mbufs /\ mbuf[m] = NoMbuf
  BY DEF Fresh, Inv
<1>2. /\ rcv_nxt \in Nat /\ rcv_nxt <= StreamLen /\ reorder \in Seq(Seg) /\ mbuf \in Pool
      /\ events \in Seq(Event) /\ scratch = <<>>
  BY <1>1 DEF TypeInv, LentInv, PlaceInv
<1>3. QueueOf(reorder, total_bytes, rcv_nxt, mbuf)
  BY <1>1 DEF QueueInv, Trusted
<1>4. Owned \in Seq(Desc)
  BY <1>2, OwnedType DEF Owned
<1>5. \A k : Count(OwnedBy(scratch), k) = 0
  BY <1>2, OwnedEmpty, CountEmpty
<1>6. \A k : Count(reorder, k) \in Nat /\ Count(Owned, k) \in Nat
  BY <1>2, <1>4, CountType
<1>7. ASSUME NEW k \in 1 .. Mbufs PROVE mbuf[k].refs = Count(reorder, k) + Count(Owned, k)
  <2>1. mbuf[k].refs = Count(reorder, k) + Count(Owned, k) + Count(OwnedBy(scratch), k)
    BY <1>1 DEF RefsInv, Owned
  <2> QED BY <1>5, <1>6, <2>1
<1>8. mbuf[m].refs = 0
  BY <1>1 DEF NoMbuf
<1>9. Count(reorder, m) = 0 /\ Count(Owned, m) = 0
  BY <1>1, <1>6, <1>7, <1>8
<1> QED BY <1>1, <1>2, <1>3, <1>4, <1>7, <1>9

\* What the payload of a segment leads to.
OutTypes(r) ==
    /\ r.descs \in Seq(Desc) /\ r.nxt \in Nat /\ rcv_nxt <= r.nxt /\ r.nxt <= StreamLen
    /\ r.reorder \in Seq(Seg) /\ r.pool \in Pool

OutRefs(r) ==
    \A k \in 1 .. Mbufs :
        /\ r.pool[k].refs = Count(r.reorder, k) + Count(r.descs, k) + Count(Owned, k)
        /\ Count(Owned, k) > 0 => r.pool[k].base = mbuf[k].base

OutBytes(r) ==
    /\ Contents(r.pool, r.descs) = Bytes(rcv_nxt, r.nxt)
    /\ r.nxt = rcv_nxt => r.descs = <<>>
    /\ \A b \in Nat : Holds(reorder, b) => b < r.nxt \/ Holds(r.reorder, b)

Outcome(r) ==
    OutTypes(r) /\ QueueOf(r.reorder, r.left, r.nxt, r.pool) /\ OutRefs(r) /\ OutBytes(r)

LEMMA BytesNone ==
    ASSUME NEW a \in Nat
    PROVE  Bytes(a, a) = <<>>
<1>1. Bytes(a, a) \in Seq(Int) /\ Len(Bytes(a, a)) = 0
  BY BytesType
<1> QED BY <1>1, EmptySeq

LEMMA NothingOutcome ==
    ASSUME NEW m, Fresh(m)
    PROVE  Outcome(Nothing) /\ Nothing.nxt = rcv_nxt
<1> DEFINE r == Nothing
<1>1. /\ r.descs = <<>> /\ r.nxt = rcv_nxt /\ r.reorder = reorder /\ r.left = total_bytes
      /\ r.pool = mbuf
  BY DEF Nothing, Received
<1> HIDE DEF r
<1>2. /\ rcv_nxt \in Nat /\ rcv_nxt <= StreamLen /\ reorder \in Seq(Seg) /\ mbuf \in Pool
      /\ QueueOf(reorder, total_bytes, rcv_nxt, mbuf) /\ Owned \in Seq(Desc)
      /\ \A k \in 1 .. Mbufs : mbuf[k].refs = Count(reorder, k) + Count(Owned, k)
  BY FreshFacts
<1>3. OutTypes(r)
  BY <1>1, <1>2, EmptySeq DEF OutTypes
<1>4. QueueOf(r.reorder, r.left, r.nxt, r.pool)
  BY <1>1, <1>2
<1>5. OutRefs(r)
  <2>1. \A k : Count(reorder, k) \in Nat /\ Count(Owned, k) \in Nat
    BY <1>2, CountType
  <2>2. \A k : Count(<<>>, k) = 0
    BY CountEmpty
  <2> QED BY <1>1, <1>2, <2>1, <2>2 DEF OutRefs
<1>6. OutBytes(r)
  <2>1. Contents(mbuf, <<>>) = <<>> /\ Bytes(rcv_nxt, rcv_nxt) = <<>>
    BY <1>2, ContentsEmpty, BytesNone
  <2> QED BY <1>1, <2>1 DEF OutBytes
<1> QED BY <1>1, <1>3, <1>4, <1>5, <1>6 DEF Outcome, r

LEMMA CountShown ==
    ASSUME NEW D, NEW s \in Seq(D), NEW i \in 1 .. Len(s)
    PROVE  Count(s, s[i].mbuf) > 0
<1> DEFINE k == s[i].mbuf
<1>1. Count(s, k) \in Nat /\ (Count(s, k) = 0 <=> \A j \in 1 .. Len(s) : s[j].mbuf # k)
  BY CountType
<1>2. ~ \A j \in 1 .. Len(s) : s[j].mbuf # k
  OBVIOUS
<1> HIDE DEF k
<1>3. Count(s, k) > 0
  BY <1>1, <1>2
<1> QED BY <1>3 DEF k

LEMMA DescMbuf ==
    ASSUME NEW s \in Seq(Desc), NEW i \in 1 .. Len(s)
    PROVE  s[i].mbuf \in 1 .. Mbufs
<1>1. s[i] \in Desc
  BY ElementOfSeq
<1> QED BY <1>1 DEF Desc

LEMMA InOrderOutcome ==
    ASSUME NEW m, Fresh(m), NEW len \in Nat \ {0}, rcv_nxt + len <= StreamLen, len <= RcvWnd
    PROVE  /\ Outcome(InOrder(m, rcv_nxt, len))
           /\ InOrder(m, rcv_nxt, len).nxt >= rcv_nxt + len
<1> DEFINE r == InOrder(m, rcv_nxt, len)
           top == rcv_nxt + len
           room == RecvBuf - len
           d == Drain(reorder, total_bytes, top, room)
           one == [refs |-> 1, base |-> rcv_nxt]
           pool == [mbuf EXCEPT ![m] = one]
           h == [mbuf |-> m, offset |-> 0, len |-> len]
           new == Release(pool, d.freed)
<1>1. /\ rcv_nxt \in Nat /\ rcv_nxt <= StreamLen /\ reorder \in Seq(Seg) /\ mbuf \in Pool
      /\ Owned \in Seq(Desc) /\ m \in 1 .. Mbufs
      /\ QueueOf(reorder, total_bytes, rcv_nxt, mbuf)
      /\ \A k \in 1 .. Mbufs : mbuf[k].refs = Count(reorder, k) + Count(Owned, k)
      /\ Count(reorder, m) = 0 /\ Count(Owned, m) = 0
  BY FreshFacts
<1>2. /\ RecvBuf \in Nat /\ RcvWnd \in Nat /\ RcvWnd <= RecvBuf /\ StreamLen \in Nat
  BY Params
<1>3. room \in Nat /\ top \in Nat /\ top <= StreamLen /\ rcv_nxt < top
  BY <1>1, <1>2
<1>4. /\ r.descs = <<h>> \o d.out /\ r.nxt = d.nxt /\ r.reorder = d.rest
      /\ r.left = d.left /\ r.pool = new
  <2>1. Lesser(len, RecvBuf) = len
    BY <1>2 DEF Lesser
  <2>2. Frame(FrameRefs(1, 0), rcv_nxt) = one
    BY DEF Frame, FrameRefs, SatSub
  <2> QED BY <2>1, <2>2 DEF InOrder, Received
<1>5. pool \in Pool /\ pool[m] = one /\ \A k \in 1 .. Mbufs : k # m => pool[k] = mbuf[k]
  BY <1>1 DEF Pool
<1> HIDE DEF r, new, pool, d
<1>6. \A i \in 1 .. Len(reorder) : reorder[i].mbuf # m /\ reorder[i] \in Seg
  BY <1>1, CountType, ElementOfSeq
<1>7. Drainable(reorder, total_bytes, top, room, pool)
  <2>1. ASSUME NEW i \in 1 .. Len(reorder)
        PROVE  /\ EndSeq(reorder[i]) <= top + room /\ EndSeq(reorder[i]) <= StreamLen
               /\ pool[reorder[i].mbuf].base + reorder[i].offset = reorder[i].seq
    <3>1. /\ EndSeq(reorder[i]) <= StreamLen /\ EndSeq(reorder[i]) <= rcv_nxt + RcvWnd
          /\ mbuf[reorder[i].mbuf].base + reorder[i].offset = reorder[i].seq
      BY <1>1 DEF QueueOf
    <3>2. reorder[i].mbuf \in 1 .. Mbufs /\ EndSeq(reorder[i]) \in Nat
      BY <1>6, SegFacts
    <3>3. top + room = rcv_nxt + RecvBuf
      BY <1>1, <1>2
    <3>4. pool[reorder[i].mbuf] = mbuf[reorder[i].mbuf]
      BY <1>5, <1>6, <3>2
    <3> QED BY <1>1, <1>2, <3>1, <3>2, <3>3, <3>4
  <2>2. Sorted(reorder) /\ total_bytes = Cardinality(Held(reorder))
    BY <1>1 DEF QueueOf
  <2> HIDE DEF top, room
  <2> QED BY <1>1, <1>3, <1>5, <2>1, <2>2 DEF Drainable
<1>8. /\ d \in DrainState /\ DrainQueue(d, reorder, top, room, Len(reorder))
      /\ \A k : Count(reorder, k) = Count(d.rest, k) + Count(d.out, k) + Count(d.freed, k)
      /\ d.left = Cardinality(Held(d.rest))
      /\ Contents(pool, d.out) = Bytes(top, d.nxt)
  BY <1>2, <1>7, DrainFacts DEF d
<1> HIDE DEF top, room
<1>9. /\ d.rest \in Seq(Seg) /\ d.out \in Seq(Desc) /\ d.freed \in Seq(Seg) /\ d.nxt \in Nat
      /\ top <= d.nxt /\ d.nxt <= StreamLen
  BY <1>8 DEF DrainState, DrainQueue
<1>10. h \in Desc /\ h.mbuf = m /\ h.len = len /\ h.offset = 0
  BY <1>1 DEF Desc
<1> HIDE DEF h
<1>11. <<h>> \in Seq(Desc) /\ <<h>> \o d.out \in Seq(Desc)
  BY <1>9, <1>10, ConcatProperties
<1>12. \A k : /\ Count(d.rest, k) \in Nat /\ Count(d.out, k) \in Nat /\ Count(d.freed, k) \in Nat
              /\ Count(Owned, k) \in Nat /\ Count(reorder, k) \in Nat
  BY <1>1, <1>9, CountType
<1>13. \A k : Count(<<h>> \o d.out, k) = (IF m = k THEN 1 ELSE 0) + Count(d.out, k)
  <2>1. ASSUME NEW k PROVE Count(<<h>> \o d.out, k) = (IF m = k THEN 1 ELSE 0) + Count(d.out, k)
    <3>1. Count(<<h>>, k) = IF m = k THEN 1 ELSE 0
      BY <1>10, CountOne
    <3>2. Count(<<h>> \o d.out, k) = Count(<<h>>, k) + Count(d.out, k)
      BY <1>9, <1>11, CountConcat
    <3> QED BY <3>1, <3>2
  <2> QED BY <2>1
<1> DEFINE kept == [k \in 1 .. Mbufs |->
                      Count(d.rest, k) + Count(<<h>> \o d.out, k) + Count(Owned, k)]
<1>14. kept \in [1 .. Mbufs -> Nat]
  BY <1>12, <1>13
<1>15. Owes(pool, kept, d.freed)
  <2>1. ASSUME NEW k \in 1 .. Mbufs PROVE pool[k].refs = kept[k] + Count(d.freed, k)
    <3>1. Count(reorder, k) = Count(d.rest, k) + Count(d.out, k) + Count(d.freed, k)
      BY <1>8
    <3>2. kept[k] = Count(d.rest, k) + Count(<<h>> \o d.out, k) + Count(Owned, k)
      OBVIOUS
    <3> HIDE DEF kept
    <3>3. CASE k = m
      <4>1. pool[k].refs = 1 /\ Count(<<h>> \o d.out, k) = 1 + Count(d.out, k)
        BY <1>5, <1>13, <3>3
      <4>2. Count(reorder, k) = 0 /\ Count(Owned, k) = 0
        BY <1>1, <3>3
      <4> QED BY <1>12, <3>1, <3>2, <4>1, <4>2
    <3>4. CASE k # m
      <4>1. pool[k].refs = Count(reorder, k) + Count(Owned, k)
        BY <1>1, <1>5, <3>4
      <4>2. Count(<<h>> \o d.out, k) = Count(d.out, k)
        BY <1>12, <1>13, <3>4
      <4> QED BY <1>12, <3>1, <3>2, <4>1, <4>2
    <3> QED BY <3>3, <3>4
  <2> QED BY <2>1 DEF Owes
<1>16. new \in Pool /\ Leaves(new, pool, kept)
  BY <1>5, <1>9, <1>14, <1>15, ReleaseExact DEF new
<1>17. \A k \in 1 .. Mbufs :
          /\ new[k].refs = Count(d.rest, k) + Count(<<h>> \o d.out, k) + Count(Owned, k)
          /\ (Count(d.rest, k) > 0 \/ Count(<<h>> \o d.out, k) > 0 \/ Count(Owned, k) > 0
                => new[k].base = pool[k].base)
  BY <1>12, <1>13, <1>16 DEF Leaves
<1> HIDE DEF kept
<1>18. OutTypes(r)
  <2>1. rcv_nxt <= d.nxt
    BY <1>1, <1>3, <1>9
  <2> QED BY <1>4, <1>9, <1>11, <1>16, <2>1 DEF OutTypes
<1>19. QueueOf(r.reorder, r.left, r.nxt, r.pool)
  <2>1. ASSUME NEW i \in 1 .. Len(d.rest)
        PROVE  /\ d.rest[i].seq > d.nxt /\ EndSeq(d.rest[i]) <= StreamLen
               /\ EndSeq(d.rest[i]) <= d.nxt + RcvWnd
               /\ new[d.rest[i].mbuf].base + d.rest[i].offset = d.rest[i].seq
    <3>1. PICK j \in 1 .. Len(reorder) : d.rest[i] = reorder[j]
      BY <1>8 DEF DrainQueue
    <3>2. d.rest[i].seq > d.nxt
      BY <1>8 DEF DrainQueue
    <3>3. /\ EndSeq(d.rest[i]) <= StreamLen /\ EndSeq(d.rest[i]) <= rcv_nxt + RcvWnd
          /\ mbuf[d.rest[i].mbuf].base + d.rest[i].offset = d.rest[i].seq
      BY <1>1, <3>1 DEF QueueOf
    <3>4. d.rest[i].mbuf \in 1 .. Mbufs /\ d.rest[i].mbuf # m /\ EndSeq(d.rest[i]) \in Nat
      BY <1>6, <3>1, SegFacts
    <3>5. Count(d.rest, d.rest[i].mbuf) > 0
      BY <1>9, CountShown
    <3>6. new[d.rest[i].mbuf].base = mbuf[d.rest[i].mbuf].base
      BY <1>5, <1>17, <3>4, <3>5
    <3>7. EndSeq(d.rest[i]) <= d.nxt + RcvWnd
      BY <1>1, <1>2, <1>3, <1>9, <3>3, <3>4
    <3> QED BY <3>2, <3>3, <3>6, <3>7
  <2>2. Sorted(d.rest)
    BY <1>8 DEF DrainQueue
  <2> QED BY <1>4, <1>8, <2>1, <2>2 DEF QueueOf
<1>20. OutRefs(r)
  <2>1. ASSUME NEW k \in 1 .. Mbufs, Count(Owned, k) > 0 PROVE new[k].base = mbuf[k].base
    <3>1. k # m
      BY <1>1, <2>1
    <3> QED BY <1>5, <1>17, <2>1, <3>1
  <2> QED BY <1>4, <1>17, <2>1 DEF OutRefs
<1>21. OutBytes(r)
  <2>1. Contents(new, d.out) = Bytes(top, d.nxt)
    <3>1. ASSUME NEW i \in 1 .. Len(d.out)
          PROVE  new[d.out[i].mbuf].base = pool[d.out[i].mbuf].base
      <4>1. d.out[i].mbuf \in 1 .. Mbufs
        BY <1>9, DescMbuf
      <4>2. Count(d.out, d.out[i].mbuf) > 0
        BY <1>9, CountShown
      <4>3. Count(<<h>> \o d.out, d.out[i].mbuf) > 0
        BY <1>12, <1>13, <4>2
      <4> QED BY <1>17, <4>1, <4>3
    <3> QED BY <1>5, <1>8, <1>9, <1>16, <3>1, ContentsSame
  <2>2. Contents(new, <<h>>) = Bytes(rcv_nxt, top)
    <3>1. new[m].base = rcv_nxt
      <4>1. Count(<<h>> \o d.out, m) > 0
        BY <1>12, <1>13
      <4> QED BY <1>1, <1>5, <1>17, <4>1
    <3>2. Content(new, h) = Bytes(rcv_nxt, top)
      BY <1>1, <1>10, <3>1 DEF Content, Bytes, top
    <3> QED BY <1>10, <1>16, <3>2, ContentsOne
  <2>3. Contents(new, <<h>> \o d.out) = Bytes(rcv_nxt, d.nxt)
    <3>1. Contents(new, <<h>> \o d.out) = Contents(new, <<h>>) \o Contents(new, d.out)
      BY <1>9, <1>11, <1>16, ContentsConcat
    <3>2. rcv_nxt <= top
      BY <1>1, <1>3
    <3>3. Bytes(rcv_nxt, top) \o Bytes(top, d.nxt) = Bytes(rcv_nxt, d.nxt)
      BY <1>1, <1>3, <1>9, <3>2, BytesConcat
    <3> QED BY <2>1, <2>2, <3>1, <3>3
  <2>4. d.nxt # rcv_nxt
    BY <1>1, <1>3, <1>9
  <2>5. ASSUME NEW b \in Nat, Holds(reorder, b), ~(b < d.nxt) PROVE Holds(d.rest, b)
    <3>1. PICK j \in 1 .. Len(reorder) : In(reorder[j], b)
      BY <1>1, <2>5, HoldsIn
    <3>2. EndSeq(reorder[j]) \in Nat /\ b < EndSeq(reorder[j])
      BY <1>6, <3>1, SegFacts DEF In
    <3>3. ~(EndSeq(reorder[j]) <= d.nxt)
      BY <1>9, <2>5, <3>2
    <3>4. PICK i \in 1 .. Len(d.rest) : d.rest[i] = reorder[j]
      BY <1>8, <3>3 DEF DrainQueue
    <3> QED BY <1>9, <3>1, <3>4, HoldsIn
  <2> QED BY <1>4, <2>3, <2>4, <2>5 DEF OutBytes
<1>22. r.nxt >= rcv_nxt + len
  BY <1>1, <1>4, <1>9 DEF top
<1> QED BY <1>18, <1>19, <1>20, <1>21, <1>22 DEF Outcome, r

LEMMA TakenFacts ==
    ASSUME NEW q, NEW seq \in Nat, NEW len \in Nat, NEW room
    PROVE  /\ Taken(q, seq, len, room) \in SUBSET (seq .. seq + len - 1)
           /\ \A b \in Taken(q, seq, len, room) : ~Holds(q, b)
BY DEF Taken, Uncovered

\* A stored segment of the queue: an old one or a piece of the new frame.
IsPiece(s, m, seq, hi) ==
    s.mbuf = m /\ seq + s.offset = s.seq /\ seq <= s.seq /\ EndSeq(s) <= hi + 1

\* Bytes that the queue does not hold, and the queue with them.
Storable(q, taken, seq, hi) ==
    /\ q \in Seq(Seg) /\ Sorted(q) /\ seq \in Nat /\ hi \in Int
    /\ taken \in SUBSET (seq .. hi) /\ \A b \in taken : ~Holds(q, b)

Stored(new, q, taken, m, seq, hi, card) ==
    /\ new \in Seq(Seg) /\ Sorted(new)
    /\ \A i \in 1 .. Len(new) : \/ \E j \in 1 .. Len(q) : new[i] = q[j]
                                \/ IsPiece(new[i], m, seq, hi) /\ card > 0
    /\ \A b \in Int : Holds(new, b) <=> Holds(q, b) \/ b \in taken
    /\ \A k : Count(new, k) = Count(q, k) + (IF k = m THEN card ELSE 0)
    /\ card \in Nat

LEMMA StoredFacts ==
    ASSUME NEW q \in Seq(Seg), Sorted(q), NEW taken, NEW seq, NEW hi,
           Storable(q, taken, seq, hi), NEW m \in 1 .. Mbufs,
           NEW C, C = Carved(taken, m, seq), NEW new, new = Inserted(q, C)
    PROVE  Stored(new, q, taken, m, seq, hi, Cardinality(C))
<1>0. /\ q \in Seq(Seg) /\ Sorted(q) /\ seq \in Nat /\ hi \in Int
      /\ taken \in SUBSET (seq .. hi) /\ \A b \in taken : ~Holds(q, b)
  BY DEF Storable
<1>1. /\ C \in SUBSET Seg /\ IsFiniteSet(C) /\ Apart(C)
      /\ \A c \in C : /\ c.mbuf = m /\ seq + c.offset = c.seq
                      /\ \A b \in c.seq .. EndSeq(c) - 1 : b \in taken
      /\ \A x \in taken : \E c \in C : c.seq <= x /\ x < EndSeq(c)
  BY <1>0, CarvedFacts
<1>2. \A i \in 1 .. Len(q) : q[i] \in Seg
  BY <1>0, ElementOfSeq
<1>3. \A c \in C : c.seq \in Nat /\ EndSeq(c) \in Nat /\ c.seq < EndSeq(c)
  BY <1>1, SegFacts
<1>4. \A i \in 1 .. Len(q) : q[i].seq \in Nat /\ EndSeq(q[i]) \in Nat /\ q[i].seq < EndSeq(q[i])
  BY <1>2, SegFacts
<1>5. ASSUME NEW c \in C, NEW i \in 1 .. Len(q) PROVE Sep(q[i], c) \/ Sep(c, q[i])
  <2>1. SUFFICES ASSUME EndSeq(q[i]) > c.seq, EndSeq(c) > q[i].seq PROVE FALSE
    BY <1>3, <1>4 DEF Sep
  <2> DEFINE b == IF c.seq >= q[i].seq THEN c.seq ELSE q[i].seq
  <2>2. b \in c.seq .. EndSeq(c) - 1 /\ In(q[i], b)
    BY <1>3, <1>4, <2>1 DEF In
  <2> HIDE DEF b
  <2>3. b \in taken
    BY <1>1, <2>2
  <2>4. Holds(q, b)
    BY <1>0, <2>2, HoldsIn
  <2> QED BY <1>0, <2>3, <2>4
<1>6. /\ new \in Seq(Seg) /\ Sorted(new)
      /\ \A i \in 1 .. Len(new) : new[i] \in C \/ \E j \in 1 .. Len(q) : new[i] = q[j]
      /\ \A j \in 1 .. Len(q) : \E i \in 1 .. Len(new) : new[i] = q[j]
      /\ \A c \in C : \E i \in 1 .. Len(new) : new[i] = c
      /\ \A k : Count(new, k) = Count(q, k) + Cardinality({c \in C : c.mbuf = k})
  <2>1. Clear(q, C)
    BY <1>5 DEF Clear
  <2>2. Merges(new, q, C)
    BY <1>1, <2>1, InsertedFacts
  <2> QED BY <2>2 DEF Merges
<1>7. ASSUME NEW c \in C PROVE IsPiece(c, m, seq, hi) /\ Cardinality(C) > 0
  <2>1. c.seq \in taken /\ EndSeq(c) - 1 \in taken
    <3>1. c.seq \in c.seq .. EndSeq(c) - 1 /\ EndSeq(c) - 1 \in c.seq .. EndSeq(c) - 1
      BY <1>3
    <3> QED BY <1>1, <3>1
  <2>2. seq <= c.seq /\ EndSeq(c) <= hi + 1
    BY <1>0, <1>3, <2>1
  <2>3. Cardinality(C) \in Nat /\ Cardinality(C) # 0
    BY <1>1, FS_EmptySet, FS_CardinalityType
  <2> QED BY <1>1, <2>2, <2>3 DEF IsPiece
<1>8. ASSUME NEW b \in Int PROVE Holds(new, b) <=> Holds(q, b) \/ b \in taken
  <2>1. ASSUME Holds(new, b) PROVE Holds(q, b) \/ b \in taken
    <3>1. PICK i \in 1 .. Len(new) : In(new[i], b)
      BY <1>6, <2>1, HoldsIn
    <3>2. CASE new[i] \in C
      <4>1. b \in new[i].seq .. EndSeq(new[i]) - 1
        BY <1>3, <3>1, <3>2 DEF In
      <4> QED BY <1>1, <3>2, <4>1
    <3>3. CASE \E j \in 1 .. Len(q) : new[i] = q[j]
      BY <1>0, <3>1, <3>3, HoldsIn
    <3> QED BY <1>6, <3>2, <3>3
  <2>2. ASSUME Holds(q, b) PROVE Holds(new, b)
    <3>1. PICK j \in 1 .. Len(q) : In(q[j], b)
      BY <1>0, <2>2, HoldsIn
    <3>2. PICK i \in 1 .. Len(new) : new[i] = q[j]
      BY <1>6
    <3> QED BY <1>6, <3>1, <3>2, HoldsIn
  <2>3. ASSUME b \in taken PROVE Holds(new, b)
    <3>1. PICK c \in C : In(c, b)
      BY <1>1, <2>3 DEF In
    <3>2. PICK i \in 1 .. Len(new) : new[i] = c
      BY <1>6
    <3> QED BY <1>6, <3>1, <3>2, HoldsIn
  <2> QED BY <2>1, <2>2, <2>3
<1>9. ASSUME NEW k
      PROVE  Count(new, k) = Count(q, k) + (IF k = m THEN Cardinality(C) ELSE 0)
  <2>1. CASE k = m
    <3>1. {c \in C : c.mbuf = k} = C
      BY <1>1, <2>1
    <3> QED BY <1>6, <2>1, <3>1
  <2>2. CASE k # m
    <3>1. {c \in C : c.mbuf = k} = {}
      BY <1>1, <2>2
    <3>2. Cardinality({c \in C : c.mbuf = k}) = 0
      BY <3>1, FS_EmptySet
    <3> QED BY <1>6, <2>2, <3>2
  <2> QED BY <2>1, <2>2
<1>10. Cardinality(C) \in Nat
  BY <1>1, FS_CardinalityType
<1>11. ASSUME NEW i \in 1 .. Len(new)
       PROVE  \/ \E j \in 1 .. Len(q) : new[i] = q[j]
              \/ IsPiece(new[i], m, seq, hi) /\ Cardinality(C) > 0
  BY <1>6, <1>7
<1> QED BY <1>6, <1>8, <1>9, <1>10, <1>11 DEF Stored

\* The bytes held, when taken is added to them.
LEMMA HeldMore ==
    ASSUME NEW q, NEW new, NEW taken \in SUBSET (0 .. StreamLen), StreamLen \in Nat,
           \A b \in taken : ~Holds(q, b),
           \A b \in Int : Holds(new, b) <=> Holds(q, b) \/ b \in taken
    PROVE  Cardinality(Held(new)) = Cardinality(Held(q)) + Cardinality(taken)
<1>1. IsFiniteSet(0 .. StreamLen)
  BY FS_Interval
<1>2. IsFiniteSet(Held(q)) /\ IsFiniteSet(taken)
  <2>1. Held(q) \subseteq 0 .. StreamLen
    BY DEF Held
  <2> QED BY <1>1, <2>1, FS_Subset
<1>3. Held(new) = Held(q) \cup taken
  <2>1. ASSUME NEW b PROVE b \in Held(new) <=> b \in Held(q) \/ b \in taken
    <3>1. CASE b \in 0 .. StreamLen
      <4>1. b \in Int
        BY <3>1
      <4> QED BY <3>1, <4>1 DEF Held
    <3>2. CASE b \notin 0 .. StreamLen
      BY <3>2 DEF Held
    <3> QED BY <3>1, <3>2
  <2> QED BY <2>1, Zenon
<1>4. Held(q) \cap taken = {}
  BY DEF Held
<1>5. Cardinality(Held(q) \cup taken)
        = Cardinality(Held(q)) + Cardinality(taken) - Cardinality(Held(q) \cap taken)
  BY <1>2, FS_Union
<1>6. Cardinality(Held(q)) \in Nat /\ Cardinality(taken) \in Nat /\ Cardinality({}) = 0
  BY <1>2, FS_CardinalityType, FS_EmptySet
<1>7. Cardinality(Held(q) \cap taken) = 0
  BY <1>4, <1>6, Zenon
<1>8. Cardinality(Held(new)) = Cardinality(Held(q) \cup taken)
  BY <1>3, Zenon
<1> QED BY <1>5, <1>6, <1>7, <1>8

LEMMA OutOfOrderOutcome ==
    ASSUME NEW m, Fresh(m), NEW seq \in Nat, NEW len \in Nat \ {0}, rcv_nxt < seq,
           seq + len <= StreamLen, seq + len - 1 < rcv_nxt + RcvWnd
    PROVE  Outcome(OutOfOrder(m, seq, len)) /\ OutOfOrder(m, seq, len).nxt = rcv_nxt
<1> DEFINE r == OutOfOrder(m, seq, len)
           free == SatSub(RecvBuf, total_bytes)
           n == Lesser(len, free)
           hi == seq + n - 1
           taken == Taken(reorder, seq, n, free)
           C == Carved(taken, m, seq)
           new == Inserted(reorder, C)
           card == Cardinality(C)
           fr == Frame(card, seq)
           pool == [mbuf EXCEPT ![m] = fr]
<1>1. /\ rcv_nxt \in Nat /\ rcv_nxt <= StreamLen /\ reorder \in Seq(Seg) /\ mbuf \in Pool
      /\ Owned \in Seq(Desc) /\ m \in 1 .. Mbufs
      /\ QueueOf(reorder, total_bytes, rcv_nxt, mbuf)
      /\ \A k \in 1 .. Mbufs : mbuf[k].refs = Count(reorder, k) + Count(Owned, k)
      /\ Count(reorder, m) = 0 /\ Count(Owned, m) = 0
  BY FreshFacts
<1>2. RecvBuf \in Nat /\ RcvWnd \in Nat /\ StreamLen \in Nat
  BY Params
<1>3. total_bytes = Cardinality(Held(reorder)) /\ total_bytes \in Nat /\ Sorted(reorder)
  <2>1. IsFiniteSet(0 .. StreamLen) /\ Held(reorder) \subseteq 0 .. StreamLen
    BY <1>2, FS_Interval DEF Held
  <2> QED BY <1>1, <2>1, FS_Subset, FS_CardinalityType DEF QueueOf
<1>4. n \in Nat /\ n <= len /\ hi \in Int /\ hi <= seq + len - 1
  BY <1>2, <1>3 DEF Lesser, SatSub
<1>5. taken \in SUBSET (seq .. hi) /\ \A b \in taken : ~Holds(reorder, b)
  BY <1>4, TakenFacts
<1> HIDE DEF n, free, taken
<1>S. Stored(new, reorder, taken, m, seq, hi, card)
  <2>1. Storable(reorder, taken, seq, hi)
    BY <1>1, <1>3, <1>4, <1>5 DEF Storable
  <2> HIDE DEF hi
  <2> QED BY <1>1, <1>3, <2>1, StoredFacts
<1>6. /\ new \in Seq(Seg) /\ Sorted(new)
      /\ \A i \in 1 .. Len(new) : \/ \E j \in 1 .. Len(reorder) : new[i] = reorder[j]
                                  \/ IsPiece(new[i], m, seq, hi) /\ card > 0
      /\ \A b \in Int : Holds(new, b) <=> Holds(reorder, b) \/ b \in taken
      /\ \A k : Count(new, k) = Count(reorder, k) + (IF k = m THEN card ELSE 0)
      /\ card \in Nat
  <2> HIDE DEF hi, new, card
  <2> QED BY <1>S DEF Stored
<1> HIDE DEF new, C
<1>7. Cardinality(Held(new)) = total_bytes + Cardinality(taken)
  <2>1. taken \in SUBSET (0 .. StreamLen)
    BY <1>1, <1>2, <1>4, <1>5
  <2>2. Cardinality(Held(new)) = Cardinality(Held(reorder)) + Cardinality(taken)
    BY <1>2, <1>5, <1>6, <2>1, HeldMore
  <2> QED BY <1>3, <2>2
<1> HIDE DEF card
<1>8. FrameRefs(0, card) = card
  BY <1>6 DEF FrameRefs, SatSub
<1>9. /\ r.descs = <<>> /\ r.nxt = rcv_nxt /\ r.reorder = new
      /\ r.left = total_bytes + Cardinality(taken) /\ r.pool = pool
  BY <1>8 DEF OutOfOrder, Received, new, C, card, taken, n, free
<1>10. /\ fr \in [refs : Nat, base : Int] /\ fr.refs = card
       /\ (card > 0 => fr.base = seq)
  BY <1>6 DEF Frame, NoMbuf, None
<1> HIDE DEF r, fr
<1>11. pool \in Pool /\ pool[m] = fr /\ \A k \in 1 .. Mbufs : k # m => pool[k] = mbuf[k]
  BY <1>1, <1>10 DEF Pool
<1> HIDE DEF pool
<1>12. \A i \in 1 .. Len(reorder) : reorder[i].mbuf # m /\ reorder[i] \in Seg
  BY <1>1, CountType, ElementOfSeq
<1>13. OutTypes(r)
  BY <1>1, <1>6, <1>9, <1>11, EmptySeq DEF OutTypes
<1>14. QueueOf(r.reorder, r.left, r.nxt, r.pool)
  <2>1. ASSUME NEW i \in 1 .. Len(new)
        PROVE  /\ new[i].seq > rcv_nxt /\ EndSeq(new[i]) <= StreamLen
               /\ EndSeq(new[i]) <= rcv_nxt + RcvWnd
               /\ pool[new[i].mbuf].base + new[i].offset = new[i].seq
    <3>0. new[i] \in Seg
      BY <1>6, ElementOfSeq
    <3>1. CASE \E j \in 1 .. Len(reorder) : new[i] = reorder[j]
      <4>1. PICK j \in 1 .. Len(reorder) : new[i] = reorder[j]
        BY <3>1
      <4>2. /\ new[i].seq > rcv_nxt /\ EndSeq(new[i]) <= StreamLen
            /\ EndSeq(new[i]) <= rcv_nxt + RcvWnd
            /\ mbuf[new[i].mbuf].base + new[i].offset = new[i].seq
        BY <1>1, <4>1 DEF QueueOf
      <4>3. new[i].mbuf \in 1 .. Mbufs /\ new[i].mbuf # m
        BY <1>12, <3>0, <4>1, SegFacts
      <4>4. pool[new[i].mbuf] = mbuf[new[i].mbuf]
        BY <1>11, <4>3
      <4> QED BY <4>2, <4>4
    <3>2. CASE IsPiece(new[i], m, seq, hi) /\ card > 0
      <4>1. /\ new[i].mbuf = m /\ seq + new[i].offset = new[i].seq
            /\ seq <= new[i].seq /\ EndSeq(new[i]) <= hi + 1
        BY <3>2 DEF IsPiece
      <4>2. new[i].seq \in Nat /\ EndSeq(new[i]) \in Nat
        BY <3>0, SegFacts
      <4>3. pool[new[i].mbuf].base = seq
        BY <1>10, <1>11, <3>2, <4>1
      <4> QED BY <1>1, <1>2, <1>4, <4>1, <4>2, <4>3
    <3> QED BY <1>6, <3>1, <3>2
  <2> QED BY <1>6, <1>7, <1>9, <2>1 DEF QueueOf
<1>15. OutRefs(r)
  <2>1. \A k : Count(reorder, k) \in Nat /\ Count(Owned, k) \in Nat
    BY <1>1, CountType
  <2>2. \A k : Count(<<>>, k) = 0
    BY CountEmpty
  <2>3. ASSUME NEW k \in 1 .. Mbufs
        PROVE  /\ pool[k].refs = Count(new, k) + 0 + Count(Owned, k)
               /\ (Count(Owned, k) > 0 => pool[k].base = mbuf[k].base)
    <3>1. CASE k = m
      <4>1. Count(reorder, k) = 0 /\ Count(Owned, k) = 0 /\ pool[k].refs = card
        BY <1>1, <1>10, <1>11, <3>1
      <4>2. Count(new, k) = card
        BY <1>6, <3>1, <4>1
      <4> QED BY <1>6, <4>1, <4>2
    <3>2. CASE k # m
      <4>1. pool[k] = mbuf[k] /\ Count(new, k) = Count(reorder, k)
        BY <1>6, <1>11, <2>1, <3>2
      <4> QED BY <1>1, <2>1, <4>1
    <3> QED BY <3>1, <3>2
  <2> QED BY <1>9, <2>2, <2>3 DEF OutRefs
<1>16. OutBytes(r)
  <2>1. Contents(pool, <<>>) = <<>> /\ Bytes(rcv_nxt, rcv_nxt) = <<>>
    BY <1>1, <1>11, ContentsEmpty, BytesNone
  <2>2. \A b \in Nat : Holds(reorder, b) => Holds(new, b)
    BY <1>6
  <2> QED BY <1>9, <2>1, <2>2 DEF OutBytes
<1> QED BY <1>9, <1>13, <1>14, <1>15, <1>16 DEF Outcome, r

-----------------------------------------------------------------------------
\* The end of a handler: its events are pushed.

\* A pool whose references are those of others, of descs and of the queued
\* events, which it shows as mbuf does.
PoolFor(pool, others, descs) ==
    \A k \in 1 .. Mbufs :
        /\ pool[k].refs = others[k] + Count(descs, k) + Count(Owned, k)
        /\ Count(Owned, k) > 0 => pool[k].base = mbuf[k].base

\* The pool and the queue after a push.
Settled(pool, others) ==
    /\ mbuf' \in Pool /\ events' \in Seq(Event) /\ events_dropped' \in BOOLEAN
    /\ \A k \in 1 .. Mbufs :
          /\ mbuf'[k].refs = others[k] + Count(OwnedBy(events'), k)
          /\ mbuf'[k].refs > 0 => mbuf'[k].base = pool[k].base

LEMMA IntsAssociative ==
    ASSUME NEW x \in Seq(Int), NEW y \in Seq(Int), NEW z \in Seq(Int)
    PROVE  (x \o y) \o z = x \o (y \o z)
<1> DEFINE T == Int
<1>1. x \in Seq(T) /\ y \in Seq(T) /\ z \in Seq(T)
  OBVIOUS
<1> HIDE DEF T
<1> QED BY <1>1, ConcatAssociative

LEMMA PushStream ==
    ASSUME TypeInv, NEW pool \in Pool, NEW others \in [1 .. Mbufs -> Nat],
           NEW new \in Seq(Event), NEW descs, descs = OwnedBy(new), PoolFor(pool, others, descs),
           NEW lo \in Nat, NEW hi \in Nat, lo <= hi, Contents(pool, descs) = Bytes(lo, hi),
           Push(new, pool)
    PROVE  /\ Settled(pool, others)
           /\ StreamOf(got, mbuf, events, lo, events_dropped)
                => StreamOf(got, mbuf', events', hi, events_dropped')
<1> DEFINE p == Pushed(events, new)
           cut == p.cut
           kept == p.kept
           a == OwnedBy(cut)
           b == OwnedBy(kept)
<1>1. events \in Seq(Event) /\ mbuf \in Pool /\ got \in Seq(Int) /\ events_dropped \in BOOLEAN
  BY DEF TypeInv
<1>2. descs \in Seq(Desc) /\ Owned \in Seq(Desc)
  BY <1>1, OwnedType DEF Owned
<1>3. events' = kept /\ events_dropped' = (events_dropped \/ cut # <<>>) /\ mbuf' = Release(pool, a)
  BY DEF Push
<1>4. /\ Cuts(cut, events, new, kept) /\ mbuf' \in Pool
      /\ \A k \in 1 .. Mbufs :
            /\ mbuf'[k].refs = others[k] + Count(b, k)
            /\ mbuf'[k].refs > 0 => mbuf'[k].base = pool[k].base
  <2>1. \A k : Count(descs, k) \in Nat /\ Count(Owned, k) \in Nat
    BY <1>2, CountType
  <2>2. ASSUME NEW k \in 1 .. Mbufs
        PROVE  pool[k].refs = others[k] + Count(OwnedBy(events), k) + Count(OwnedBy(new), k)
    <3>1. pool[k].refs = others[k] + Count(descs, k) + Count(Owned, k)
      BY DEF PoolFor
    <3>2. pool[k].refs = others[k] + Count(Owned, k) + Count(descs, k)
      BY <2>1, <3>1
    <3> QED BY <3>2, Zenon DEF Owned
  <2>3. LET q == Pushed(events, new)
            after == Release(pool, OwnedBy(q.cut))
        IN  /\ Cuts(q.cut, events, new, q.kept) /\ after \in Pool
            /\ \A k \in 1 .. Mbufs :
                  /\ after[k].refs = others[k] + Count(OwnedBy(q.kept), k)
                  /\ after[k].refs > 0 => after[k].base = pool[k].base
    BY <1>1, <2>2, PushFacts
  <2> QED BY <1>3, <2>3, Zenon
<1> HIDE DEF p
<1>5. cut \in Seq(Event) /\ kept \in Seq(Event) /\ events \o new = cut \o kept
  BY <1>4 DEF Cuts
<1> HIDE DEF cut, kept
<1>6. /\ a \in Seq(Desc) /\ b \in Seq(Desc) /\ Owned \o descs = a \o b
  <2>1. OwnedBy(events \o new) = Owned \o descs
    BY <1>1, OwnedConcat DEF Owned
  <2>2. OwnedBy(cut \o kept) = a \o b /\ a \in Seq(Desc) /\ b \in Seq(Desc)
    BY <1>5, OwnedConcat
  <2> QED BY <1>5, <2>1, <2>2
<1>7. Settled(pool, others)
  BY <1>3, <1>4, <1>5 DEF Settled
<1> DEFINE x == Contents(mbuf, Owned)
           ca == Contents(pool, a)
           cb == Contents(pool, b)
<1>8. x \in Seq(Int) /\ ca \in Seq(Int) /\ cb \in Seq(Int)
  BY <1>1, <1>2, <1>6, ContentsType
<1>9. Contents(pool, Owned) = x
  <2>1. ASSUME NEW i \in 1 .. Len(Owned) PROVE pool[Owned[i].mbuf].base = mbuf[Owned[i].mbuf].base
    <3>1. Owned[i].mbuf \in 1 .. Mbufs /\ Count(Owned, Owned[i].mbuf) > 0
      BY <1>2, DescMbuf, CountShown
    <3> QED BY <3>1 DEF PoolFor
  <2> QED BY <1>1, <1>2, <2>1, ContentsSame
<1>10. Contents(mbuf', b) = cb
  <2>1. ASSUME NEW i \in 1 .. Len(b) PROVE mbuf'[b[i].mbuf].base = pool[b[i].mbuf].base
    <3>1. b[i].mbuf \in 1 .. Mbufs /\ Count(b, b[i].mbuf) > 0
      BY <1>6, DescMbuf, CountShown
    <3>2. Count(b, b[i].mbuf) \in Nat
      BY <1>6, CountType
    <3> HIDE DEF b
    <3> QED BY <1>4, <3>1, <3>2
  <2> QED BY <1>4, <1>6, <2>1, ContentsSame
<1>11. x \o Bytes(lo, hi) = ca \o cb
  <2>1. Contents(pool, Owned \o descs) = x \o Bytes(lo, hi)
    BY <1>2, <1>9, ContentsConcat
  <2>2. Contents(pool, a \o b) = ca \o cb
    BY <1>6, ContentsConcat
  <2> QED BY <1>6, <2>1, <2>2
<1>12. Bytes(lo, hi) \in Seq(Int)
  BY BytesType
<1> HIDE DEF x, ca, cb, a, b
<1>13. (got \o x) \o Bytes(lo, hi) = got \o (ca \o cb)
  <2>1. (got \o x) \o Bytes(lo, hi) = got \o (x \o Bytes(lo, hi))
    BY <1>1, <1>8, <1>12, IntsAssociative
  <2> QED BY <1>11, <2>1
<1>14. ASSUME StreamOf(got, mbuf, events, lo, events_dropped)
       PROVE  StreamOf(got, mbuf', events', hi, events_dropped')
  <2>1. Ascends(got \o x, lo) /\ (~events_dropped => got \o x = Bytes(0, lo))
    BY <1>14, Zenon DEF StreamOf, x, Owned
  <2>2. got \o x \in Seq(Int)
    BY <1>1, <1>8, ConcatProperties
  <2>3. Ascends(got \o (ca \o cb), hi)
    BY <1>13, <2>1, <2>2, AscendsMore
  <2>4. Ascends(got \o cb, hi)
    BY <1>1, <1>8, <2>3, AscendsCut
  <2>5. ASSUME ~events_dropped' PROVE got \o cb = Bytes(0, hi)
    <3>1. ~events_dropped /\ cut = <<>>
      BY <1>1, <1>3, <2>5
    <3>2. a = <<>>
      BY <3>1, OwnedEmpty DEF a
    <3>3. ca = <<>>
      BY <3>2, ContentsEmpty DEF ca
    <3>4. ca \o cb = cb
      BY <1>8, <3>3, ConcatEmptySeq
    <3>5. (got \o x) \o Bytes(lo, hi) = Bytes(0, lo) \o Bytes(lo, hi)
      BY <2>1, <3>1
    <3>6. Bytes(0, lo) \o Bytes(lo, hi) = Bytes(0, hi)
      <4>1. 0 \in Nat /\ 0 <= lo
        OBVIOUS
      <4> QED BY <4>1, BytesConcat
    <3> QED BY <1>13, <3>4, <3>5, <3>6
  <2>6. got \o Contents(mbuf', OwnedBy(events')) = got \o cb
    BY <1>3, <1>10, Zenon DEF b
  <2> QED BY <2>4, <2>5, <2>6, Zenon DEF StreamOf
<1> QED BY <1>7, <1>14

-----------------------------------------------------------------------------
\* A segment is accepted.

\* Only bytes that the queue holds join those reported in SACK blocks.
Acked == sacked' \in SUBSET Nat /\ \A b \in sacked' : b \in sacked \/ Holds(reorder', b)

LEMMA EmitAckFacts ==
    ASSUME TypeInv, reorder' \in Seq(Seg), NEW sent, NEW trigger, NEW free,
           EmitAck(sent, trigger, free)
    PROVE  Acked
<1>1. sacked \in SUBSET Nat
  BY DEF TypeInv
<1>2. CASE sent
  <2> DEFINE R == Reported(AckOf(rcv_nxt', reorder', trigger, free))
  <2>1. sacked' = sacked \cup R
    BY <1>2 DEF EmitAck
  <2>2. \A b \in R : b \in Nat /\ Holds(reorder', b)
    BY ReportedHeld
  <2> HIDE DEF R
  <2> QED BY <1>1, <2>1, <2>2 DEF Acked
<1>3. CASE ~sent
  <2>1. sacked' = sacked
    BY <1>3 DEF EmitAck
  <2> QED BY <1>1, <2>1 DEF Acked
<1> QED BY <1>2, <1>3

Payload(m, seq, len, chained) ==
    IF len = 0 \/ chained THEN Nothing
    ELSE IF seq = rcv_nxt THEN InOrder(m, seq, len)
    ELSE OutOfOrder(m, seq, len)

\* A segment of the peer's stream, inside the window.
OfStream(seq, len, fin) ==
    /\ seq \in Nat /\ len \in Nat /\ fin \in BOOLEAN /\ (len > 0 \/ fin)
    /\ seq + len <= StreamLen /\ (fin => seq + len = StreamLen)

LEMMA PayloadOutcome ==
    ASSUME NEW m, Fresh(m), NEW seq, NEW len, NEW fin, OfStream(seq, len, fin),
           InWindow(seq, IF fin THEN len + 1 ELSE len), NEW chained \in {FALSE, Chains}
    PROVE  /\ Outcome(Payload(m, seq, len, chained))
           /\ fin /\ seq = rcv_nxt /\ ~Chains => Payload(m, seq, len, chained).nxt = StreamLen
<1> DEFINE r == Payload(m, seq, len, chained)
<1>1. /\ seq \in Nat /\ len \in Nat /\ fin \in BOOLEAN
      /\ seq + len <= StreamLen /\ (fin => seq + len = StreamLen)
  BY DEF OfStream
<1>2. rcv_nxt \in Nat
  BY FreshFacts
<1>3. RcvWnd \in Nat /\ StreamLen \in Nat /\ Chains \in BOOLEAN
  BY Params
<1>4. rcv_nxt <= seq /\ seq + len - 1 < rcv_nxt + RcvWnd
  BY <1>1, <1>2, <1>3 DEF InWindow
<1>5. CASE len = 0 \/ chained
  <2>1. r = Nothing
    BY <1>5 DEF Payload
  <2>2. Outcome(r) /\ r.nxt = rcv_nxt
    BY <2>1, NothingOutcome
  <2>3. ASSUME fin, seq = rcv_nxt, ~Chains PROVE rcv_nxt = StreamLen
    <3>0. ~chained
      BY <2>3, Zenon
    <3>1. len = 0
      BY <1>5, <3>0
    <3> QED BY <1>1, <1>2, <2>3, <3>1
  <2> QED BY <2>2, <2>3
<1>6. CASE ~(len = 0 \/ chained) /\ seq = rcv_nxt
  <2>1. r = InOrder(m, rcv_nxt, len)
    BY <1>6 DEF Payload
  <2>2. len \in Nat \ {0} /\ rcv_nxt + len <= StreamLen /\ len <= RcvWnd
    BY <1>1, <1>2, <1>3, <1>4, <1>6
  <2>3. Outcome(r) /\ r.nxt >= rcv_nxt + len
    BY <2>1, <2>2, InOrderOutcome
  <2>4. r.nxt \in Nat /\ r.nxt <= StreamLen
    BY <2>3 DEF Outcome, OutTypes
  <2>5. ASSUME fin PROVE r.nxt = StreamLen
    BY <1>1, <1>2, <1>3, <1>6, <2>3, <2>4, <2>5
  <2> QED BY <2>3, <2>5
<1>7. CASE ~(len = 0 \/ chained) /\ seq # rcv_nxt
  <2>1. r = OutOfOrder(m, seq, len)
    BY <1>7 DEF Payload
  <2>2. len \in Nat \ {0} /\ rcv_nxt < seq
    BY <1>1, <1>2, <1>4, <1>7
  <2> QED BY <1>1, <1>4, <1>7, <2>1, <2>2, OutOfOrderOutcome
<1> QED BY <1>5, <1>6, <1>7

\* What accepting a segment does, with the outcome r of its payload, and with
\* its FIN when it closes.
Arrives(r, closes) ==
    /\ Outcome(r) /\ closes \in BOOLEAN
    /\ closes /\ ~Chains => r.nxt = StreamLen
    /\ rcv_nxt' = IF closes THEN r.nxt + 1 ELSE r.nxt
    /\ state' = IF closes THEN "CloseWait" ELSE state
    /\ reorder' = r.reorder /\ total_bytes' = r.left
    /\ Acked
    /\ \E new \in Seq(Event) : OwnedBy(new) = r.descs /\ Push(new, r.pool)

LEMMA NewEvents ==
    ASSUME NEW descs \in Seq(Desc), NEW closes \in BOOLEAN, NEW some \in BOOLEAN,
           ~some => descs = <<>>
    PROVE  LET new == (IF closes THEN <<Notice("state")>> ELSE <<>>)
                        \o (IF some THEN <<Readable(descs)>> ELSE <<>>)
           IN  new \in Seq(Event) /\ OwnedBy(new) = descs
<1> DEFINE a == IF closes THEN <<Notice("state")>> ELSE <<>>
           b == IF some THEN <<Readable(descs)>> ELSE <<>>
<1>1. a \in Seq(Event) /\ OwnedBy(a) = <<>>
  <2>1. Notice("state") \in Event /\ Notice("state").descs = <<>>
    BY EmptySeq DEF Notice, Event
  <2>2. <<Notice("state")>> \in Seq(Event) /\ OwnedBy(<<Notice("state")>>) = <<>>
    BY <2>1, OwnedOne
  <2>3. <<>> \in Seq(Event) /\ OwnedBy(<<>>) = <<>>
    BY OwnedEmpty, EmptySeq
  <2> QED BY <2>2, <2>3
<1>2. b \in Seq(Event) /\ OwnedBy(b) = descs
  <2>1. Readable(descs) \in Event /\ Readable(descs).descs = descs
    BY DEF Readable, Event
  <2>2. <<Readable(descs)>> \in Seq(Event) /\ OwnedBy(<<Readable(descs)>>) = descs
    BY <2>1, OwnedOne
  <2>3. <<>> \in Seq(Event) /\ OwnedBy(<<>>) = <<>>
    BY OwnedEmpty, EmptySeq
  <2> QED BY <2>2, <2>3
<1> HIDE DEF a, b
<1>3. a \o b \in Seq(Event) /\ OwnedBy(a \o b) = <<>> \o descs
  BY <1>1, <1>2, OwnedConcat, ConcatProperties
<1>4. <<>> \o descs = descs
  BY ConcatEmptySeq
<1> QED BY <1>3, <1>4 DEF a, b

LEMMA AcceptStep ==
    ASSUME NEW m, Fresh(m), NEW seq, NEW len, NEW fin, OfStream(seq, len, fin),
           InWindow(seq, IF fin THEN len + 1 ELSE len), NEW chained \in {FALSE, Chains},
           NEW sent, Accept(m, seq, len, fin, chained, sent)
    PROVE  \E r : \E closes \in BOOLEAN : Arrives(r, closes)
<1> DEFINE r == Payload(m, seq, len, chained)
           delivered == r.nxt - rcv_nxt
           closes == fin /\ FinAccepted(seq, delivered, r.nxt)
           new == (IF closes THEN <<Notice("state")>> ELSE <<>>)
                    \o (IF delivered > 0 THEN <<Readable(r.descs)>> ELSE <<>>)
<1>1. Outcome(r) /\ (fin /\ seq = rcv_nxt /\ ~Chains => r.nxt = StreamLen)
  BY PayloadOutcome
<1>2. seq \in Nat /\ fin \in BOOLEAN
  BY DEF OfStream
<1>3. rcv_nxt \in Nat /\ TypeInv
  BY FreshFacts DEF Fresh, Inv
<1>4. /\ rcv_nxt' = IF closes THEN r.nxt + 1 ELSE r.nxt
      /\ reorder' = r.reorder /\ total_bytes' = r.left
      /\ state' = IF closes THEN "CloseWait" ELSE state
      /\ IF closes \/ len > 0
         THEN EmitAck(sent, r.trigger, SatSub(RecvBuf, delivered + r.left))
         ELSE UNCHANGED <<last_sack_trigger, ack, edge, sacked>>
      /\ Push(new, r.pool)
  BY Zenon DEF Accept, Payload
<1> HIDE DEF r
<1>5. /\ r.nxt \in Nat /\ rcv_nxt <= r.nxt /\ r.descs \in Seq(Desc) /\ r.reorder \in Seq(Seg)
      /\ (r.nxt = rcv_nxt => r.descs = <<>>)
  BY <1>1 DEF Outcome, OutTypes, OutBytes
<1>6. closes \in BOOLEAN /\ (closes => fin /\ seq = rcv_nxt)
  BY <1>2, <1>3, <1>5 DEF FinAccepted
<1>7. (delivered > 0) \in BOOLEAN /\ (~(delivered > 0) => r.descs = <<>>)
  BY <1>3, <1>5
<1> HIDE DEF closes, delivered
<1>8. new \in Seq(Event) /\ OwnedBy(new) = r.descs
  BY <1>5, <1>6, <1>7, NewEvents
<1> HIDE DEF new
<1>9. Acked
  <2>1. CASE closes \/ len > 0
    BY <1>3, <1>4, <1>5, <2>1, EmitAckFacts
  <2>2. CASE ~(closes \/ len > 0)
    BY <1>3, <1>4, <2>2 DEF Acked, TypeInv
  <2> QED BY <2>1, <2>2
<1>10. Arrives(r, closes)
  BY <1>1, <1>4, <1>6, <1>8, <1>9 DEF Arrives
<1> QED BY <1>6, <1>10

-----------------------------------------------------------------------------
\* Every step keeps the invariant.

ViewOf(pool, evs, g) ==
    LET view == Contents(pool, OwnedBy(evs))
    IN  /\ Len(view) <= Len(g)
        /\ view = SubSeq(g, Len(g) - Len(view) + 1, Len(g))

LEMMA TailPart ==
    ASSUME NEW h \in Seq(Int), NEW v \in Seq(Int), NEW n \in Nat, NEW k \in Nat,
           Len(h) = n + k, Len(v) = k, \A i \in 1 .. k : h[n + i] = v[i]
    PROVE  SubSeq(h, n + 1, n + k) = v
<1> DEFINE lo == n + 1
           hi == n + k
           w == SubSeq(h, lo, hi)
<1>1. \A i \in 1 .. n + k : h[i] \in Int
  BY ElementOfSeq
<1>2. lo \in Int /\ hi \in Int /\ \A i \in lo .. hi : h[i] \in Int
  BY <1>1
<1> HIDE DEF lo, hi
<1>3. /\ w \in Seq(Int) /\ Len(w) = IF lo <= hi THEN hi - lo + 1 ELSE 0
      /\ \A i \in 1 .. hi - lo + 1 : w[i] = h[lo + i - 1]
  BY <1>2, SubSeqProperties
<1> HIDE DEF w
<1>4. Len(w) = k
  BY <1>3 DEF lo, hi
<1>5. ASSUME NEW i \in 1 .. k PROVE w[i] = v[i]
  <2>1. i \in 1 .. hi - lo + 1 /\ lo + i - 1 = n + i
    BY DEF lo, hi
  <2> QED BY <1>3, <2>1
<1>6. w = v
  BY <1>3, <1>4, <1>5, SeqEqual
<1> QED BY <1>6 DEF w, lo, hi

\* Nothing lent, and what was just handed over.
LEMMA ViewLast ==
    ASSUME NEW pool \in Pool, NEW evs \in Seq(Event), NEW g \in Seq(Int), NEW h,
           h = g \o Contents(pool, OwnedBy(evs))
    PROVE  h \in Seq(Int) /\ ViewOf(pool, evs, h)
<1> DEFINE v == Contents(pool, OwnedBy(evs))
           n == Len(g)
           k == Len(v)
           w == SubSeq(h, n + 1, n + k)
<1>1. v \in Seq(Int) /\ n \in Nat /\ k \in Nat
  <2>1. OwnedBy(evs) \in Seq(Desc)
    BY OwnedType
  <2> QED BY <2>1, ContentsType, LenProperties
<1>2. /\ h \in Seq(Int) /\ Len(h) = n + k
      /\ \A i \in 1 .. n + k : h[i] = IF i <= n THEN g[i] ELSE v[i - n]
  <2> HIDE DEF v
  <2> QED BY <1>1, ConcatProperties DEF v
<1> HIDE DEF v
<1>3. ASSUME NEW i \in 1 .. k PROVE h[n + i] = v[i]
  <2> DEFINE e == n + i
  <2>1. e \in 1 .. n + k /\ ~(e <= n) /\ e - n = i
    BY <1>1
  <2> HIDE DEF e, n, k
  <2>2. h[e] = v[e - n]
    BY <1>2, <2>1, Zenon
  <2>3. h[e] = v[i]
    BY <2>1, <2>2
  <2> QED BY <2>3 DEF e
<1>4. w = v
  <2>1. Len(v) = k
    OBVIOUS
  <2> HIDE DEF n, k
  <2> QED BY <1>1, <1>2, <1>3, <2>1, TailPart
<1>5. n + k - k + 1 = n + 1 /\ k <= n + k
  BY <1>1
<1> QED BY <1>2, <1>4, <1>5 DEF ViewOf, v

LEMMA ViewNone ==
    ASSUME NEW pool \in Pool, NEW g \in Seq(Int)
    PROVE  ViewOf(pool, <<>>, g)
<1>1. Contents(pool, OwnedBy(<<>>)) = <<>>
  BY OwnedEmpty, ContentsEmpty
<1>2. g = g \o Contents(pool, OwnedBy(<<>>))
  BY <1>1, ConcatEmptySeq
<1>3. <<>> \in Seq(Event)
  BY EmptySeq
<1> QED BY <1>2, <1>3, ViewLast

LEMMA NoneHeld ==
    ASSUME NEW nxt, NEW pool
    PROVE  QueueOf(<<>>, 0, nxt, pool)
<1>1. <<>> \in Seq(Seg) /\ Len(<<>>) = 0
  BY EmptySeq
<1>2. Held(<<>>) = {}
  <2>1. ASSUME NEW b PROVE ~Holds(<<>>, b)
    <3>1. Holds(<<>>, b) <=> \E i \in 1 .. Len(<<>>) : In(<<>>[i], b)
      BY <1>1, HoldsIn
    <3> QED BY <1>1, <3>1
  <2> QED BY <2>1 DEF Held
<1>3. Cardinality({}) = 0
  BY FS_EmptySet
<1> QED BY <1>1, <1>2, <1>3 DEF QueueOf, Sorted

\* A queue stays right while the pool shows the same through it.
LEMMA QueueSame ==
    ASSUME NEW q \in Seq(Seg), NEW left, NEW nxt, NEW pool, NEW new, QueueOf(q, left, nxt, pool),
           \A k \in 1 .. Mbufs : Count(q, k) > 0 => new[k].base = pool[k].base
    PROVE  QueueOf(q, left, nxt, new)
<1>1. ASSUME NEW i \in 1 .. Len(q) PROVE new[q[i].mbuf].base = pool[q[i].mbuf].base
  <2>1. q[i].mbuf \in 1 .. Mbufs
    BY ElementOfSeq, SegFacts
  <2>2. Count(q, q[i].mbuf) > 0
    BY CountShown
  <2> QED BY <2>1, <2>2
<1> QED BY <1>1 DEF QueueOf

LEMMA ArrivesInv ==
    ASSUME NEW m, Fresh(m), NEW r, NEW closes \in BOOLEAN, Arrives(r, closes),
           UNCHANGED <<scratch, polling, got>>
    PROVE  Inv'
<1>1. /\ Outcome(r) /\ (closes /\ ~Chains => r.nxt = StreamLen)
      /\ rcv_nxt' = (IF closes THEN r.nxt + 1 ELSE r.nxt)
      /\ state' = (IF closes THEN "CloseWait" ELSE state)
      /\ reorder' = r.reorder /\ total_bytes' = r.left /\ Acked
  BY DEF Arrives
<1>2. PICK new \in Seq(Event) : OwnedBy(new) = r.descs /\ Push(new, r.pool)
  BY DEF Arrives
<1>3. TypeInv /\ polling \in BOOLEAN /\ got \in Seq(Int) /\ state = "Established" /\ NoRenege /\ StreamInv
  BY DEF Fresh, Inv, TypeInv
<1>4. rcv_nxt \in Nat /\ rcv_nxt <= StreamLen /\ scratch = <<>> /\ Owned \in Seq(Desc)
  BY FreshFacts
<1>5. /\ r.descs \in Seq(Desc) /\ r.nxt \in Nat /\ rcv_nxt <= r.nxt /\ r.nxt <= StreamLen
      /\ r.reorder \in Seq(Seg) /\ r.pool \in Pool
      /\ QueueOf(r.reorder, r.left, r.nxt, r.pool) /\ OutRefs(r) /\ OutBytes(r)
  BY <1>1 DEF Outcome, OutTypes
<1>P. StreamLen \in Nat /\ Chains \in BOOLEAN /\ RcvWnd \in Nat
  BY Params
<1> DEFINE others == [k \in 1 .. Mbufs |-> Count(r.reorder, k)]
<1>6. others \in [1 .. Mbufs -> Nat]
  BY <1>5, CountType
<1>7. PoolFor(r.pool, others, r.descs)
  BY <1>5 DEF PoolFor, OutRefs
<1>8. Contents(r.pool, r.descs) = Bytes(rcv_nxt, r.nxt)
  BY <1>5 DEF OutBytes
<1>9. /\ Settled(r.pool, others)
      /\ StreamOf(got, mbuf, events, rcv_nxt, events_dropped)
           => StreamOf(got, mbuf', events', r.nxt, events_dropped')
  <2> HIDE DEF others
  <2> QED BY <1>2, <1>3, <1>4, <1>5, <1>6, <1>7, <1>8, PushStream
<1>10. /\ mbuf' \in Pool /\ events' \in Seq(Event) /\ events_dropped' \in BOOLEAN
       /\ \A k \in 1 .. Mbufs :
             /\ mbuf'[k].refs = Count(r.reorder, k) + Count(OwnedBy(events'), k)
             /\ mbuf'[k].refs > 0 => mbuf'[k].base = r.pool[k].base
  BY <1>9 DEF Settled
<1> HIDE DEF others
<1>11. scratch' = <<>> /\ polling' = polling /\ got' = got
  BY <1>4
<1>12. TypeInv'
  <2>1. state' \in {"Established", "CloseWait", "Closed"} /\ rcv_nxt' \in Nat
    BY <1>1, <1>3, <1>5
  <2>2. <<>> \in Seq(Event)
    BY EmptySeq
  <2> QED BY <1>1, <1>3, <1>5, <1>10, <1>11, <2>1, <2>2 DEF TypeInv, Acked
<1>13. LentInv'
  BY <1>11 DEF LentInv
<1>14. \A k : Count(r.reorder, k) \in Nat /\ Count(OwnedBy(events'), k) \in Nat
  <2>1. OwnedBy(events') \in Seq(Desc)
    BY <1>10, OwnedType
  <2> QED BY <1>5, <2>1, CountType
<1>15. QueueInv'
  <2>1. SUFFICES ASSUME Trusted' PROVE QueueOf(r.reorder, r.left, rcv_nxt', mbuf')
    BY <1>1 DEF QueueInv
  <2>2. QueueOf(r.reorder, r.left, r.nxt, mbuf')
    <3>1. \A k \in 1 .. Mbufs : Count(r.reorder, k) > 0 => mbuf'[k].base = r.pool[k].base
      BY <1>10, <1>14
    <3> QED BY <1>5, <3>1, QueueSame
  <2>3. CASE ~closes
    BY <1>1, <2>2, <2>3
  <2>4. CASE closes
    <3>1. ~Chains
      BY <1>1, <2>1, <2>4 DEF Trusted
    <3>2. r.nxt = StreamLen /\ rcv_nxt' = StreamLen + 1
      BY <1>1, <2>4, <3>1
    <3>3. ASSUME NEW i \in 1 .. Len(r.reorder) PROVE FALSE
      <4>1. r.reorder[i].seq > StreamLen /\ EndSeq(r.reorder[i]) <= StreamLen
        BY <1>5, <3>2 DEF QueueOf
      <4>2. r.reorder[i] \in Seg
        BY <1>5, ElementOfSeq
      <4> QED BY <1>P, <4>1, <4>2, SegFacts
    <3> QED BY <2>2, <3>3 DEF QueueOf
  <2> QED BY <2>3, <2>4
<1>16. PlaceInv'
  BY <1>1, <1>3, <1>5 DEF PlaceInv
<1>17. RefsInv'
  <2>1. \A k : Count(OwnedBy(scratch'), k) = 0
    BY <1>11, OwnedEmpty, CountEmpty
  <2> QED BY <1>1, <1>10, <1>14, <2>1 DEF RefsInv
<1>18. ViewStable'
  <2>1. ViewOf(mbuf', <<>>, got)
    BY <1>3, <1>10, ViewNone
  <2> QED BY <1>11, <2>1, Zenon DEF ViewStable, ViewOf
<1>19. NoRenege'
  <2>1. SUFFICES ASSUME state' = "Established", NEW b \in sacked'
                 PROVE  b < rcv_nxt' \/ Holds(reorder', b)
    BY DEF NoRenege
  <2>2. rcv_nxt' = r.nxt
    BY <1>1, <2>1
  <2>3. b \in Nat /\ (b \in sacked \/ Holds(reorder', b))
    BY <1>1, <2>1 DEF Acked
  <2>4. CASE b \in sacked
    <3>1. b < rcv_nxt \/ Holds(reorder, b)
      BY <1>3, <2>4 DEF NoRenege
    <3>2. Holds(reorder, b) => b < r.nxt \/ Holds(r.reorder, b)
      BY <1>5, <2>3 DEF OutBytes
    <3>3. b < rcv_nxt => b < r.nxt
      BY <1>4, <1>5, <2>3
    <3> QED BY <1>1, <2>2, <3>1, <3>2, <3>3
  <2> QED BY <2>3, <2>4
<1>20. StreamInv'
  <2>1. SUFFICES ASSUME ~Chains PROVE StreamOf(got, mbuf', events', Arrived', events_dropped')
    BY <1>11 DEF StreamInv
  <2>2. Arrived = rcv_nxt
    BY <1>4, <1>P DEF Arrived
  <2>3. Arrived' = r.nxt
    BY <1>1, <1>5, <1>P, <2>1 DEF Arrived
  <2>4. StreamOf(got, mbuf, events, rcv_nxt, events_dropped)
    BY <1>3, <2>1, <2>2 DEF StreamInv
  <2> QED BY <1>9, <2>3, <2>4
<1> QED BY <1>12, <1>13, <1>15, <1>16, <1>17, <1>18, <1>19, <1>20 DEF Inv

\* What the invariant reads besides the SACK history.
core == <<state, rcv_nxt, reorder, total_bytes, mbuf, events, events_dropped, scratch, polling,
          got>>

LEMMA CoreSame ==
    ASSUME Inv, UNCHANGED core, Acked
    PROVE  Inv'
<1>1. /\ state' = state /\ rcv_nxt' = rcv_nxt /\ reorder' = reorder /\ total_bytes' = total_bytes
      /\ mbuf' = mbuf /\ events' = events /\ events_dropped' = events_dropped
      /\ scratch' = scratch /\ polling' = polling /\ got' = got
  BY DEF core
<1>2. /\ TypeInv /\ LentInv /\ QueueInv /\ PlaceInv /\ RefsInv
      /\ ViewStable /\ NoRenege /\ StreamInv
  BY DEF Inv
<1>3. TypeInv'
  BY <1>1, <1>2 DEF TypeInv, Acked
<1>4. LentInv' /\ PlaceInv'
  BY <1>1, <1>2 DEF LentInv, PlaceInv
<1>5. QueueInv'
  BY <1>1, <1>2, Zenon DEF QueueInv, Trusted
<1>6. RefsInv'
  BY <1>1, <1>2, Zenon DEF RefsInv
<1>7. ViewStable'
  BY <1>1, <1>2, Zenon DEF ViewStable
<1>8. NoRenege'
  BY <1>1, <1>2 DEF NoRenege, Acked
<1>9. StreamInv'
  BY <1>1, <1>2, Zenon DEF StreamInv, Arrived
<1> QED BY <1>3, <1>4, <1>5, <1>6, <1>7, <1>8, <1>9 DEF Inv

LEMMA RejectInv ==
    ASSUME Inv, NEW sent, Reject(sent), UNCHANGED <<scratch, polling, got>>
    PROVE  Inv'
<1>1. UNCHANGED core
  BY DEF Reject, core
<1>2. TypeInv /\ reorder' \in Seq(Seg)
  BY <1>1 DEF core, Inv, TypeInv
<1>3. Acked
  BY <1>2, EmitAckFacts DEF Reject
<1> QED BY <1>1, <1>3, CoreSame

LEMMA RxSegmentInv ==
    ASSUME Inv, NEW seq \in 0 .. StreamLen, NEW len \in 0 .. MaxLen, NEW fin \in BOOLEAN,
           NEW chained \in {FALSE, Chains}, NEW sent \in BOOLEAN,
           RxSegment(seq, len, fin, chained, sent)
    PROVE  Inv'
<1>1. polling /\ state = "Established" /\ UNCHANGED <<scratch, polling, got>>
  BY DEF RxSegment
<1>2. OfStream(seq, len, fin)
  BY Params DEF RxSegment, OfStream
<1>3. PICK m \in DOMAIN mbuf :
         /\ mbuf[m] = NoMbuf
         /\ IF InWindow(seq, IF fin THEN len + 1 ELSE len)
            THEN Accept(m, seq, len, fin, chained, sent)
            ELSE Reject(sent)
  BY DEF RxSegment
<1>4. DOMAIN mbuf = 1 .. Mbufs
  BY DEF Inv, TypeInv, Pool
<1>5. Fresh(m)
  BY <1>1, <1>3, <1>4 DEF Fresh
<1>6. CASE InWindow(seq, IF fin THEN len + 1 ELSE len)
  <2>1. Accept(m, seq, len, fin, chained, sent)
    BY <1>3, <1>6
  <2>2. PICK r : \E closes \in BOOLEAN : Arrives(r, closes)
    BY <1>2, <1>5, <1>6, <2>1, AcceptStep
  <2> QED BY <1>1, <1>5, <2>2, ArrivesInv
<1>7. CASE ~InWindow(seq, IF fin THEN len + 1 ELSE len)
  BY <1>1, <1>3, <1>7, RejectInv
<1> QED BY <1>6, <1>7

LEMMA PairConcat ==
    ASSUME NEW S, NEW a \in S, NEW b \in S
    PROVE  <<a>> \o <<b>> = <<a, b>>
<1> DEFINE s == <<a>> \o <<b>>
           t == <<a, b>>
<1>1. t \in Seq(S) /\ Len(t) = 2 /\ t[1] = a /\ t[2] = b
  OBVIOUS
<1>2. <<a>> \in Seq(S) /\ <<b>> \in Seq(S) /\ Len(<<a>>) = 1 /\ Len(<<b>>) = 1
      /\ <<a>>[1] = a /\ <<b>>[1] = b
  OBVIOUS
<1>3. /\ s \in Seq(S) /\ Len(s) = 1 + 1
      /\ \A i \in 1 .. 1 + 1 : s[i] = IF i <= 1 THEN <<a>>[i] ELSE <<b>>[i - 1]
  BY <1>2, ConcatProperties
<1> HIDE DEF s, t
<1>4. Len(s) = 2 /\ s[1] = a /\ s[2] = b
  BY <1>2, <1>3
<1>5. \A i \in 1 .. 2 : s[i] = t[i]
  BY <1>1, <1>4
<1>6. s = t
  BY <1>1, <1>3, <1>4, <1>5, SeqEqual
<1> QED BY <1>6 DEF s, t

LEMMA TwoNotices ==
    LET new == <<Notice("state"), Notice("closed")>>
    IN  new \in Seq(Event) /\ OwnedBy(new) = <<>>
<1> DEFINE a == Notice("state")
           b == Notice("closed")
<1>1. a \in Event /\ a.descs = <<>> /\ b \in Event /\ b.descs = <<>>
  BY EmptySeq DEF Notice, Event
<1> HIDE DEF a, b
<1>2. <<a>> \in Seq(Event) /\ OwnedBy(<<a>>) = <<>> /\ <<b>> \in Seq(Event) /\ OwnedBy(<<b>>) = <<>>
  BY <1>1, OwnedOne
<1>3. <<a>> \o <<b>> = <<a, b>>
  BY <1>1, PairConcat
<1>4. <<a>> \o <<b>> \in Seq(Event) /\ OwnedBy(<<a>> \o <<b>>) = <<>> \o <<>>
  BY <1>2, OwnedConcat, ConcatProperties
<1>5. <<>> \o <<>> = <<>>
  BY EmptySeq, ConcatEmptySeq
<1>6. <<a, b>> \in Seq(Event) /\ OwnedBy(<<a, b>>) = <<>>
  BY <1>3, <1>4, <1>5
<1> QED BY <1>6 DEF a, b

LEMMA RecvRstInv ==
    ASSUME Inv, RecvRst
    PROVE  Inv'
<1> DEFINE new == <<Notice("state"), Notice("closed")>>
           pool == Release(mbuf, reorder)
           zero == [k \in 1 .. Mbufs |-> 0]
           kept == [k \in 1 .. Mbufs |-> Count(Owned, k)]
<1>1. /\ polling /\ state' = "Closed" /\ reorder' = <<>> /\ total_bytes' = 0 /\ rcv_nxt' = rcv_nxt
      /\ Push(new, pool) /\ scratch' = scratch /\ polling' = polling /\ got' = got
      /\ sacked' = sacked
  BY DEF RecvRst
<1>2. TypeInv /\ LentInv /\ RefsInv /\ StreamInv
  BY DEF Inv
<1>3. /\ rcv_nxt \in Nat /\ reorder \in Seq(Seg) /\ mbuf \in Pool /\ events \in Seq(Event)
      /\ scratch = <<>> /\ sacked \in SUBSET Nat /\ got \in Seq(Int) /\ polling \in BOOLEAN
  BY <1>1, <1>2 DEF TypeInv, LentInv
<1>4. Owned \in Seq(Desc)
  BY <1>3, OwnedType DEF Owned
<1>5. \A k : Count(reorder, k) \in Nat /\ Count(Owned, k) \in Nat /\ Count(OwnedBy(scratch), k) = 0
  BY <1>3, <1>4, CountType, OwnedEmpty, CountEmpty
<1>6. kept \in [1 .. Mbufs -> Nat] /\ zero \in [1 .. Mbufs -> Nat]
  BY <1>5
<1>7. Owes(mbuf, kept, reorder)
  <2>1. ASSUME NEW k \in 1 .. Mbufs PROVE mbuf[k].refs = kept[k] + Count(reorder, k)
    <3>1. mbuf[k].refs = Count(reorder, k) + Count(Owned, k) + Count(OwnedBy(scratch), k)
      BY <1>2 DEF RefsInv, Owned
    <3> QED BY <1>5, <3>1
  <2> QED BY <2>1 DEF Owes
<1>8. pool \in Pool /\ Leaves(pool, mbuf, kept)
  <2> HIDE DEF kept
  <2> QED BY <1>3, <1>6, <1>7, ReleaseExact
<1> HIDE DEF pool
<1>9. new \in Seq(Event) /\ OwnedBy(new) = <<>>
  BY TwoNotices
<1> HIDE DEF new
<1>10. PoolFor(pool, zero, <<>>)
  <2>1. \A k : Count(<<>>, k) = 0
    BY CountEmpty
  <2> QED BY <1>5, <1>8, <2>1 DEF PoolFor, Leaves
<1> HIDE DEF kept
<1>11. Arrived \in Nat /\ Bytes(Arrived, Arrived) = <<>> /\ Arrived' = Arrived
  <2>1. Arrived \in Nat
    BY <1>3, Params DEF Arrived
  <2> QED BY <1>1, <2>1, BytesNone DEF Arrived
<1>12. Contents(pool, <<>>) = Bytes(Arrived, Arrived)
  BY <1>8, <1>11, ContentsEmpty
<1>13. /\ Settled(pool, zero)
       /\ StreamOf(got, mbuf, events, Arrived, events_dropped)
            => StreamOf(got, mbuf', events', Arrived, events_dropped')
  <2> HIDE DEF zero
  <2>1. Arrived <= Arrived
    BY <1>11
  <2> QED BY <1>1, <1>2, <1>6, <1>8, <1>9, <1>10, <1>11, <1>12, <2>1, PushStream
<1>14. /\ mbuf' \in Pool /\ events' \in Seq(Event) /\ events_dropped' \in BOOLEAN
       /\ \A k \in 1 .. Mbufs : mbuf'[k].refs = 0 + Count(OwnedBy(events'), k)
  BY <1>13 DEF Settled
<1>15. TypeInv'
  <2>1. <<>> \in Seq(Seg) /\ <<>> \in Seq(Event)
    BY EmptySeq
  <2> QED BY <1>1, <1>3, <1>14, <2>1 DEF TypeInv
<1>16. LentInv' /\ PlaceInv' /\ NoRenege'
  BY <1>1, <1>3 DEF LentInv, PlaceInv, NoRenege
<1>17. QueueInv'
  BY <1>1, NoneHeld DEF QueueInv
<1>18. RefsInv'
  <2>1. \A k : Count(OwnedBy(events'), k) \in Nat
    <3>1. OwnedBy(events') \in Seq(Desc)
      BY <1>14, OwnedType
    <3> QED BY <3>1, CountType
  <2>2. \A k : Count(OwnedBy(scratch'), k) = 0 /\ Count(reorder', k) = 0
    BY <1>1, <1>3, OwnedEmpty, CountEmpty
  <2> QED BY <1>14, <2>1, <2>2 DEF RefsInv
<1>19. ViewStable'
  <2>1. ViewOf(mbuf', <<>>, got)
    BY <1>3, <1>14, ViewNone
  <2> QED BY <1>1, <1>3, <2>1, Zenon DEF ViewStable, ViewOf
<1>20. StreamInv'
  BY <1>1, <1>2, <1>11, <1>13 DEF StreamInv
<1> QED BY <1>15, <1>16, <1>17, <1>18, <1>19, <1>20 DEF Inv

LEMMA PollBeginsInv ==
    ASSUME Inv, PollBegins
    PROVE  Inv'
<1> DEFINE ds == OwnedBy(scratch)
           kept == [k \in 1 .. Mbufs |-> Count(reorder, k) + Count(Owned, k)]
<1>1. /\ polling' = TRUE /\ scratch' = <<>> /\ mbuf' = Release(mbuf, ds)
      /\ state' = state /\ rcv_nxt' = rcv_nxt /\ reorder' = reorder /\ total_bytes' = total_bytes
      /\ events' = events /\ events_dropped' = events_dropped /\ sacked' = sacked /\ got' = got
  BY DEF PollBegins, conn
<1>2. /\ TypeInv /\ QueueInv /\ PlaceInv /\ RefsInv /\ NoRenege /\ StreamInv
  BY DEF Inv
<1>3. /\ reorder \in Seq(Seg) /\ mbuf \in Pool /\ events \in Seq(Event) /\ scratch \in Seq(Event)
      /\ got \in Seq(Int)
  BY <1>2 DEF TypeInv
<1>4. Owned \in Seq(Desc) /\ ds \in Seq(Desc)
  BY <1>3, OwnedType DEF Owned
<1>5. \A k : Count(reorder, k) \in Nat /\ Count(Owned, k) \in Nat /\ Count(ds, k) \in Nat
  BY <1>3, <1>4, CountType
<1>6. kept \in [1 .. Mbufs -> Nat]
  BY <1>5
<1>7. Owes(mbuf, kept, ds)
  BY <1>2 DEF Owes, RefsInv, Owned
<1>8. mbuf' \in Pool /\ Leaves(mbuf', mbuf, kept)
  <2> HIDE DEF kept, ds
  <2> QED BY <1>1, <1>3, <1>4, <1>6, <1>7, ReleaseExact
<1> HIDE DEF ds
<1>9. \A k \in 1 .. Mbufs :
         /\ mbuf'[k].refs = Count(reorder, k) + Count(Owned, k)
         /\ (Count(reorder, k) > 0 \/ Count(Owned, k) > 0 => mbuf'[k].base = mbuf[k].base)
  BY <1>5, <1>8 DEF Leaves
<1> HIDE DEF kept
<1>10. TypeInv'
  <2>1. <<>> \in Seq(Event)
    BY EmptySeq
  <2> QED BY <1>1, <1>2, <1>8, <2>1 DEF TypeInv
<1>11. LentInv' /\ PlaceInv' /\ NoRenege'
  BY <1>1, <1>2 DEF LentInv, PlaceInv, NoRenege
<1>12. QueueInv'
  <2>1. SUFFICES ASSUME Trusted PROVE QueueOf(reorder, total_bytes, rcv_nxt, mbuf')
    BY <1>1 DEF QueueInv, Trusted
  <2>2. QueueOf(reorder, total_bytes, rcv_nxt, mbuf)
    BY <1>2, <2>1 DEF QueueInv
  <2>3. \A k \in 1 .. Mbufs : Count(reorder, k) > 0 => mbuf'[k].base = mbuf[k].base
    BY <1>9
  <2> QED BY <1>3, <2>2, <2>3, QueueSame
<1>13. RefsInv'
  <2>1. \A k : Count(OwnedBy(scratch'), k) = 0
    BY <1>1, OwnedEmpty, CountEmpty
  <2>2. OwnedBy(events') = Owned
    BY <1>1 DEF Owned
  <2> QED BY <1>1, <1>5, <1>9, <2>1, <2>2 DEF RefsInv
<1>14. ViewStable'
  <2>1. ViewOf(mbuf', <<>>, got)
    BY <1>3, <1>8, ViewNone
  <2> QED BY <1>1, <2>1, Zenon DEF ViewStable, ViewOf
<1>15. StreamInv'
  <2>1. ASSUME NEW i \in 1 .. Len(Owned) PROVE mbuf'[Owned[i].mbuf].base = mbuf[Owned[i].mbuf].base
    <3>1. Owned[i].mbuf \in 1 .. Mbufs /\ Count(Owned, Owned[i].mbuf) > 0
      BY <1>4, DescMbuf, CountShown
    <3> QED BY <1>9, <3>1
  <2>2. Contents(mbuf', Owned) = Contents(mbuf, Owned)
    BY <1>3, <1>4, <1>8, <2>1, ContentsSame
  <2>3. /\ Contents(mbuf', OwnedBy(events')) = Contents(mbuf, OwnedBy(events)) /\ Arrived' = Arrived
    BY <1>1, <2>2, Zenon DEF Owned, Arrived
  <2> QED BY <1>1, <1>2, <2>3, Zenon DEF StreamInv, StreamOf
<1> QED BY <1>10, <1>11, <1>12, <1>13, <1>14, <1>15 DEF Inv

LEMMA DrainEventsInv ==
    ASSUME Inv, NEW max \in Nat, DrainEvents(max)
    PROVE  Inv'
<1> DEFINE n == Lesser(max, Len(events))
           out == SubSeq(events, 1, n)
           rest == SubSeq(events, n + 1, Len(events))
<1>1. /\ polling /\ polling' = FALSE /\ scratch' = scratch \o out /\ events' = rest
      /\ got' = got \o Contents(mbuf, OwnedBy(out)) /\ mbuf' = mbuf
      /\ state' = state /\ rcv_nxt' = rcv_nxt /\ reorder' = reorder /\ total_bytes' = total_bytes
      /\ events_dropped' = events_dropped /\ sacked' = sacked
  BY DEF DrainEvents, conn
<1>2. /\ TypeInv /\ LentInv /\ QueueInv /\ PlaceInv /\ RefsInv /\ NoRenege /\ StreamInv
  BY DEF Inv
<1>3. /\ reorder \in Seq(Seg) /\ mbuf \in Pool /\ events \in Seq(Event) /\ scratch = <<>>
      /\ got \in Seq(Int)
  BY <1>1, <1>2 DEF TypeInv, LentInv
<1>4. out \in Seq(Event) /\ rest \in Seq(Event) /\ events = out \o rest
  <2>1. Len(events) \in Nat
    BY <1>3, LenProperties
  <2>2. n \in 0 .. Len(events)
    BY <2>1 DEF Lesser
  <2> HIDE DEF n
  <2> QED BY <1>3, <2>2, Split
<1> HIDE DEF out, rest
<1>5. scratch' = out
  BY <1>1, <1>3, <1>4, ConcatEmptySeq
<1> DEFINE a == OwnedBy(out)
           b == OwnedBy(rest)
<1>6. a \in Seq(Desc) /\ b \in Seq(Desc) /\ OwnedBy(events) = a \o b
  BY <1>4, OwnedConcat
<1>7. got' \in Seq(Int) /\ ViewOf(mbuf, out, got')
  BY <1>1, <1>3, <1>4, ViewLast
<1> HIDE DEF a, b
<1>8. TypeInv'
  BY <1>1, <1>2, <1>4, <1>5, <1>7 DEF TypeInv
<1>9. LentInv' /\ PlaceInv' /\ NoRenege'
  BY <1>1, <1>2 DEF LentInv, PlaceInv, NoRenege
<1>10. QueueInv'
  BY <1>1, <1>2, Zenon DEF QueueInv, Trusted
<1>11. RefsInv'
  <2>1. ASSUME NEW k \in 1 .. Mbufs
        PROVE  mbuf[k].refs = Count(reorder, k) + Count(b, k) + Count(a, k)
    <3>1. mbuf[k].refs = Count(reorder, k) + Count(a \o b, k) + Count(OwnedBy(<<>>), k)
      BY <1>2, <1>3, <1>6 DEF RefsInv
    <3>2. Count(a \o b, k) = Count(a, k) + Count(b, k)
      BY <1>6, CountConcat
    <3>3. Count(OwnedBy(<<>>), k) = 0
      BY OwnedEmpty, CountEmpty
    <3>4. Count(a, k) \in Nat /\ Count(b, k) \in Nat /\ Count(reorder, k) \in Nat
      BY <1>3, <1>6, CountType
    <3> QED BY <3>1, <3>2, <3>3, <3>4
  <2> QED BY <1>1, <1>5, <2>1, Zenon DEF RefsInv, a, b
<1>12. ViewStable'
  BY <1>1, <1>5, <1>7, Zenon DEF ViewStable, ViewOf
<1>13. StreamInv'
  <2> DEFINE x == Contents(mbuf, a)
             y == Contents(mbuf, b)
  <2>1. x \in Seq(Int) /\ y \in Seq(Int)
    BY <1>3, <1>6, ContentsType
  <2>2. Contents(mbuf, OwnedBy(events)) = x \o y
    BY <1>3, <1>6, ContentsConcat
  <2> HIDE DEF x, y
  <2>3. (got \o x) \o y = got \o (x \o y)
    BY <1>3, <2>1, IntsAssociative
  <2>4. got' = got \o x /\ Contents(mbuf', OwnedBy(events')) = y
    BY <1>1, Zenon DEF x, y, a, b
  <2>5. got' \o Contents(mbuf', OwnedBy(events')) = got \o Contents(mbuf, OwnedBy(events))
    BY <2>2, <2>3, <2>4, Zenon
  <2>6. Arrived' = Arrived
    BY <1>1 DEF Arrived
  <2> QED BY <1>1, <1>2, <2>5, <2>6, Zenon DEF StreamInv, StreamOf
<1> QED BY <1>8, <1>9, <1>10, <1>11, <1>12, <1>13 DEF Inv

LEMMA InitInv ==
    ASSUME Init
    PROVE  Inv
<1>1. /\ state = "Established" /\ rcv_nxt = 0 /\ reorder = <<>> /\ total_bytes = 0
      /\ mbuf = [m \in 1 .. Mbufs |-> NoMbuf] /\ events = <<>> /\ events_dropped = FALSE
      /\ scratch = <<>> /\ polling = FALSE /\ sacked = {} /\ got = <<>>
  BY DEF Init
<1>2. StreamLen \in Nat
  BY Params
<1>3. mbuf \in Pool
  BY <1>1 DEF Pool, NoMbuf, None
<1>4. TypeInv
  BY <1>1, <1>3, EmptySeq DEF TypeInv
<1>5. LentInv /\ PlaceInv /\ NoRenege
  BY <1>1, <1>2 DEF LentInv, PlaceInv, NoRenege
<1>6. QueueInv
  BY <1>1, NoneHeld DEF QueueInv
<1>7. RefsInv
  <2>1. \A k : Count(<<>>, k) = 0 /\ Count(OwnedBy(<<>>), k) = 0
    BY OwnedEmpty, CountEmpty
  <2> QED BY <1>1, <2>1 DEF RefsInv, NoMbuf
<1>8. ViewStable
  <2>1. <<>> \in Seq(Int)
    BY EmptySeq
  <2>2. ViewOf(mbuf, <<>>, <<>>)
    BY <1>3, <2>1, ViewNone
  <2> QED BY <1>1, <2>2, Zenon DEF ViewStable, ViewOf
<1>9. StreamInv
  <2>1. Arrived = 0
    BY <1>1, <1>2 DEF Arrived
  <2>2. Contents(mbuf, OwnedBy(<<>>)) = <<>>
    BY <1>3, OwnedEmpty, ContentsEmpty
  <2>3. Bytes(0, 0) = <<>>
    BY BytesNone
  <2>4. <<>> \o <<>> = <<>> /\ Len(<<>>) = 0
    BY EmptySeq, ConcatEmptySeq
  <2>5. Ascends(<<>>, 0)
    BY <2>4 DEF Ascends
  <2>6. StreamOf(<<>>, mbuf, <<>>, 0, FALSE)
    BY <2>2, <2>3, <2>4, <2>5, Zenon DEF StreamOf
  <2> QED BY <1>1, <2>1, <2>6 DEF StreamInv
<1> QED BY <1>4, <1>5, <1>6, <1>7, <1>8, <1>9 DEF Inv

LEMMA NextInv ==
    ASSUME Inv, [Next]_vars
    PROVE  Inv'
<1>1. ASSUME NEW seq \in 0 .. StreamLen, NEW len \in 0 .. MaxLen, NEW fin \in BOOLEAN,
             NEW chained \in {FALSE, Chains}, NEW sent \in BOOLEAN,
             RxSegment(seq, len, fin, chained, sent)
      PROVE  Inv'
  BY <1>1, RxSegmentInv
<1>2. CASE RecvRst
  BY <1>2, RecvRstInv
<1>3. CASE PollBegins
  BY <1>3, PollBeginsInv
<1>4. ASSUME NEW max \in 0 .. MaxEvents, DrainEvents(max) PROVE Inv'
  <2>1. max \in Nat
    BY Params
  <2> QED BY <1>4, <2>1, DrainEventsInv
<1>5. CASE UNCHANGED vars
  <2>1. UNCHANGED core /\ sacked' = sacked
    BY <1>5 DEF vars, conn, core
  <2>2. Acked
    BY <2>1 DEF Acked, Inv, TypeInv
  <2> QED BY <2>1, <2>2, CoreSame
<1> QED BY <1>1, <1>2, <1>3, <1>4, <1>5 DEF Next

-----------------------------------------------------------------------------
\* What the invariant says of the properties.

LEMMA SeqWider ==
    ASSUME NEW A, NEW B, A \subseteq B, NEW s \in Seq(A)
    PROVE  s \in Seq(B)
<1>1. Len(s) \in Nat /\ s \in [1 .. Len(s) -> A]
  BY LenProperties
<1>2. s \in [1 .. Len(s) -> B]
  BY <1>1
<1> QED BY <1>1, <1>2, SeqFun

LEMMA InvRefs ==
    ASSUME Inv
    PROVE  RefsExact
<1> DEFINE D == Seg \cup Desc
           a == OwnedBy(events)
           b == OwnedBy(scratch)
           all == reorder \o a \o b
<1>1. /\ reorder \in Seq(Seg) /\ events \in Seq(Event) /\ scratch \in Seq(Event) /\ mbuf \in Pool
      /\ RefsInv
  BY DEF Inv, TypeInv
<1>2. DOMAIN mbuf = 1 .. Mbufs
  BY <1>1 DEF Pool
<1>3. a \in Seq(Desc) /\ b \in Seq(Desc)
  BY <1>1, OwnedType
<1>4. reorder \in Seq(D) /\ a \in Seq(D) /\ b \in Seq(D)
  <2>1. Seg \subseteq D /\ Desc \subseteq D
    OBVIOUS
  <2> HIDE DEF D
  <2> QED BY <1>1, <1>3, <2>1, SeqWider
<1> HIDE DEF D, a, b
<1>5. reorder \o a \in Seq(D)
  BY <1>4, ConcatProperties
<1>6. ASSUME NEW k \in 1 .. Mbufs PROVE mbuf[k].refs = Count(all, k)
  <2>1. mbuf[k].refs = Count(reorder, k) + Count(a, k) + Count(b, k)
    BY <1>1 DEF RefsInv, a, b
  <2>2. Count(reorder \o a, k) = Count(reorder, k) + Count(a, k)
    BY <1>4, CountConcat
  <2>3. Count((reorder \o a) \o b, k) = Count(reorder \o a, k) + Count(b, k)
    BY <1>4, <1>5, CountConcat
  <2> QED BY <2>1, <2>2, <2>3
<1> QED BY <1>2, <1>6, Zenon DEF RefsExact, Count, a, b

LEMMA InvShape ==
    ASSUME Inv, Trusted
    PROVE  ReorderShape
<1>1. /\ reorder \in Seq(Seg) /\ rcv_nxt \in Nat /\ QueueOf(reorder, total_bytes, rcv_nxt, mbuf)
  BY DEF Inv, TypeInv, QueueInv
<1>2. /\ Len(reorder) \in Nat /\ DOMAIN reorder = 1 .. Len(reorder)
      /\ \A i \in 1 .. Len(reorder) : reorder[i] \in Seg
  BY <1>1, LenProperties, ElementOfSeq
<1>3. RecvBuf \in Nat /\ RcvWnd \in Nat \ {0} /\ RcvWnd <= RecvBuf /\ StreamLen \in Nat
  BY Params
<1>4. ASSUME NEW i \in 1 .. Len(reorder)
      PROVE  /\ reorder[i].seq > rcv_nxt
             /\ i > 1 => EndSeq(reorder[i - 1]) <= reorder[i].seq
             /\ mbuf[reorder[i].mbuf].base + reorder[i].offset = reorder[i].seq
  <2>1. reorder[i].seq > rcv_nxt /\ mbuf[reorder[i].mbuf].base + reorder[i].offset = reorder[i].seq
    BY <1>1 DEF QueueOf
  <2>2. ASSUME i > 1 PROVE EndSeq(reorder[i - 1]) <= reorder[i].seq
    <3>1. i - 1 \in 1 .. Len(reorder) /\ i - 1 < i
      BY <1>2, <2>2
    <3> QED BY <1>1, <3>1 DEF QueueOf, Sorted, Sep
  <2> QED BY <2>1, <2>2
<1>5. total_bytes = Cardinality(Held(reorder))
  BY <1>1 DEF QueueOf
<1>6. Cardinality(Held(reorder)) <= RecvBuf
  <2> DEFINE lo == rcv_nxt + 1
             hi == rcv_nxt + RcvWnd - 1
  <2>1. lo \in Int /\ hi \in Int
    BY <1>1, <1>3
  <2>2. IsFiniteSet(lo .. hi) /\ Cardinality(lo .. hi) = IF lo > hi THEN 0 ELSE hi - lo + 1
    <3> HIDE DEF lo, hi
    <3> QED BY <2>1, FS_Interval
  <2>3. Cardinality(lo .. hi) <= RecvBuf
    BY <1>1, <1>3, <2>2
  <2>4. ASSUME NEW b \in Held(reorder) PROVE b \in lo .. hi
    <3>1. b \in Int /\ Holds(reorder, b)
      BY <2>4 DEF Held
    <3>2. PICK i \in 1 .. Len(reorder) : In(reorder[i], b)
      BY <1>1, <3>1, HoldsIn
    <3>3. reorder[i].seq > rcv_nxt /\ EndSeq(reorder[i]) <= rcv_nxt + RcvWnd
      BY <1>1 DEF QueueOf
    <3>4. reorder[i].seq \in Nat /\ EndSeq(reorder[i]) \in Nat
      BY <1>2, SegFacts
    <3> QED BY <1>1, <1>3, <3>1, <3>2, <3>3, <3>4 DEF In
  <2>5. Held(reorder) \subseteq lo .. hi
    BY <2>4
  <2> DEFINE S == lo .. hi
             T == Held(reorder)
  <2>6. IsFiniteSet(S) /\ T \in SUBSET S /\ Cardinality(S) <= RecvBuf
    BY <2>2, <2>3, <2>5
  <2>7. IsFiniteSet(T) /\ Cardinality(T) <= Cardinality(S) /\ Cardinality(S) \in Nat
    <3> HIDE DEF S, T
    <3> QED BY <2>6, FS_Subset, FS_CardinalityType
  <2>8. Cardinality(T) \in Nat
    <3> HIDE DEF S, T
    <3> QED BY <2>7, FS_CardinalityType
  <2> HIDE DEF S, T
  <2>9. Cardinality(T) <= RecvBuf
    BY <1>3, <2>6, <2>7, <2>8
  <2> QED BY <2>9 DEF T
<1> QED BY <1>2, <1>4, <1>5, <1>6 DEF ReorderShape, Held

-----------------------------------------------------------------------------
\* The theorems.

\* The inductive invariant holds whatever the peer sends, in whatever order,
\* how often and cut how it likes, and whenever the user polls.
THEOREM Invariance == Spec => []Inv
<1>1. Init => Inv
  BY InitInv
<1>2. Inv /\ [Next]_vars => Inv'
  BY NextInv
<1> QED BY <1>1, <1>2, PTL DEF Spec

\* Every mbuf always has exactly one reference per descriptor that shows it, in
\* the reorder queue, in a queued event or in the user's hands, whatever
\* insert, drain, the event queue's overflow, a RST and the next poll do in
\* between: no mbuf is freed while it is shown and none leaks.
THEOREM ReferencesAreExact == Spec => []RefsExact
<1>1. Inv => RefsExact
  BY InvRefs
<1> QED BY <1>1, Invariance, PTL

\* The reorder queue is sorted, free of overlaps, beyond rcv_nxt and within
\* its cap, each of its segments shows the bytes it stands for and total_bytes
\* counts them, as long as no FIN was accepted over payload dropped for lying
\* in a chain of mbufs.
THEOREM ReorderQueueIsSound == Spec => [](Trusted => ReorderShape)
<1>1. Inv => (Trusted => ReorderShape)
  BY InvShape
<1> QED BY <1>1, Invariance, PTL

\* The same without the condition, when frames are never scattered.
THEOREM ReorderQueueIsSoundUnchained ==
    ASSUME ~Chains
    PROVE  Spec => []ReorderShape
<1>1. Inv => ReorderShape
  BY InvShape DEF Trusted
<1> QED BY <1>1, Invariance, PTL

\* The views that dpdk_net_poll lent to the user show the bytes that were
\* handed over until the next poll.
THEOREM ViewsAreStable == Spec => []ViewStable
<1>1. Inv => ViewStable
  BY DEF Inv
<1> QED BY <1>1, Invariance, PTL

\* A byte once reported in a SACK block is in the queue or delivered as long as
\* the connection is established: drain and insert never renege.
THEOREM NothingIsReneged == Spec => []NoRenege
<1>1. Inv => NoRenege
  BY DEF Inv
<1> QED BY <1>1, Invariance, PTL

-----------------------------------------------------------------------------
\* The refinement of ByteStream.

Ended == state = "CloseWait" \/ (state = "Closed" /\ rcv_nxt > StreamLen)

\* The abstract steps, under the mapping.
ArriveStep ==
    /\ Arrived' \in Arrived .. StreamLen
    /\ Ended' \in {Ended, Arrived' = StreamLen}
    /\ Ended => Ended' /\ Arrived' = Arrived
    /\ events_dropped' \in {events_dropped, TRUE}
    /\ got' = got

DeliverStep ==
    /\ IsPrefix(got, got')
    /\ \A i \in DOMAIN got' :
          /\ got'[i] < Arrived
          /\ i > 1 => got'[i - 1] < got'[i]
          /\ ~events_dropped => got'[i] = i - 1
    /\ Arrived' = Arrived /\ Ended' = Ended /\ events_dropped' = events_dropped

Unmoved == Arrived' = Arrived /\ got' = got /\ Ended' = Ended /\ events_dropped' = events_dropped

Step == ArriveStep \/ DeliverStep \/ Unmoved

LEMMA StreamStep ==
    ASSUME Step
    PROVE  [Stream!Next]_(<<IF rcv_nxt > StreamLen THEN StreamLen ELSE rcv_nxt, got,
                            state = "CloseWait" \/ (state = "Closed" /\ rcv_nxt > StreamLen),
                            events_dropped>>)
<1>1. CASE ArriveStep
  BY <1>1 DEF ArriveStep, Arrived, Ended, Stream!Next, Stream!Arrive
<1>2. CASE DeliverStep
  BY <1>2 DEF DeliverStep, Arrived, Ended, Stream!Next, Stream!Deliver, IsPrefix, Stream!IsPrefix
<1>3. CASE Unmoved
  BY <1>3 DEF Unmoved, Arrived, Ended
<1> QED BY <1>1, <1>2, <1>3 DEF Step

\* A push loses events or does not.
LEMMA PushLoses ==
    ASSUME TypeInv, NEW new, NEW pool, Push(new, pool)
    PROVE  events_dropped' \in {events_dropped, TRUE}
<1>1. events_dropped \in BOOLEAN
  BY DEF TypeInv
<1>2. events_dropped' = (events_dropped \/ Pushed(events, new).cut # <<>>)
  BY DEF Push
<1> QED BY <1>1, <1>2

\* The payload of a segment, and its FIN, arrive.
LEMMA AcceptArrives ==
    ASSUME NEW m, Fresh(m), ~Chains, NEW r, NEW closes \in BOOLEAN, Arrives(r, closes), got' = got
    PROVE  ArriveStep
<1>1. /\ Outcome(r) /\ (closes => r.nxt = StreamLen)
      /\ rcv_nxt' = (IF closes THEN r.nxt + 1 ELSE r.nxt)
      /\ state' = (IF closes THEN "CloseWait" ELSE state)
  BY DEF Arrives
<1>2. PICK new \in Seq(Event) : Push(new, r.pool)
  BY DEF Arrives
<1>3. TypeInv /\ state = "Established"
  BY DEF Fresh, Inv
<1>4. rcv_nxt \in Nat /\ rcv_nxt <= StreamLen /\ StreamLen \in Nat
  BY FreshFacts, Params
<1>5. r.nxt \in Nat /\ rcv_nxt <= r.nxt /\ r.nxt <= StreamLen
  BY <1>1 DEF Outcome, OutTypes
<1>6. Arrived = rcv_nxt /\ Arrived' = r.nxt
  BY <1>1, <1>4, <1>5 DEF Arrived
<1>7. Ended = FALSE /\ Ended' = closes
  BY <1>1, <1>3 DEF Ended
<1>8. Ended' \in {Ended, Arrived' = StreamLen}
  BY <1>1, <1>6, <1>7
<1>9. events_dropped' \in {events_dropped, TRUE}
  BY <1>2, <1>3, PushLoses
<1>10. Arrived' \in Arrived .. StreamLen
  BY <1>4, <1>5, <1>6
<1>11. ~Ended
  BY <1>7
<1> QED BY <1>8, <1>9, <1>10, <1>11, Zenon DEF ArriveStep

\* A RST ends nothing that the FIN has not ended.
LEMMA RecvRstArrives ==
    ASSUME Inv, ~Chains, RecvRst
    PROVE  ArriveStep
<1>1. /\ state # "Closed" /\ state' = "Closed" /\ rcv_nxt' = rcv_nxt /\ got' = got
      /\ \E new, pool : Push(new, pool)
  BY DEF RecvRst
<1>2. TypeInv /\ PlaceInv
  BY DEF Inv
<1>3. rcv_nxt \in Nat /\ StreamLen \in Nat /\ state \in {"Established", "CloseWait", "Closed"}
  BY <1>2, Params DEF TypeInv
<1>4. Arrived' = Arrived /\ Arrived \in Arrived .. StreamLen
  BY <1>1, <1>3 DEF Arrived
<1>5. Ended' = Ended
  <2>1. CASE state = "Established"
    <3>1. rcv_nxt <= StreamLen
      BY <1>2, <2>1 DEF PlaceInv
    <3> QED BY <1>1, <1>3, <2>1, <3>1 DEF Ended
  <2>2. CASE state = "CloseWait"
    <3>1. rcv_nxt = StreamLen + 1
      BY <1>2, <2>2 DEF PlaceInv
    <3> QED BY <1>1, <1>3, <2>2, <3>1 DEF Ended
  <2> QED BY <1>1, <1>3, <2>1, <2>2
<1>6. events_dropped' \in {events_dropped, TRUE}
  BY <1>1, <1>2, PushLoses
<1> QED BY <1>1, <1>4, <1>5, <1>6 DEF ArriveStep

\* A prefix of an ascending sequence.
LEMMA AscendsPrefix ==
    ASSUME NEW g \in Seq(Int), NEW y \in Seq(Int), NEW lim \in Nat, Ascends(g \o y, lim)
    PROVE  /\ \A i \in 1 .. Len(g) : g[i] < lim /\ (i > 1 => g[i - 1] < g[i])
           /\ g \o y = Bytes(0, lim) => \A i \in 1 .. Len(g) : g[i] = i - 1
<1> DEFINE n == Len(g)
           k == Len(y)
           s == g \o y
<1>1. n \in Nat /\ k \in Nat
  BY LenProperties
<1>2. /\ Len(s) = n + k
      /\ \A i \in 1 .. n + k : s[i] = IF i <= n THEN g[i] ELSE y[i - n]
  BY ConcatProperties
<1> HIDE DEF s
<1>3. ASSUME NEW i \in 1 .. n PROVE i \in 1 .. Len(s) /\ s[i] = g[i]
  <2>1. i \in 1 .. n + k /\ i <= n
    BY <1>1
  <2> HIDE DEF n, k
  <2> QED BY <1>2, <2>1
<1>4. Ascends(s, lim)
  BY DEF s
<1> HIDE DEF n
<1>5. ASSUME NEW i \in 1 .. n PROVE g[i] < lim /\ (i > 1 => g[i - 1] < g[i])
  <2>1. g[i] < lim
    BY <1>3, <1>4 DEF Ascends
  <2>2. ASSUME i > 1 PROVE g[i - 1] < g[i]
    <3> DEFINE j == i - 1
    <3>1. j \in 1 .. n /\ j < i
      BY <1>1, <2>2
    <3> HIDE DEF j
    <3>2. s[j] < s[i]
      BY <1>3, <1>4, <3>1 DEF Ascends
    <3>3. g[j] < g[i]
      BY <1>3, <3>1, <3>2
    <3> QED BY <3>3 DEF j
  <2> QED BY <2>1, <2>2
<1>6. ASSUME s = Bytes(0, lim), NEW i \in 1 .. n PROVE g[i] = i - 1
  <2>1. 0 \in Nat /\ 0 <= lim
    OBVIOUS
  <2>2. Len(Bytes(0, lim)) = lim - 0 /\ \A j \in 1 .. lim - 0 : Bytes(0, lim)[j] = 0 + j - 1
    BY <2>1, BytesType
  <2>3. i \in 1 .. Len(s) /\ s[i] = g[i] /\ Len(s) = lim
    BY <1>3, <1>6, <2>2
  <2>4. i \in 1 .. lim - 0
    BY <2>3
  <2>5. s[i] = 0 + i - 1
    BY <1>6, <2>2, <2>4
  <2> QED BY <2>3, <2>5
<1> QED BY <1>5, <1>6 DEF s, n

LEMMA PrefixConcat ==
    ASSUME NEW g \in Seq(Int), NEW x \in Seq(Int)
    PROVE  IsPrefix(g, g \o x)
<1> DEFINE n == Len(g)
           h == g \o x
<1>1. n \in Nat /\ Len(x) \in Nat
  BY LenProperties
<1>2. /\ h \in Seq(Int) /\ Len(h) = n + Len(x)
      /\ \A i \in 1 .. n + Len(x) : h[i] = IF i <= n THEN g[i] ELSE x[i - n]
  BY ConcatProperties
<1> HIDE DEF h
<1> DEFINE w == SubSeq(h, 1, n)
<1>3. n \in 0 .. Len(h)
  BY <1>1, <1>2
<1>4. w \in Seq(Int) /\ Len(w) = n
  BY <1>2, <1>3, Split
<1>5. ASSUME NEW i \in 1 .. n PROVE w[i] = g[i]
  <2>1. \A j \in 1 .. n : h[j] \in Int
    BY <1>1, <1>2, ElementOfSeq
  <2>2. 1 \in Int /\ n \in Int
    BY <1>1
  <2>3. \A j \in 1 .. n - 1 + 1 : w[j] = h[1 + j - 1]
    <3> HIDE DEF n
    <3> QED BY <2>1, <2>2, SubSeqProperties
  <2>4. i \in 1 .. n - 1 + 1 /\ 1 + i - 1 = i /\ i \in 1 .. n + Len(x) /\ i <= n
    BY <1>1
  <2> HIDE DEF n, w
  <2>5. w[i] = h[i]
    BY <2>3, <2>4
  <2>6. h[i] = g[i]
    BY <1>2, <2>4
  <2> QED BY <2>5, <2>6
<1>6. w = g
  <2>1. Len(g) = n
    OBVIOUS
  <2> HIDE DEF n, w
  <2> QED BY <1>4, <1>5, <2>1, SeqEqual
<1>7. SubSeq(g, 1, Len(g)) = g
  BY SubSeqFull
<1>8. Len(g) <= Len(h)
  BY <1>1, <1>2
<1> QED BY <1>6, <1>7, <1>8, Zenon DEF IsPrefix, w, n, h

\* The user gets the next bytes.
LEMMA DrainEventsDelivers ==
    ASSUME Inv, ~Chains, NEW max \in Nat, DrainEvents(max)
    PROVE  DeliverStep
<1> DEFINE out == SubSeq(events, 1, Lesser(max, Len(events)))
           x == Contents(mbuf, OwnedBy(out))
           y == Contents(mbuf', OwnedBy(events'))
<1>1. /\ got' = got \o x /\ state' = state /\ rcv_nxt' = rcv_nxt /\ events_dropped' = events_dropped
  BY DEF DrainEvents, conn
<1>2. Inv'
  BY DrainEventsInv
<1>3. /\ TypeInv /\ mbuf' \in Pool /\ events' \in Seq(Event) /\ got' \in Seq(Int) /\ StreamInv'
  BY <1>2 DEF Inv, TypeInv
<1>4. got \in Seq(Int) /\ events \in Seq(Event) /\ mbuf \in Pool /\ rcv_nxt \in Nat
      /\ events_dropped \in BOOLEAN
  BY <1>3 DEF TypeInv
<1>5. x \in Seq(Int) /\ y \in Seq(Int)
  <2>1. Len(events) \in Nat
    BY <1>4, LenProperties
  <2>2. Lesser(max, Len(events)) \in 0 .. Len(events)
    BY <2>1 DEF Lesser
  <2>3. out \in Seq(Event)
    BY <1>4, <2>2, Split
  <2>4. OwnedBy(out) \in Seq(Desc) /\ OwnedBy(events') \in Seq(Desc)
    BY <1>3, <2>3, OwnedType
  <2> QED BY <1>3, <1>4, <2>4, ContentsType
<1>6. Arrived' = Arrived /\ Ended' = Ended /\ Arrived \in Nat
  BY <1>1, <1>4, Params DEF Arrived, Ended
<1>7. Ascends(got' \o y, Arrived) /\ (~events_dropped => got' \o y = Bytes(0, Arrived))
  <2>1. StreamOf(got', mbuf', events', Arrived', events_dropped')
    BY <1>3 DEF StreamInv
  <2>2. StreamOf(got', mbuf', events', Arrived, events_dropped)
    BY <1>1, <1>6, <2>1
  <2> QED BY <2>2, Zenon DEF StreamOf
<1> HIDE DEF x, y
<1>8. IsPrefix(got, got')
  BY <1>1, <1>4, <1>5, PrefixConcat
<1>9. DOMAIN got' = 1 .. Len(got')
  BY <1>3, LenProperties
<1>10. /\ \A i \in 1 .. Len(got') : got'[i] < Arrived /\ (i > 1 => got'[i - 1] < got'[i])
       /\ got' \o y = Bytes(0, Arrived) => \A i \in 1 .. Len(got') : got'[i] = i - 1
  BY <1>3, <1>5, <1>6, <1>7, AscendsPrefix
<1> QED BY <1>1, <1>6, <1>7, <1>8, <1>9, <1>10 DEF DeliverStep

LEMMA NextStep ==
    ASSUME Inv, ~Chains, [Next]_vars
    PROVE  Step
<1>1. ASSUME NEW seq \in 0 .. StreamLen, NEW len \in 0 .. MaxLen, NEW fin \in BOOLEAN,
             NEW chained \in {FALSE, Chains}, NEW sent \in BOOLEAN,
             RxSegment(seq, len, fin, chained, sent)
      PROVE  Step
  <2>1. polling /\ state = "Established" /\ got' = got
    BY <1>1 DEF RxSegment
  <2>2. OfStream(seq, len, fin)
    BY <1>1, Params DEF RxSegment, OfStream
  <2>3. PICK m \in DOMAIN mbuf :
           /\ mbuf[m] = NoMbuf
           /\ IF InWindow(seq, IF fin THEN len + 1 ELSE len)
              THEN Accept(m, seq, len, fin, chained, sent)
              ELSE Reject(sent)
    BY <1>1 DEF RxSegment
  <2>4. DOMAIN mbuf = 1 .. Mbufs
    BY DEF Inv, TypeInv, Pool
  <2>5. Fresh(m)
    BY <2>1, <2>3, <2>4 DEF Fresh
  <2>6. CASE InWindow(seq, IF fin THEN len + 1 ELSE len)
    <3>1. Accept(m, seq, len, fin, chained, sent)
      BY <2>3, <2>6
    <3>2. PICK r : \E closes \in BOOLEAN : Arrives(r, closes)
      BY <2>2, <2>5, <2>6, <3>1, AcceptStep
    <3> QED BY <2>1, <2>5, <3>2, AcceptArrives DEF Step
  <2>7. CASE ~InWindow(seq, IF fin THEN len + 1 ELSE len)
    <3>1. Reject(sent)
      BY <2>3, <2>7
    <3> QED BY <2>1, <3>1 DEF Step, Unmoved, Reject, Arrived, Ended
  <2> QED BY <2>6, <2>7
<1>2. CASE RecvRst
  BY <1>2, RecvRstArrives DEF Step
<1>3. CASE PollBegins
  BY <1>3 DEF PollBegins, conn, Step, Unmoved, Arrived, Ended
<1>4. ASSUME NEW max \in 0 .. MaxEvents, DrainEvents(max) PROVE Step
  <2>1. max \in Nat
    BY Params
  <2> QED BY <1>4, <2>1, DrainEventsDelivers DEF Step
<1>5. CASE UNCHANGED vars
  BY <1>5 DEF vars, conn, Step, Unmoved, Arrived, Ended
<1> QED BY <1>1, <1>2, <1>3, <1>4, <1>5 DEF Next

\* The receive path implements the byte stream: what the user is handed are the
\* peer's bytes in order, each at most once and with none left out unless the
\* event queue reported a drop, and the end of the stream comes after the last
\* of them, for frames that are not scattered over a chain of mbufs.
THEOREM ByteStreamIsImplemented ==
    ASSUME ~Chains
    PROVE  Spec => Implements
<1>1. Init => Stream!Init
  <2> SUFFICES ASSUME Init PROVE Stream!Init
    OBVIOUS
  <2>1. StreamLen \in Nat
    BY Params
  <2> QED BY <2>1 DEF Init, Stream!Init
<1>2. Inv /\ [Next]_vars
        => [Stream!Next]_(<<IF rcv_nxt > StreamLen THEN StreamLen ELSE rcv_nxt, got,
                            state = "CloseWait" \/ (state = "Closed" /\ rcv_nxt > StreamLen),
                            events_dropped>>)
  <2> SUFFICES ASSUME Inv, [Next]_vars
               PROVE  [Stream!Next]_(<<IF rcv_nxt > StreamLen THEN StreamLen ELSE rcv_nxt, got,
                            state = "CloseWait" \/ (state = "Closed" /\ rcv_nxt > StreamLen),
                            events_dropped>>)
    OBVIOUS
  <2>1. Step
    BY NextStep
  <2> QED BY <2>1, StreamStep
<1> QED BY <1>1, <1>2, Invariance, PTL DEF Spec, Implements, Stream!Spec

=============================================================================
