-------------------------- MODULE LossStateProofs --------------------------
(***************************************************************************)
(* Proofs, for every clock, network, peer and place of the wrap, of what   *)
(* the run of LossState checks on a small instance: the RTT estimate stays *)
(* among its samples, no sample is longer than the connection, PAWS lets   *)
(* the newest segment through, and what the sender believes to be          *)
(* delivered the peer holds.  The ACKs are bytes, so the proofs begin with *)
(* what parse_options makes of an encoded option list.                     *)
(***************************************************************************)
EXTENDS LossState, FiniteSetTheorems, SequenceTheorems, TLAPS

-----------------------------------------------------------------------------
\* Induction and iteration.

Before == {r \in Nat \X Nat : r[1] < r[2]}

\* A set of naturals has a least element.
LEMMA Least ==
    ASSUME NEW T \in SUBSET Nat, T # {}
    PROVE  \E x \in T : \A y \in T : x <= y
<1>1. IsWellFoundedOn(Before, Nat)
  BY NatLessThanWellFounded, Zenon DEF OpToRel, Before
<1>2. ASSUME NEW x \in Nat, NEW y \in Nat, <<y, x>> \notin Before
      PROVE  x <= y
  BY <1>2 DEF Before
<1>3. PICK x \in T : \A y \in T : ~(<<y, x>> \in Before)
  BY <1>1, WFMin
<1>4. \A y \in T : x <= y
  BY <1>2, <1>3
<1> QED BY <1>4

\* Induction up to n, for the members of a set.
LEMMA UpTo ==
    ASSUME NEW n \in Nat, NEW G, 0 \in G, \A k \in 1 .. n : k - 1 \in G => k \in G
    PROVE  \A k \in 0 .. n : k \in G
<1> DEFINE B == {k \in 0 .. n : k \notin G}
<1>1. ASSUME B # {} PROVE FALSE
  <2>1. B \in SUBSET Nat
    OBVIOUS
  <2>2. PICK x \in B : \A y \in B : x <= y
    BY <1>1, <2>1, Least
  <2>3. x # 0 /\ x \in 1 .. n
    BY <2>2
  <2>4. x - 1 \in 0 .. n /\ ~(x <= x - 1)
    BY <2>3
  <2>5. x - 1 \in G
    BY <2>2, <2>4
  <2> QED BY <2>2, <2>3, <2>5
<1> QED BY <1>1

\* A function f that takes n steps from a, the k-th by F[k], within a set.
Steps(F, n, S) == F \in [1 .. n -> [S -> S]]

IsRun(f, F, n, S, a) ==
    f \in [0 .. n -> S] /\ f[0] = a /\ \A k \in 1 .. n : f[k] = F[k][f[k - 1]]

LEMMA Iterates ==
    ASSUME NEW n \in Nat, NEW S, NEW a \in S, NEW F, Steps(F, n, S)
    PROVE  \E f : IsRun(f, F, n, S, a)
<1>0. F \in [1 .. n -> [S -> S]]
  BY DEF Steps
<1> DEFINE Run(f, m) == f[0] = a /\ \A k \in 1 .. m : f[k] = F[k][f[k - 1]]
           G == {m \in 0 .. n : \E f \in [0 .. m -> S] : Run(f, m)}
<1>1. 0 \in G
  <2> DEFINE f == [k \in 0 .. 0 |-> a]
  <2>1. f \in [0 .. 0 -> S] /\ Run(f, 0)
    OBVIOUS
  <2>2. 0 \in 0 .. n
    OBVIOUS
  <2> HIDE DEF f, Run
  <2> QED BY <2>1, <2>2
<1>2. ASSUME NEW m \in 1 .. n, m - 1 \in G PROVE m \in G
  <2>1. PICK f \in [0 .. m - 1 -> S] : Run(f, m - 1)
    BY <1>2
  <2> DEFINE g == [k \in 0 .. m |-> IF k = m THEN F[m][f[m - 1]] ELSE f[k]]
  <2>2. f[m - 1] \in S /\ F[m] \in [S -> S] /\ F[m][f[m - 1]] \in S
    BY <1>0
  <2>3. \A k \in 0 .. m : k # m => k \in 0 .. m - 1
    OBVIOUS
  <2>4. g \in [0 .. m -> S]
    BY <2>2, <2>3
  <2>5. g[0] = a
    BY <2>1
  <2>6. ASSUME NEW k \in 1 .. m PROVE g[k] = F[k][g[k - 1]]
    <3>1. k - 1 \in 0 .. m - 1 /\ k - 1 # m /\ k - 1 \in 0 .. m /\ k \in 0 .. m
      OBVIOUS
    <3>2. g[k - 1] = f[k - 1]
      BY <3>1
    <3>3. CASE k = m
      BY <3>2, <3>3
    <3>4. CASE k # m
      <4>1. k \in 1 .. m - 1 /\ g[k] = f[k]
        BY <3>4
      <4>2. f[k] = F[k][f[k - 1]]
        BY <2>1, <4>1
      <4> QED BY <3>2, <4>1, <4>2
    <3> QED BY <3>3, <3>4
  <2>7. Run(g, m)
    BY <2>5, <2>6
  <2> HIDE DEF g, Run
  <2> QED BY <2>4, <2>7
<1> HIDE DEF G
<1>3. n \in G
  <2>1. \A k \in 0 .. n : k \in G
    BY <1>1, <1>2, UpTo
  <2> QED BY <2>1
<1> QED BY <1>3 DEF G, IsRun

\* A function that satisfies the equations of its steps stays in the set.
LEMMA RunOf ==
    ASSUME NEW n \in Nat, NEW S, NEW a \in S, NEW F, Steps(F, n, S),
           NEW g, g = [k \in 0 .. n |-> g[k]], g[0] = a,
           \A k \in 1 .. n : g[k - 1] \in S => g[k] = F[k][g[k - 1]]
    PROVE  IsRun(g, F, n, S, a)
<1> DEFINE G == {k \in 0 .. n : g[k] \in S}
<1>1. 0 \in G
  OBVIOUS
<1>2. ASSUME NEW k \in 1 .. n, k - 1 \in G PROVE k \in G
  <2>1. k \in 0 .. n /\ g[k - 1] \in S
    BY <1>2
  <2>2. g[k] = F[k][g[k - 1]]
    BY <2>1
  <2>3. F[k] \in [S -> S]
    BY DEF Steps
  <2> QED BY <2>1, <2>2, <2>3
<1> HIDE DEF G
<1>3. \A k \in 0 .. n : k \in G
  BY <1>1, <1>2, UpTo
<1>4. \A k \in 0 .. n : g[k] \in S
  BY <1>3 DEF G
<1>5. \A k \in 1 .. n : k - 1 \in 0 .. n
  OBVIOUS
<1> QED BY <1>4, <1>5 DEF IsRun

-----------------------------------------------------------------------------
\* Sequences.

\* A sequence is the function of its elements.
LEMMA SeqFun ==
    ASSUME NEW S, NEW n \in Nat, NEW f, f \in [1 .. n -> S]
    PROVE  f \in Seq(S) /\ Len(f) = n /\ DOMAIN f = 1 .. n
<1>1. \A i \in 1 .. n : f[i] \in S
  OBVIOUS
<1>2. f = [i \in 1 .. n |-> f[i]]
  OBVIOUS
<1>3. f \in Seq(S)
  <2>1. f \in UNION {[1 .. k -> S] : k \in Nat}
    OBVIOUS
  <2> QED BY <2>1, SeqDef
<1>4. DOMAIN f = 1 .. n /\ DOMAIN f = 1 .. Len(f) /\ Len(f) \in Nat
  BY <1>3, LenProperties
<1>5. Len(f) = n
  <2>1. ASSUME Len(f) < n PROVE FALSE
    <3>1. n \in 1 .. n /\ n \notin 1 .. Len(f)
      BY <1>4, <2>1
    <3> QED BY <1>4, <3>1
  <2>2. ASSUME n < Len(f) PROVE FALSE
    <3>1. Len(f) \in 1 .. Len(f) /\ Len(f) \notin 1 .. n
      BY <1>4, <2>2
    <3> QED BY <1>4, <3>1
  <2> QED BY <1>4, <2>1, <2>2
<1> QED BY <1>3, <1>4, <1>5

-----------------------------------------------------------------------------
\* The options as bytes.

\* The bytes t stand in the buffer behind the first `off` ones.
PartAt(buf, off, t) == \A i \in 1 .. Len(t) : buf[off + i] = t[i]

LEMMA JoinType ==
    ASSUME NEW s \in Seq(Int), NEW t \in Seq(Int)
    PROVE  s \o t \in Seq(Int) /\ Len(s \o t) = Len(s) + Len(t)
  BY ConcatProperties, ZenonT(60)

LEMMA JoinLen ==
    ASSUME NEW s \in Seq(Int), NEW t \in Seq(Int), NEW n \in Nat, Len(s) + Len(t) = n
    PROVE  s \o t \in Seq(Int) /\ Len(s \o t) = n
  BY JoinType

LEMMA PartSplit ==
    ASSUME NEW buf, NEW off \in Nat, NEW s \in Seq(Int), NEW t \in Seq(Int), PartAt(buf, off, s \o t)
    PROVE  PartAt(buf, off, s) /\ PartAt(buf, off + Len(s), t)
<1>1. Len(s) \in Nat /\ Len(t) \in Nat
  BY LenProperties
<1>2. /\ Len(s \o t) = Len(s) + Len(t)
      /\ \A i \in 1 .. Len(s) + Len(t) : (s \o t)[i] = IF i <= Len(s) THEN s[i] ELSE t[i - Len(s)]
  BY ConcatProperties, ZenonT(60)
<1>3. ASSUME NEW i \in 1 .. Len(s) PROVE buf[off + i] = s[i]
  <2>1. i \in 1 .. Len(s) + Len(t) /\ i <= Len(s)
    BY <1>1
  <2> QED BY <1>2, <2>1 DEF PartAt
<1>4. ASSUME NEW i \in 1 .. Len(t) PROVE buf[off + Len(s) + i] = t[i]
  <2> DEFINE j == Len(s) + i
  <2>1. j \in 1 .. Len(s) + Len(t) /\ ~(j <= Len(s)) /\ j - Len(s) = i /\ off + j = off + Len(s) + i
    BY <1>1
  <2> HIDE DEF j
  <2>2. buf[off + j] = (s \o t)[j] /\ (s \o t)[j] = t[j - Len(s)]
    BY <1>2, <2>1 DEF PartAt
  <2> QED BY <2>1, <2>2
<1> QED BY <1>3, <1>4 DEF PartAt

LEMMA PartWhole ==
    ASSUME NEW buf
    PROVE  PartAt(buf, 0, buf)
  BY DEF PartAt

\* The lengths of the parts.
LEMMA BE16Type ==
    ASSUME NEW v \in Int
    PROVE  BE16(v) \in Seq(Int) /\ Len(BE16(v)) = 2
  BY DEF BE16

LEMMA BE32Type ==
    ASSUME NEW v, IsU32(v)
    PROVE  BE32(v) \in Seq(Int) /\ Len(BE32(v)) = 4 /\ v \in Int /\ Upper(v) \in Int
<1>1. v \in Int /\ Upper(v) \in Int
  BY DEF IsU32, Upper
<1>2. /\ BE16(v) \in Seq(Int) /\ Len(BE16(v)) = 2
      /\ BE16(Upper(v)) \in Seq(Int) /\ Len(BE16(Upper(v))) = 2
  BY <1>1, BE16Type
<1>3. Len(BE16(Upper(v))) + Len(BE16(v)) = 4 /\ 4 \in Nat
  BY <1>2
<1> QED BY <1>1, <1>2, <1>3, JoinLen DEF BE32

\* A number is read as it was written.
LEMMA WordPart ==
    ASSUME NEW v, IsU32(v), NEW buf, NEW off \in Nat, PartAt(buf, off, BE32(v))
    PROVE  U32(buf, off + 1) = v
<1> DEFINE h == v \div 256
           u == h \div 256
           i == off + 1
<1>0. v \in Nat /\ h \in Nat /\ u \in Nat /\ u \div 256 < 256 /\ u \div 256 \in Nat
  BY DEF IsU32, Upper
<1>1. v = 256 * h + (v % 256) /\ h = 256 * u + (h % 256) /\ u = 256 * (u \div 256) + (u % 256)
  BY <1>0
<1>2. (u \div 256) % 256 = u \div 256
  BY <1>0
<1>3. PartAt(buf, off, BE16(Upper(v))) /\ PartAt(buf, off + 2, BE16(v))
  <2>1. /\ BE16(v) \in Seq(Int)
        /\ BE16(Upper(v)) \in Seq(Int) /\ Len(BE16(Upper(v))) = 2
    BY BE32Type, BE16Type
  <2> QED BY <2>1, PartSplit DEF BE32
<1>4. buf[i] = (u \div 256) % 256 /\ buf[i + 1] = u % 256
  <2>1. PartAt(buf, off, BE16(u))
    BY <1>3 DEF Upper
  <2>2. Len(BE16(u)) = 2 /\ BE16(u)[1] = (u \div 256) % 256 /\ BE16(u)[2] = u % 256
    BY DEF BE16
  <2> HIDE DEF u
  <2>3. buf[off + 1] = BE16(u)[1] /\ buf[off + 2] = BE16(u)[2]
    BY <2>1, <2>2 DEF PartAt
  <2>4. i + 1 = off + 2
    OBVIOUS
  <2> QED BY <2>2, <2>3, <2>4
<1>5. buf[i + 2] = h % 256 /\ buf[i + 3] = v % 256
  <2>1. Len(BE16(v)) = 2 /\ BE16(v)[1] = h % 256 /\ BE16(v)[2] = v % 256
    BY DEF BE16
  <2>2. buf[off + 2 + 1] = BE16(v)[1] /\ buf[off + 2 + 2] = BE16(v)[2]
    BY <1>3, <2>1 DEF PartAt
  <2>3. i + 2 = off + 2 + 1 /\ i + 3 = off + 2 + 2
    OBVIOUS
  <2> HIDE DEF h
  <2> QED BY <2>1, <2>2, <2>3
<1> HIDE DEF h, u, i
<1>6. i \in Nat
  BY DEF i
<1>7. U16(buf, i) = u
  BY <1>0, <1>1, <1>2, <1>4 DEF U16
<1>8. U16(buf, i + 2) = 256 * (h % 256) + (v % 256)
  <2>1. i + 2 + 1 = i + 3
    BY <1>6
  <2> QED BY <1>0, <1>5, <2>1 DEF U16
<1>9. U32(buf, i) = v
  BY <1>0, <1>1, <1>7, <1>8 DEF U32
<1> QED BY <1>9 DEF i

IsTs(ts) == ts = <<ts[1], ts[2]>> /\ IsU32(ts[1]) /\ IsU32(ts[2])

LEMMA TsType ==
    ASSUME NEW ts, IsTs(ts)
    PROVE  TsBytes(ts) \in Seq(Int) /\ Len(TsBytes(ts)) = 10
<1>1. /\ BE32(ts[1]) \in Seq(Int) /\ Len(BE32(ts[1])) = 4
      /\ BE32(ts[2]) \in Seq(Int) /\ Len(BE32(ts[2])) = 4
  BY BE32Type DEF IsTs
<1>2. <<OPT_TIMESTAMP, 10>> \in Seq(Int) /\ Len(<<OPT_TIMESTAMP, 10>>) = 2
  BY DEF OPT_TIMESTAMP
<1>3. /\ <<OPT_TIMESTAMP, 10>> \o BE32(ts[1]) \in Seq(Int)
      /\ Len(<<OPT_TIMESTAMP, 10>> \o BE32(ts[1])) = 6
  <2>1. Len(<<OPT_TIMESTAMP, 10>>) + Len(BE32(ts[1])) = 6 /\ 6 \in Nat
    BY <1>1, <1>2
  <2> QED BY <1>1, <1>2, <2>1, JoinLen
<1>4. Len(<<OPT_TIMESTAMP, 10>> \o BE32(ts[1])) + Len(BE32(ts[2])) = 10 /\ 10 \in Nat
  BY <1>1, <1>3
<1> QED BY <1>1, <1>3, <1>4, JoinLen DEF TsBytes

LEMMA TsPart ==
    ASSUME NEW ts, IsTs(ts), NEW buf, NEW off \in Nat, PartAt(buf, off, TsBytes(ts))
    PROVE  /\ buf[off + 1] = OPT_TIMESTAMP /\ buf[off + 2] = 10
           /\ U32(buf, off + 3) = ts[1] /\ U32(buf, off + 7) = ts[2]
<1> DEFINE k == <<OPT_TIMESTAMP, 10>>
           x == BE32(ts[1])
           y == BE32(ts[2])
<1>1. x \in Seq(Int) /\ Len(x) = 4 /\ y \in Seq(Int) /\ IsU32(ts[1]) /\ IsU32(ts[2])
  BY BE32Type DEF IsTs
<1>2. k \in Seq(Int) /\ Len(k) = 2 /\ k[1] = OPT_TIMESTAMP /\ k[2] = 10
  BY DEF OPT_TIMESTAMP
<1>3. TsBytes(ts) = (k \o x) \o y
  BY DEF TsBytes
<1> HIDE DEF k, x, y
<1>4. k \o x \in Seq(Int) /\ Len(k \o x) = 6
  <2>1. Len(k) + Len(x) = 6 /\ 6 \in Nat
    BY <1>1, <1>2
  <2> QED BY <1>1, <1>2, <2>1, JoinLen
<1>5. PartAt(buf, off, k \o x) /\ PartAt(buf, off + 6, y)
  <2>1. PartAt(buf, off, (k \o x) \o y)
    BY <1>3
  <2> QED BY <1>1, <1>4, <2>1, PartSplit
<1>6. PartAt(buf, off, k) /\ PartAt(buf, off + 2, x)
  BY <1>1, <1>2, <1>5, PartSplit
<1>7. buf[off + 1] = OPT_TIMESTAMP /\ buf[off + 2] = 10
  BY <1>2, <1>6 DEF PartAt
<1>8. off + 2 \in Nat /\ off + 6 \in Nat /\ off + 2 + 1 = off + 3 /\ off + 6 + 1 = off + 7
  OBVIOUS
<1>9. U32(buf, off + 2 + 1) = ts[1] /\ U32(buf, off + 6 + 1) = ts[2]
  BY <1>1, <1>5, <1>6, <1>8, WordPart DEF x, y
<1> QED BY <1>7, <1>8, <1>9

IsBlock(b) == b = [left |-> b.left, right |-> b.right] /\ IsU32(b.left) /\ IsU32(b.right)

LEMMA BlockType ==
    ASSUME NEW b, IsBlock(b)
    PROVE  BlockBytes(b) \in Seq(Int) /\ Len(BlockBytes(b)) = 8
<1>1. /\ BE32(b.left) \in Seq(Int) /\ Len(BE32(b.left)) = 4
      /\ BE32(b.right) \in Seq(Int) /\ Len(BE32(b.right)) = 4
  BY BE32Type DEF IsBlock
<1>2. Len(BE32(b.left)) + Len(BE32(b.right)) = 8 /\ 8 \in Nat
  BY <1>1
<1> QED BY <1>1, <1>2, JoinLen DEF BlockBytes

LEMMA BlockPart ==
    ASSUME NEW b, IsBlock(b), NEW buf, NEW off \in Nat, PartAt(buf, off, BlockBytes(b))
    PROVE  U32(buf, off + 1) = b.left /\ U32(buf, off + 5) = b.right
<1>1. /\ BE32(b.left) \in Seq(Int) /\ Len(BE32(b.left)) = 4 /\ BE32(b.right) \in Seq(Int)
      /\ IsU32(b.left) /\ IsU32(b.right)
  BY BE32Type DEF IsBlock
<1>2. PartAt(buf, off, BE32(b.left) \o BE32(b.right))
  BY DEF BlockBytes
<1>3. PartAt(buf, off, BE32(b.left)) /\ PartAt(buf, off + 4, BE32(b.right))
  BY <1>1, <1>2, PartSplit
<1>4. off + 4 \in Nat /\ off + 4 + 1 = off + 5
  OBVIOUS
<1>5. U32(buf, off + 1) = b.left /\ U32(buf, off + 4 + 1) = b.right
  BY <1>1, <1>3, <1>4, WordPart
<1> QED BY <1>4, <1>5

\* Sequences of blocks as they are on the wire.
IsBlocks(blocks) == /\ blocks = [i \in 1 .. Len(blocks) |-> blocks[i]]
                    /\ Len(blocks) \in Nat /\ \A i \in 1 .. Len(blocks) : IsBlock(blocks[i])

LEMMA SackType ==
    ASSUME NEW blocks, IsBlocks(blocks)
    PROVE  SackBytes(blocks) \in Seq(Int) /\ Len(SackBytes(blocks)) = 8 * Len(blocks)
<1> DEFINE n == 8 * Len(blocks)
<1>1. n \in Nat
  BY DEF IsBlocks
<1>2. ASSUME NEW j \in 1 .. n
      PROVE  BlockBytes(blocks[((j - 1) \div 8) + 1])[((j - 1) % 8) + 1] \in Int
  <2> DEFINE k == ((j - 1) \div 8) + 1
             i == ((j - 1) % 8) + 1
  <2>1. k \in 1 .. Len(blocks) /\ i \in 1 .. 8
    BY SMTT(30) DEF IsBlocks
  <2> HIDE DEF k, i
  <2>2. BlockBytes(blocks[k]) \in Seq(Int) /\ Len(BlockBytes(blocks[k])) = 8
    BY <2>1, BlockType DEF IsBlocks
  <2>3. BlockBytes(blocks[k])[i] \in Int
    BY <2>1, <2>2, ElementOfSeq
  <2> QED BY <2>3 DEF k, i
<1>3. SackBytes(blocks) \in [1 .. n -> Int]
  BY <1>2 DEF SackBytes
<1> HIDE DEF n
<1>4. SackBytes(blocks) \in Seq(Int) /\ Len(SackBytes(blocks)) = n
  BY <1>1, <1>3, SeqFun
<1> QED BY <1>4 DEF n

LEMMA SackPart ==
    ASSUME NEW blocks, IsBlocks(blocks), NEW buf, NEW off \in Nat,
           PartAt(buf, off, SackBytes(blocks)), NEW k \in 1 .. Len(blocks)
    PROVE  PartAt(buf, off + 8 * (k - 1), BlockBytes(blocks[k]))
<1> SUFFICES ASSUME NEW i \in 1 .. Len(BlockBytes(blocks[k]))
             PROVE  buf[off + 8 * (k - 1) + i] = BlockBytes(blocks[k])[i]
  BY DEF PartAt
<1>1. Len(BlockBytes(blocks[k])) = 8 /\ Len(blocks) \in Nat
  BY BlockType DEF IsBlocks
<1> DEFINE j == 8 * (k - 1) + i
<1>2. i \in 1 .. 8
  BY <1>1
<1>3. j \in 1 .. 8 * Len(blocks) /\ ((j - 1) \div 8) + 1 = k /\ ((j - 1) % 8) + 1 = i
  BY <1>1, <1>2
<1>4. off + 8 * (k - 1) + i = off + j
  BY <1>2
<1> HIDE DEF j
<1>5. SackBytes(blocks)[j] = BlockBytes(blocks[k])[i]
  BY <1>3 DEF SackBytes
<1>6. buf[off + j] = SackBytes(blocks)[j]
  BY <1>3, SackType DEF PartAt
<1> QED BY <1>4, <1>5, <1>6

\* The options of an ACK with SACK blocks, byte by byte.
SackLayout(buf, ts, blocks) ==
    /\ buf \in Seq(Int) /\ Len(buf) = 16 + 8 * Len(blocks)
    /\ buf[1] = OPT_NOP /\ buf[2] = OPT_NOP /\ buf[3] = OPT_TIMESTAMP /\ buf[4] = 10
    /\ U32(buf, 5) = ts[1] /\ U32(buf, 9) = ts[2]
    /\ buf[13] = OPT_NOP /\ buf[14] = OPT_NOP /\ buf[15] = OPT_SACK
    /\ buf[16] = 2 + 8 * Len(blocks)
    /\ \A k \in 1 .. Len(blocks) : /\ U32(buf, 16 + 8 * (k - 1) + 1) = blocks[k].left
                                   /\ U32(buf, 16 + 8 * (k - 1) + 5) = blocks[k].right

LEMMA SackLaidOut ==
    ASSUME NEW ts, IsTs(ts), NEW blocks, IsBlocks(blocks), blocks # <<>>
    PROVE  SackLayout(AckOptions(ts, blocks), ts, blocks)
<1> DEFINE n == Len(blocks)
           P == <<OPT_NOP, OPT_NOP>>
           T == TsBytes(ts)
           Q == <<OPT_NOP, OPT_NOP, OPT_SACK, 2 + 8 * n>>
           B == SackBytes(blocks)
           buf == AckOptions(ts, blocks)
<1>0. n \in Nat /\ n # 0
  <2>1. ASSUME n = 0 PROVE FALSE
    <3>1. blocks = <<>>
      BY <2>1 DEF IsBlocks
    <3> QED BY <3>1
  <2> QED BY <2>1 DEF IsBlocks
<1>P. P \in Seq(Int) /\ Len(P) = 2 /\ P[1] = OPT_NOP /\ P[2] = OPT_NOP
  BY DEF OPT_NOP
<1>T. T \in Seq(Int) /\ Len(T) = 10
  BY TsType
<1>Q. /\ Q \in Seq(Int) /\ Len(Q) = 4 /\ Q[1] = OPT_NOP /\ Q[2] = OPT_NOP
      /\ Q[3] = OPT_SACK /\ Q[4] = 2 + 8 * n
  BY <1>0 DEF OPT_NOP, OPT_SACK
<1>B. B \in Seq(Int) /\ Len(B) = 8 * n
  BY SackType
<1>1. ts # <<>>
  BY DEF IsTs
<1>2. buf = (P \o T) \o (Q \o B)
  <2> DEFINE o == [NoOpts EXCEPT !.timestamps = ts, !.sack_blocks = blocks]
  <2>1. /\ o.mss = None /\ o.wscale = None /\ o.sack_permitted = FALSE
        /\ o.timestamps = ts /\ o.sack_blocks = blocks
    BY DEF NoOpts
  <2>2. buf = Encode(o)
    BY DEF AckOptions
  <2> HIDE DEF o
  <2>3. Encode(o) = ((<<>> \o <<>>) \o (P \o T)) \o (Q \o B)
    BY <1>0, <1>1, <2>1 DEF Encode
  <2>4. P \o T \in Seq(Int)
    BY <1>P, <1>T, JoinType
  <2> HIDE DEF P, T
  <2>5. (<<>> \o <<>>) \o (P \o T) = P \o T
    <3>1. <<>> \in Seq(Int)
      BY EmptySeq
    <3>2. <<>> \o <<>> = <<>>
      BY <3>1, ConcatEmptySeq
    <3> QED BY <2>4, <3>2, ConcatEmptySeq
  <2> QED BY <2>2, <2>3, <2>5
<1> HIDE DEF P, T, Q, B, n
<1>3. P \o T \in Seq(Int) /\ Len(P \o T) = 12
  <2>1. Len(P) + Len(T) = 12 /\ 12 \in Nat
    BY <1>P, <1>T
  <2> QED BY <1>P, <1>T, <2>1, JoinLen
<1>4. Q \o B \in Seq(Int) /\ Len(Q \o B) = 4 + 8 * n
  <2>1. Len(Q) + Len(B) = 4 + 8 * n /\ 4 + 8 * n \in Nat
    BY <1>0, <1>Q, <1>B
  <2> QED BY <1>Q, <1>B, <2>1, JoinLen
<1>5. buf \in Seq(Int) /\ Len(buf) = 16 + 8 * n
  <2>1. Len(P \o T) + Len(Q \o B) = 16 + 8 * n /\ 16 + 8 * n \in Nat
    BY <1>0, <1>3, <1>4
  <2> QED BY <1>2, <1>3, <1>4, <2>1, JoinLen
<1>6. PartAt(buf, 0, P \o T) /\ PartAt(buf, 0 + 12, Q \o B)
  BY <1>2, <1>3, <1>4, PartWhole, PartSplit
<1> HIDE DEF buf
<1>7. PartAt(buf, 0, P) /\ PartAt(buf, 0 + 2, T)
  BY <1>P, <1>T, <1>6, PartSplit
<1>8. PartAt(buf, 12, Q) /\ PartAt(buf, 16, B)
  <2>1. 0 + 12 = 12 /\ 12 + 4 = 16 /\ 12 \in Nat
    OBVIOUS
  <2>3. PartAt(buf, 12, Q \o B)
    BY <1>6, <2>1
  <2>2. PartAt(buf, 12, Q) /\ PartAt(buf, 12 + 4, B)
    BY <1>Q, <1>B, <2>1, <2>3, PartSplit
  <2> QED BY <2>1, <2>2
<1>9. buf[1] = OPT_NOP /\ buf[2] = OPT_NOP
  BY <1>P, <1>7 DEF PartAt
<1>10. buf[3] = OPT_TIMESTAMP /\ buf[4] = 10 /\ U32(buf, 5) = ts[1] /\ U32(buf, 9) = ts[2]
  <2>1. PartAt(buf, 2, TsBytes(ts)) /\ 2 \in Nat
    BY <1>7 DEF T
  <2>2. /\ buf[2 + 1] = OPT_TIMESTAMP /\ buf[2 + 2] = 10
        /\ U32(buf, 2 + 3) = ts[1] /\ U32(buf, 2 + 7) = ts[2]
    BY <2>1, TsPart
  <2> QED BY <2>2
<1>11. buf[13] = OPT_NOP /\ buf[14] = OPT_NOP /\ buf[15] = OPT_SACK /\ buf[16] = 2 + 8 * n
  BY <1>Q, <1>8 DEF PartAt
<1>12. ASSUME NEW k \in 1 .. n
       PROVE  /\ U32(buf, 16 + 8 * (k - 1) + 1) = blocks[k].left
              /\ U32(buf, 16 + 8 * (k - 1) + 5) = blocks[k].right
  <2>1. PartAt(buf, 16 + 8 * (k - 1), BlockBytes(blocks[k]))
    BY <1>8, SackPart DEF B, n
  <2>2. 16 + 8 * (k - 1) \in Nat
    BY <1>0
  <2>3. IsBlock(blocks[k])
    BY DEF IsBlocks, n
  <2> QED BY <2>1, <2>2, <2>3, BlockPart
<1> QED BY <1>5, <1>9, <1>10, <1>11, <1>12 DEF SackLayout, n, buf

\* The loop of parse_options looks ahead only.
LEMMA ParseAhead ==
    ASSUME NEW buf \in Seq(Int), NEW i \in 1 .. Len(buf) + 1, NEW f, NEW g,
           \A j \in i + 1 .. Len(buf) + 1 : f[j] = g[j]
    PROVE  ParseAt(buf, i, f) = ParseAt(buf, i, g)
<1> DEFINE last == Len(buf)
           olen == buf[i + 1]
<1>0. last \in Nat /\ i \in Nat
  BY LenProperties
<1>1. CASE i > last
  BY <1>1 DEF ParseAt
<1>2. CASE ~(i > last) /\ (buf[i] = OPT_END \/ buf[i] = OPT_NOP)
  <2>1. f[i + 1] = g[i + 1]
    BY <1>0, <1>2
  <2> QED BY <1>2, <2>1 DEF ParseAt
<1>3. CASE ~(i > last) /\ buf[i] # OPT_END /\ buf[i] # OPT_NOP /\ (i = last \/ olen < 2 \/ i + olen - 1 > last)
  BY <1>3 DEF ParseAt
<1>4. CASE ~(i > last) /\ i # last /\ ~(olen < 2) /\ ~(i + olen - 1 > last)
  <2>1. i + 1 \in 1 .. last
    BY <1>0, <1>4
  <2>2. olen \in Int
    BY <2>1, ElementOfSeq
  <2> HIDE DEF olen
  <2>3. i + olen \in i + 1 .. last + 1
    BY <1>0, <1>4, <2>2
  <2>4. f[i + olen] = g[i + olen] /\ f[i + 1] = g[i + 1]
    BY <1>0, <1>4, <2>3
  <2> QED BY <2>4 DEF ParseAt, olen
<1> QED BY <1>1, <1>2, <1>3, <1>4

\* It ends, so that its recursion defines a function.
LEMMA ParseEnds ==
    ASSUME NEW buf \in Seq(Int)
    PROVE  \E f : f = [i \in 1 .. Len(buf) + 1 |-> ParseAt(buf, i, f)]
<1> DEFINE last == Len(buf)
           Fits(f, i) == f[i] = ParseAt(buf, i, f)
           G == {k \in 0 .. last : \E f : \A i \in last + 1 - k .. last + 1 : Fits(f, i)}
<1>0. last \in Nat
  BY LenProperties
<1>1. 0 \in G
  <2> DEFINE f == [i \in 1 .. last + 1 |-> NoOpts]
  <2>1. f[last + 1] = NoOpts
    BY <1>0
  <2>2. ParseAt(buf, last + 1, f) = NoOpts
    BY <1>0 DEF ParseAt
  <2>3. \A i \in last + 1 - 0 .. last + 1 : i = last + 1
    BY <1>0
  <2> HIDE DEF f
  <2>4. \A i \in last + 1 - 0 .. last + 1 : Fits(f, i)
    BY <2>1, <2>2, <2>3
  <2>5. 0 \in 0 .. last
    BY <1>0
  <2> QED BY <2>4, <2>5
<1>2. ASSUME NEW k \in 1 .. last, k - 1 \in G PROVE k \in G
  <2> DEFINE p == last + 1 - k
  <2>0. p \in 1 .. last /\ last + 1 - (k - 1) = p + 1
    BY <1>0
  <2>1. PICK f : \A i \in last + 1 - (k - 1) .. last + 1 : Fits(f, i)
    BY <1>2
  <2> DEFINE g == [i \in 1 .. last + 1 |-> IF i = p THEN ParseAt(buf, p, f) ELSE f[i]]
  <2> HIDE DEF p
  <2>2. g[p] = ParseAt(buf, p, f) /\ \A j \in p + 1 .. last + 1 : g[j] = f[j]
    BY <1>0, <2>0
  <2> HIDE DEF g
  <2>3. ASSUME NEW i \in p .. last + 1 PROVE Fits(g, i)
    <3>1. \A j \in i + 1 .. last + 1 : f[j] = g[j]
      BY <1>0, <2>0, <2>2
    <3>2. i \in 1 .. last + 1
      BY <1>0, <2>0
    <3>3. ParseAt(buf, i, f) = ParseAt(buf, i, g)
      BY <3>1, <3>2, ParseAhead
    <3>4. CASE i = p
      BY <2>2, <3>3, <3>4
    <3>5. CASE i # p
      <4>1. i \in p + 1 .. last + 1
        BY <1>0, <2>0, <3>5
      <4>2. Fits(f, i) /\ g[i] = f[i]
        BY <2>0, <2>1, <2>2, <4>1
      <4> QED BY <3>3, <4>2
    <3> QED BY <3>4, <3>5
  <2> HIDE DEF Fits
  <2>4. k \in 0 .. last
    BY <1>0
  <2> QED BY <2>3, <2>4 DEF p
<1> HIDE DEF G
<1>3. last \in G
  <2>1. \A k \in 0 .. last : k \in G
    BY <1>0, <1>1, <1>2, UpTo
  <2> QED BY <1>0, <2>1
<1>4. PICK f : \A i \in last + 1 - last .. last + 1 : Fits(f, i)
  BY <1>3 DEF G
<1> DEFINE h == [i \in 1 .. last + 1 |-> f[i]]
<1>5. ASSUME NEW i \in 1 .. last + 1 PROVE f[i] = ParseAt(buf, i, h)
  <2>1. \A j \in i + 1 .. last + 1 : f[j] = h[j]
    BY <1>0
  <2> HIDE DEF h
  <2>2. ParseAt(buf, i, f) = ParseAt(buf, i, h)
    BY <2>1, ParseAhead
  <2>3. i \in last + 1 - last .. last + 1
    BY <1>0
  <2> QED BY <1>4, <2>2, <2>3
<1>6. h = [i \in 1 .. last + 1 |-> ParseAt(buf, i, h)]
  BY <1>5
<1> QED BY <1>6

\* parse_options is its loop from the first byte on, or the fast path.
LEMMA ParseIs ==
    ASSUME NEW buf \in Seq(Int), ~FastShape(buf)
    PROVE  \E f : /\ ParseOptions(buf) = f[1]
                  /\ \A i \in 1 .. Len(buf) + 1 : f[i] = ParseAt(buf, i, f)
<1> DEFINE Loop(f) == f = [i \in 1 .. Len(buf) + 1 |-> ParseAt(buf, i, f)]
           g == CHOOSE f : Loop(f)
<1>1. \E f : Loop(f)
  BY ParseEnds
<1>2. Loop(g)
  BY <1>1, Zenon
<1>3. ParseOptions(buf) = g[1]
  BY DEF ParseOptions
<1> HIDE DEF g
<1>4. \A i \in 1 .. Len(buf) + 1 : g[i] = ParseAt(buf, i, g)
  BY <1>2
<1> QED BY <1>3, <1>4

\* What an ACK says, it is heard to say.
Heard(opts, ts, blocks) == opts.err = "ok" /\ opts.timestamps = ts /\ opts.sack_blocks = blocks

\* The SACK option at the end of the buffer.
LEMMA SackDecoded ==
    ASSUME NEW ts, NEW blocks, IsBlocks(blocks), Len(blocks) \in 1 .. MaxSackBlocks,
           NEW buf, SackLayout(buf, ts, blocks),
           NEW f, \A i \in 1 .. Len(buf) + 1 : f[i] = ParseAt(buf, i, f)
    PROVE  f[15] = [NoOpts EXCEPT !.sack_blocks = blocks]
<1> DEFINE n == Len(blocks)
           last == Len(buf)
           olen == 2 + 8 * n
<1>0. n \in 1 .. 4 /\ last = 16 + 8 * n /\ buf[15] = OPT_SACK /\ buf[16] = olen
  BY DEF SackLayout, MaxSackBlocks
<1>1. f[last + 1] = NoOpts
  <2>1. last + 1 \in 1 .. last + 1 /\ last + 1 > last
    BY <1>0
  <2>2. ParseAt(buf, last + 1, f) = NoOpts
    BY <2>1 DEF ParseAt
  <2> QED BY <2>1, <2>2
<1>2. BlocksAt(buf, 15, olen) = blocks
  <2>1. (olen - 2) \div 8 = n
    BY <1>0
  <2>2. ASSUME NEW k \in 1 .. n
        PROVE  [left |-> U32(buf, 15 + 8 * k - 6), right |-> U32(buf, 15 + 8 * k - 2)] = blocks[k]
    <3>1. 15 + 8 * k - 6 = 16 + 8 * (k - 1) + 1 /\ 15 + 8 * k - 2 = 16 + 8 * (k - 1) + 5
      BY <1>0
    <3>2. /\ U32(buf, 16 + 8 * (k - 1) + 1) = blocks[k].left
          /\ U32(buf, 16 + 8 * (k - 1) + 5) = blocks[k].right
      BY DEF SackLayout
    <3>3. blocks[k] = [left |-> blocks[k].left, right |-> blocks[k].right]
      BY DEF IsBlocks, IsBlock
    <3> QED BY <3>1, <3>2, <3>3
  <2>3. blocks = [k \in 1 .. n |-> blocks[k]]
    BY DEF IsBlocks
  <2> HIDE DEF n, olen
  <2>4. BlocksAt(buf, 15, olen) = [k \in 1 .. n |-> blocks[k]]
    BY <2>1, <2>2 DEF BlocksAt
  <2> QED BY <2>3, <2>4
<1>3. SubSeq(blocks \o <<>>, 1, IF Len(blocks \o <<>>) < MaxSackBlocks
                               THEN Len(blocks \o <<>>) ELSE MaxSackBlocks) = blocks
  <2> DEFINE S == {blocks[k] : k \in 1 .. n}
  <2>1. blocks \in [1 .. n -> S]
    BY DEF IsBlocks
  <2>N. n \in Nat
    BY <1>0
  <2> HIDE DEF S
  <2>2. blocks \in Seq(S)
    BY <2>1, <2>N, SeqFun
  <2>3. blocks \o <<>> = blocks
    BY <2>2, ConcatEmptySeq
  <2>4. SubSeq(blocks, 1, n) = blocks
    BY <2>2, SubSeqFull
  <2>5. (IF n < MaxSackBlocks THEN n ELSE MaxSackBlocks) = n
    <3> HIDE DEF n
    <3> QED BY <1>0 DEF MaxSackBlocks
  <2> QED BY <2>3, <2>4, <2>5
<1>4. Decoded(buf, 15, olen, NoOpts) = [NoOpts EXCEPT !.sack_blocks = blocks]
  <2>1. NoOpts.sack_blocks = <<>>
    BY DEF NoOpts
  <2>2. Decoded(buf, 15, olen, NoOpts)
        = [NoOpts EXCEPT !.sack_blocks =
               SubSeq(BlocksAt(buf, 15, olen) \o NoOpts.sack_blocks, 1,
                      IF Len(BlocksAt(buf, 15, olen) \o NoOpts.sack_blocks) < MaxSackBlocks
                      THEN Len(BlocksAt(buf, 15, olen) \o NoOpts.sack_blocks) ELSE MaxSackBlocks)]
    BY <1>0 DEF Decoded, OPT_MSS, OPT_WSCALE, OPT_SACK_PERMITTED, OPT_TIMESTAMP, OPT_SACK
  <2> QED BY <1>2, <1>3, <2>1, <2>2
<1>5. LengthError(OPT_SACK, olen) = "ok"
  <2>1. olen # 2 /\ (olen - 2) % 8 = 0 /\ (olen - 2) \div 8 = n
    <3> HIDE DEF n
    <3> QED BY <1>0
  <2>2. ~(n > MaxSackBlocks)
    <3> HIDE DEF n
    <3> QED BY <1>0 DEF MaxSackBlocks
  <2> HIDE DEF n, olen
  <2> QED BY <2>1, <2>2 DEF LengthError, OPT_SACK, OPT_MSS, OPT_WSCALE, OPT_SACK_PERMITTED, OPT_TIMESTAMP
<1>6. /\ 15 \in 1 .. last + 1 /\ ~(15 > last) /\ 15 # last /\ ~(olen < 2) /\ 15 + olen = last + 1
      /\ ~(15 + olen - 1 > last) /\ OPT_SACK # OPT_END /\ OPT_SACK # OPT_NOP /\ 15 + 1 = 16
  BY <1>0 DEF OPT_SACK, OPT_END, OPT_NOP
<1>7. NoOpts.err = "ok"
  BY DEF NoOpts
<1> HIDE DEF n, last, olen
<1>8. ParseAt(buf, 15, f) = Decoded(buf, 15, olen, f[last + 1])
  BY <1>0, <1>1, <1>5, <1>6, <1>7 DEF ParseAt, last
<1> QED BY <1>1, <1>4, <1>6, <1>8 DEF last

LEMMA SackRoundTrip ==
    ASSUME NEW ts, IsTs(ts), NEW blocks, IsBlocks(blocks), Len(blocks) \in 1 .. MaxSackBlocks
    PROVE  Heard(ParseOptions(AckOptions(ts, blocks)), ts, blocks)
<1> DEFINE buf == AckOptions(ts, blocks)
           last == Len(buf)
<1>0. blocks # <<>>
  <2>1. Len(<<>>) = 0
    BY EmptySeq
  <2> QED BY <2>1 DEF MaxSackBlocks
<1>1. SackLayout(buf, ts, blocks)
  BY <1>0, SackLaidOut
<1> HIDE DEF buf
<1>L. last \in Nat /\ last > 20
  <2> DEFINE n == Len(blocks)
  <2>1. n \in 1 .. 4
    BY DEF MaxSackBlocks
  <2>2. last = 16 + 8 * n
    BY <1>1 DEF SackLayout
  <2> HIDE DEF n, last
  <2> QED BY <2>1, <2>2
<1> HIDE DEF last
<1>2. /\ last \in Nat /\ last > 20 /\ buf \in Seq(Int) /\ buf[1] = OPT_NOP /\ buf[2] = OPT_NOP
      /\ buf[3] = OPT_TIMESTAMP /\ buf[4] = 10 /\ buf[13] = OPT_NOP /\ buf[14] = OPT_NOP
      /\ U32(buf, 5) = ts[1] /\ U32(buf, 9) = ts[2]
  BY <1>1, <1>L DEF SackLayout
<1>3. ~FastShape(buf)
  <2>1. last # 12
    BY <1>2
  <2>2. FastShape(buf) => last = 12
    BY Zenon DEF FastShape, last
  <2> QED BY <2>1, <2>2
<1>4. PICK f : /\ ParseOptions(buf) = f[1]
               /\ \A i \in 1 .. last + 1 : f[i] = ParseAt(buf, i, f)
  BY <1>2, <1>3, ParseIs DEF last
<1> DEFINE rest == [NoOpts EXCEPT !.sack_blocks = blocks]
<1>5. f[15] = rest
  BY <1>1, <1>4, SackDecoded DEF last
<1>N. ASSUME NEW i \in 1 .. 14, buf[i] = OPT_NOP PROVE f[i] = f[i + 1]
  <2>1. i \in 1 .. last + 1 /\ ~(i > last)
    BY <1>2, SMTT(30)
  <2>2. ParseAt(buf, i, f) = f[i + 1]
    BY <1>N, <2>1 DEF ParseAt, OPT_NOP, OPT_END, last
  <2> QED BY <1>4, <2>1, <2>2
<1>6. f[13] = rest
  <2>1. f[13] = f[13 + 1] /\ f[14] = f[14 + 1]
    BY <1>2, <1>N
  <2> HIDE DEF rest
  <2> QED BY <1>5, <2>1
<1>7. f[3] = [rest EXCEPT !.timestamps = ts]
  <2>1. /\ 3 \in 1 .. last + 1 /\ ~(3 > last) /\ 3 # last /\ ~(10 < 2) /\ ~(3 + 10 - 1 > last)
        /\ OPT_TIMESTAMP # OPT_END /\ OPT_TIMESTAMP # OPT_NOP /\ 3 + 1 = 4 /\ 3 + 10 = 13
    BY <1>2 DEF OPT_TIMESTAMP, OPT_END, OPT_NOP
  <2>2. LengthError(OPT_TIMESTAMP, 10) = "ok"
    BY DEF LengthError, OPT_SACK, OPT_MSS, OPT_WSCALE, OPT_SACK_PERMITTED, OPT_TIMESTAMP
  <2>3. rest.err = "ok" /\ rest.timestamps = <<>>
    BY DEF NoOpts
  <2>4. Decoded(buf, 3, 10, rest) = [rest EXCEPT !.timestamps = ts]
    <3>1. Decoded(buf, 3, 10, rest)
          = [rest EXCEPT !.timestamps = <<U32(buf, 3 + 2), U32(buf, 3 + 6)>>]
      <4> HIDE DEF rest
      <4> QED BY <1>2, <2>3 DEF Decoded, OPT_MSS, OPT_WSCALE, OPT_SACK_PERMITTED, OPT_TIMESTAMP, OPT_SACK
    <3>2. 3 + 2 = 5 /\ 3 + 6 = 9 /\ ts = <<ts[1], ts[2]>>
      BY DEF IsTs
    <3> HIDE DEF rest
    <3> QED BY <1>2, <3>1, <3>2
  <2> HIDE DEF rest
  <2>5. ParseAt(buf, 3, f) = Decoded(buf, 3, 10, f[13])
    BY <1>2, <1>6, <2>1, <2>2, <2>3 DEF ParseAt, last
  <2> QED BY <1>4, <1>6, <2>1, <2>4, <2>5
<1>8. f[1] = [rest EXCEPT !.timestamps = ts]
  <2>1. f[1] = f[1 + 1] /\ f[2] = f[2 + 1]
    BY <1>2, <1>N
  <2> HIDE DEF rest
  <2> QED BY <1>7, <2>1
<1> QED BY <1>4, <1>8 DEF Heard, NoOpts, buf

LEMMA TsRoundTrip ==
    ASSUME NEW ts, IsTs(ts)
    PROVE  Heard(ParseOptions(AckOptions(ts, <<>>)), ts, <<>>)
<1> DEFINE T == TsBytes(ts)
           P == <<OPT_NOP, OPT_NOP>>
           buf == T \o P
<1>1. AckOptions(ts, <<>>) = buf
  BY DEF AckOptions
<1>2. T \in Seq(Int) /\ Len(T) = 10
  BY TsType
<1>3. P \in Seq(Int) /\ Len(P) = 2 /\ P[1] = OPT_NOP /\ P[2] = OPT_NOP
  BY DEF OPT_NOP
<1> HIDE DEF T, P
<1>4. Len(buf) = 12
  <2>1. Len(T) + Len(P) = 12 /\ 12 \in Nat
    BY <1>2, <1>3
  <2> QED BY <1>2, <1>3, <2>1, JoinLen
<1>5. PartAt(buf, 0, T) /\ PartAt(buf, 0 + 10, P) /\ 0 \in Nat
  BY <1>2, <1>3, PartWhole, PartSplit
<1> HIDE DEF buf
<1>6. buf[11] = OPT_NOP /\ buf[12] = OPT_NOP
  BY <1>3, <1>5 DEF PartAt
<1>7. buf[1] = OPT_TIMESTAMP /\ buf[2] = 10 /\ U32(buf, 3) = ts[1] /\ U32(buf, 7) = ts[2]
  <2>1. /\ buf[0 + 1] = OPT_TIMESTAMP /\ buf[0 + 2] = 10
        /\ U32(buf, 0 + 3) = ts[1] /\ U32(buf, 0 + 7) = ts[2]
    BY <1>5, TsPart DEF T
  <2> QED BY <2>1
<1>8. FastShape(buf)
  BY <1>4, <1>6, <1>7 DEF FastShape
<1>9. ParseOptions(buf) = [NoOpts EXCEPT !.timestamps = <<U32(buf, 3), U32(buf, 7)>>]
  BY <1>8, Zenon DEF ParseOptions
<1>10. ts = <<ts[1], ts[2]>>
  BY DEF IsTs
<1>11. ParseOptions(buf) = [NoOpts EXCEPT !.timestamps = ts]
  BY <1>7, <1>9, <1>10
<1> QED BY <1>1, <1>11 DEF Heard, NoOpts

\* parse_options reads from the options of an ACK what was written into them:
\* the timestamps and up to four SACK blocks, on the fast path and in the loop.
THEOREM OptionsRoundTrip ==
    ASSUME NEW ts, IsTs(ts), NEW blocks, IsBlocks(blocks), Len(blocks) <= MaxSackBlocks
    PROVE  Heard(ParseOptions(AckOptions(ts, blocks)), ts, blocks)
<1>1. CASE Len(blocks) = 0
  <2>1. blocks = <<>>
    BY <1>1 DEF IsBlocks
  <2> QED BY <2>1, TsRoundTrip
<1>2. CASE Len(blocks) # 0
  <2>1. Len(blocks) \in 1 .. MaxSackBlocks
    BY <1>2 DEF IsBlocks, MaxSackBlocks
  <2> QED BY <2>1, SackRoundTrip
<1> QED BY <1>1, <1>2
-----------------------------------------------------------------------------
\* Numbers that wrap.

LEMMA DivMod ==
    ASSUME NEW x \in Int, NEW m \in Nat \ {0}
    PROVE  x % m \in 0 .. m - 1 /\ x \div m \in Int /\ x = m * (x \div m) + (x % m)
<1>1. x % m \in 0 .. m - 1
  OBVIOUS
<1>2. x \div m \in Int
  OBVIOUS
<1>3. x = m * (x \div m) + (x % m)
  OBVIOUS
<1> QED BY <1>1, <1>2, <1>3

LEMMA DivUnique ==
    ASSUME NEW m \in Nat \ {0}, NEW a \in Int, NEW b \in Int,
           NEW r \in 0 .. m - 1, NEW s \in 0 .. m - 1, m * a + r = m * b + s
    PROVE  r = s
<1>1. m * (a - b) = s - r
  OBVIOUS
<1>2. CASE a > b
  <2>1. a - b >= 1
    BY <1>2
  <2>2. m * (a - b) >= m
    BY <2>1
  <2> QED BY <1>1, <2>2
<1>3. CASE a < b
  <2>1. b - a >= 1
    BY <1>3
  <2>2. m * (b - a) >= m
    BY <2>1
  <2>3. m * (a - b) = - (m * (b - a))
    OBVIOUS
  <2> QED BY <1>1, <2>2, <2>3
<1>4. CASE a = b
  BY <1>1, <1>4
<1> QED BY <1>2, <1>3, <1>4

\* A multiple of the modulus does not show.
LEMMA ModShift ==
    ASSUME NEW m \in Nat \ {0}, NEW x \in Int, NEW q \in Int, NEW y \in Int, y = x + m * q
    PROVE  y % m = x % m
<1> DEFINE c == x \div m
           d == y \div m
           r == x % m
           s == y % m
<1>2. r \in 0 .. m - 1 /\ c \in Int /\ x = m * c + r
  BY DivMod
<1>3. s \in 0 .. m - 1 /\ d \in Int /\ y = m * d + s
  BY DivMod
<1> HIDE DEF c, d, r, s
<1>4. m * (c + q) = m * c + m * q
  BY <1>2
<1>5. m * (c + q) + r = m * d + s
  BY <1>2, <1>3, <1>4
<1>6. c + q \in Int
  BY <1>2
<1>7. r = s
  BY <1>2, <1>3, <1>5, <1>6, DivUnique
<1> QED BY <1>7 DEF r, s

LEMMA ModSmall ==
    ASSUME NEW m \in Nat \ {0}, NEW x \in Int
    PROVE  /\ x \in 0 .. m - 1 => x % m = x
           /\ x + m \in 0 .. m - 1 => x % m = x + m
<1>1. ASSUME NEW y \in 0 .. m - 1 PROVE y % m = y
  <2> DEFINE r == y % m
             q == y \div m
  <2>1. r \in 0 .. m - 1 /\ q \in Int /\ y = m * q + r
    BY DivMod
  <2>2. m * 0 + y = m * q + r
    BY <2>1
  <2> HIDE DEF r, q
  <2>3. y = r
    BY <2>1, <2>2, DivUnique
  <2> QED BY <2>3 DEF r
<1>2. ASSUME x + m \in 0 .. m - 1 PROVE x % m = x + m
  <2> DEFINE y == x + m
  <2>1. y = x + m * 1 /\ y \in Int /\ 1 \in Int /\ y \in 0 .. m - 1
    BY <1>2
  <2> HIDE DEF y
  <2>2. y % m = x % m
    BY <2>1, ModShift
  <2>3. y % m = y
    BY <1>1, <2>1
  <2> QED BY <2>2, <2>3 DEF y
<1> QED BY <1>1, <1>2

\* Differences are those of the numbers before they wrapped.
LEMMA WrapLess ==
    ASSUME NEW m \in Nat \ {0}, NEW x \in Int, NEW y \in Int
    PROVE  ((x % m) - y) % m = (x - y) % m /\ (y - (x % m)) % m = (y - x) % m
<1> DEFINE q == x \div m
           r == x % m
<1>1. r \in 0 .. m - 1 /\ q \in Int /\ x = m * q + r
  BY DivMod
<1> HIDE DEF q, r
<1>2. m * (- q) = - (m * q)
  BY <1>1
<1> DEFINE a == r - y
           b == x - y
           c == y - r
           d == y - x
           p == - q
<1>3. a = b + m * p /\ c = d + m * q
  BY <1>1, <1>2
<1>4. a \in Int /\ b \in Int /\ c \in Int /\ d \in Int /\ p \in Int
  BY <1>1
<1> HIDE DEF a, b, c, d, p
<1>5. a % m = b % m
  BY <1>3, <1>4, ModShift
<1>6. c % m = d % m
  BY <1>1, <1>3, <1>4, ModShift
<1> QED BY <1>5, <1>6 DEF r, a, b, c, d

LEMMA Params ==
    /\ Space \in Nat \ {0} /\ Iss \in Nat /\ Clock0 \in Nat /\ PeerClock0 \in Nat
    /\ MaxSegs \in Nat /\ Grain \in Nat \ {0} /\ MaxNow \in Nat
    /\ Space \div 2 \in Nat /\ 2 * (Space \div 2) <= Space /\ Space <= 2 * (Space \div 2) + 1
    /\ MaxSegs < Space \div 2 /\ MaxSegs < Space
<1>1. /\ Space \in Nat \ {0} /\ Iss \in Nat /\ Clock0 \in Nat /\ PeerClock0 \in Nat
      /\ MaxSegs \in Nat /\ Grain \in Nat \ {0} /\ MaxNow \in Nat /\ MaxSegs < Space \div 2
  BY LossParams
<1>2. Space \div 2 \in Nat /\ 2 * (Space \div 2) <= Space /\ Space <= 2 * (Space \div 2) + 1
  BY <1>1
<1> QED BY <1>1, <1>2

\* What is reduced modulo Space fits 32 bits.
LEMMA ModU32 ==
    ASSUME NEW x \in Int
    PROVE  IsU32(x % Space)
<1> DEFINE r == x % Space
           t == Space - 1
<1>1. r \in 0 .. t
  BY Params, DivMod
<1>2. t \in Nat /\ Upper(t) \div 256 < 256
  BY Params, LossParams DEF IsU32
<1> HIDE DEF r, t
<1>3. r \div 256 <= t \div 256 /\ r \div 256 \in Nat /\ t \div 256 \in Nat
  BY <1>1, <1>2
<1>4. Upper(r) <= Upper(t) /\ Upper(r) \in Nat /\ Upper(t) \in Nat
  BY <1>3 DEF Upper
<1>5. Upper(r) \div 256 <= Upper(t) \div 256 /\ Upper(r) \div 256 \in Nat /\ Upper(t) \div 256 \in Nat
  BY <1>4
<1>6. IsU32(r)
  BY <1>1, <1>2, <1>5 DEF IsU32
<1> QED BY <1>6 DEF r

\* tcp_seq.rs orders numbers that are less than half of the space apart.
LEMMA WrapOrder ==
    ASSUME NEW base \in Nat, NEW a \in Nat, NEW b \in Nat,
           a - b < Space \div 2, b - a < Space \div 2
    PROVE  /\ SeqLt((base + a) % Space, (base + b) % Space) <=> a < b
           /\ SeqLe((base + a) % Space, (base + b) % Space) <=> a <= b
<1> DEFINE x == base + a
           y == base + b
           d == a - b
           h == Space \div 2
<1>0. x \in Int /\ y \in Int /\ x - y = d /\ d \in Int /\ y % Space \in Int /\ x % Space \in Int
  BY Params, DivMod
<1>1. ((x % Space) - (y % Space)) % Space = d % Space
  <2>1. ((x % Space) - (y % Space)) % Space = (x - (y % Space)) % Space
    BY <1>0, Params, WrapLess
  <2>2. (x - (y % Space)) % Space = (x - y) % Space
    BY <1>0, Params, WrapLess
  <2> QED BY <1>0, <2>1, <2>2
<1>2. h \in Nat /\ 2 * h <= Space /\ Space <= 2 * h + 1 /\ d < h /\ - d < h /\ Space \in Nat
  BY Params
<1>3. SeqLt(x % Space, y % Space) <=> d % Space >= h
  BY <1>1 DEF SeqLt
<1> HIDE DEF x, y, h
<1>4. CASE a < b
  <2>1. d + Space \in 0 .. Space - 1 /\ d + Space >= h
    BY <1>2, <1>4
  <2>2. d % Space = d + Space
    BY <1>0, <2>1, Params, ModSmall
  <2>3. SeqLt(x % Space, y % Space)
    BY <1>3, <2>1, <2>2
  <2> QED BY <1>4, <2>3 DEF SeqLe, x, y
<1>5. CASE a = b
  <2>1. d \in 0 .. Space - 1 /\ d = 0 /\ ~(0 >= h)
    BY <1>2, <1>5
  <2>2. d % Space = d
    BY <1>0, <2>1, Params, ModSmall
  <2>3. ~SeqLt(x % Space, y % Space)
    BY <1>3, <2>1, <2>2
  <2>4. x = y
    BY <1>5 DEF x, y
  <2> QED BY <1>5, <2>3, <2>4 DEF SeqLe, x, y
<1>6. CASE a > b
  <2>1. d \in 0 .. Space - 1 /\ d # 0 /\ ~(d >= h)
    BY <1>2, <1>6
  <2>2. d % Space = d
    BY <1>0, <2>1, Params, ModSmall
  <2>3. ~SeqLt(x % Space, y % Space)
    BY <1>3, <2>1, <2>2
  <2>4. x % Space # y % Space
    <3> SUFFICES ASSUME x % Space = y % Space PROVE FALSE
      OBVIOUS
    <3>1. (x % Space) - (y % Space) = 0
      BY <1>0
    <3>2. 0 % Space = 0
      <4>1. 0 \in 0 .. Space - 1
        BY Params
      <4> QED BY <4>1, Params, ModSmall
    <3> QED BY <1>1, <2>1, <2>2, <3>1, <3>2
  <2> QED BY <1>6, <2>3, <2>4 DEF SeqLe, x, y
<1> QED BY <1>4, <1>5, <1>6

\* The sequence numbers of a connection.
LEMMA SeqOrder ==
    ASSUME NEW a \in 0 .. MaxSegs, NEW b \in 0 .. MaxSegs
    PROVE  /\ SeqLt(SeqNo(a), SeqNo(b)) <=> a < b
           /\ SeqLe(SeqNo(a), SeqNo(b)) <=> a <= b
<1>1. a \in Nat /\ b \in Nat /\ a - b < Space \div 2 /\ b - a < Space \div 2 /\ Iss \in Nat
  BY Params
<1> QED BY <1>1, WrapOrder DEF SeqNo

LEMMA SeqBack ==
    ASSUME NEW n \in 0 .. MaxSegs
    PROVE  /\ (SeqNo(n) - Iss) % Space = n /\ SeqNo(n) \in Int /\ IsU32(SeqNo(n))
           /\ (SeqNo(n) + 1) % Space = SeqNo(n + 1)
<1> DEFINE x == Iss + n
           w == -1
<1>1. x \in Int /\ x - Iss = n /\ Iss \in Int /\ n \in 0 .. Space - 1 /\ n \in Int /\ w \in Int
  BY Params
<1> HIDE DEF w, x
<1>2. ((x % Space) - Iss) % Space = (x - Iss) % Space
  BY <1>1, Params, WrapLess
<1>3. (x - Iss) % Space = n
  BY <1>1, Params, ModSmall
<1>4. ((x % Space) - w) % Space = (x - w) % Space
  <2>1. Space \in Nat \ {0}
    BY Params
  <2> QED BY <1>1, <2>1, WrapLess, Zenon
<1>5. x % Space \in Int /\ IsU32(x % Space)
  <2>1. IsU32(x % Space)
    BY <1>1, ModU32, Zenon
  <2> QED BY <2>1 DEF IsU32
<1>6. x - w = Iss + (n + 1) /\ (x % Space) - w = (x % Space) + 1
  BY <1>1, <1>5, Params DEF w, x
<1>7. ((x % Space) + 1) % Space = (Iss + (n + 1)) % Space
  BY <1>4, <1>6
<1> QED BY <1>2, <1>3, <1>5, <1>7 DEF SeqNo, x
-----------------------------------------------------------------------------
\* The scoreboard.

\* The blocks of segments that the peer holds.
Spans(g) == {p \in (0 .. MaxSegs) \X (0 .. MaxSegs) : p[1] < p[2] /\ p[1] .. p[2] - 1 \subseteq g}

TrueBlocks(g) == {Block(p) : p \in Spans(g)}

LEMMA SpanBlock ==
    ASSUME NEW g, NEW l \in 0 .. MaxSegs, NEW r \in 0 .. MaxSegs, l < r, l .. r - 1 \subseteq g
    PROVE  [left |-> SeqNo(l), right |-> SeqNo(r)] \in TrueBlocks(g)
<1> DEFINE p == <<l, r>>
<1>1. p \in Spans(g)
  BY DEF Spans
<1>2. Block(p) = [left |-> SeqNo(l), right |-> SeqNo(r)]
  BY DEF Block
<1> QED BY <1>1, <1>2 DEF TrueBlocks

LEMMA BlockSpan ==
    ASSUME NEW g, NEW b \in TrueBlocks(g)
    PROVE  \E l, r \in 0 .. MaxSegs : /\ l < r /\ l .. r - 1 \subseteq g
                                      /\ b = [left |-> SeqNo(l), right |-> SeqNo(r)]
                                      /\ b.left = SeqNo(l) /\ b.right = SeqNo(r)
<1>1. PICK p \in Spans(g) : b = Block(p)
  BY DEF TrueBlocks
<1>2. p[1] \in 0 .. MaxSegs /\ p[2] \in 0 .. MaxSegs /\ p[1] < p[2] /\ p[1] .. p[2] - 1 \subseteq g
  BY DEF Spans
<1>3. b = [left |-> SeqNo(p[1]), right |-> SeqNo(p[2])]
  BY <1>1 DEF Block
<1>4. b.left = SeqNo(p[1]) /\ b.right = SeqNo(p[2])
  BY <1>3
<1> QED BY <1>2, <1>3, <1>4

\* Two blocks that touch have no gap between them.
LEMMA UnionTrue ==
    ASSUME NEW g, NEW a \in TrueBlocks(g), NEW b \in TrueBlocks(g), Touch(a, b) \/ Touch(b, a)
    PROVE  Union(a, b) \in TrueBlocks(g)
<1>0. MaxSegs \in Nat
  BY Params
<1>1. PICK l, r \in 0 .. MaxSegs : /\ l < r /\ l .. r - 1 \subseteq g
                                   /\ a.left = SeqNo(l) /\ a.right = SeqNo(r)
  BY BlockSpan
<1>2. PICK k, s \in 0 .. MaxSegs : /\ k < s /\ k .. s - 1 \subseteq g
                                   /\ b.left = SeqNo(k) /\ b.right = SeqNo(s)
  BY BlockSpan
<1>3. /\ SeqLe(a.left, b.right) <=> l <= s
      /\ SeqLe(b.left, a.right) <=> k <= r
      /\ SeqLe(a.left, b.left) <=> l <= k
      /\ SeqLe(b.right, a.right) <=> s <= r
  BY <1>1, <1>2, SeqOrder
<1>4. l <= s /\ k <= r
  BY <1>3 DEF Touch
<1> DEFINE x == IF l <= k THEN l ELSE k
           y == IF s <= r THEN r ELSE s
<1>5. Union(a, b) = [left |-> SeqNo(x), right |-> SeqNo(y)]
  BY <1>1, <1>2, <1>3 DEF Union
<1>6. x \in 0 .. MaxSegs /\ y \in 0 .. MaxSegs /\ x < y
  BY <1>0, <1>1, <1>2, <1>4
<1>7. x .. y - 1 \subseteq g
  <2> SUFFICES ASSUME NEW i \in x .. y - 1 PROVE i \in g
    OBVIOUS
  <2>1. i \in l .. r - 1 \/ i \in k .. s - 1
    BY <1>0, <1>1, <1>2, <1>4, <1>6
  <2> QED BY <1>1, <1>2, <2>1
<1> HIDE DEF x, y
<1> QED BY <1>5, <1>6, <1>7, SpanBlock

LEMMA MinIn ==
    ASSUME NEW T \in SUBSET Nat, T # {}
    PROVE  Min(T) \in T /\ \A y \in T : Min(T) <= y
<1>1. \E x \in T : \A y \in T : x <= y
  BY Least
<1> QED BY <1>1 DEF Min

\* A sequence with one element replaced or removed.
LEMMA PutType ==
    ASSUME NEW S, NEW s \in Seq(S), NEW i \in 1 .. Len(s), NEW x \in S
    PROVE  [s EXCEPT ![i] = x] \in Seq(S) /\ Len([s EXCEPT ![i] = x]) = Len(s)
<1>1. Len(s) \in Nat /\ s \in [1 .. Len(s) -> S]
  BY LenProperties
<1>2. [s EXCEPT ![i] = x] \in [1 .. Len(s) -> S]
  BY <1>1
<1> QED BY <1>1, <1>2, SeqFun

LEMMA RemoveType ==
    ASSUME NEW S, NEW s \in Seq(S), NEW i \in 1 .. Len(s)
    PROVE  RemoveAt(s, i) \in Seq(S)
<1>1. Len(s) \in Nat /\ \A k \in 1 .. Len(s) : s[k] \in S
  BY LenProperties, ElementOfSeq
<1>2. SubSeq(s, 1, i - 1) \in Seq(S)
  <2>1. 1 \in Int /\ i - 1 \in Int /\ \A k \in 1 .. i - 1 : s[k] \in S
    BY <1>1
  <2> QED BY <2>1, SubSeqProperties
<1>3. SubSeq(s, i + 1, Len(s)) \in Seq(S)
  <2>1. i + 1 \in Int /\ Len(s) \in Int /\ \A k \in i + 1 .. Len(s) : s[k] \in S
    BY <1>1
  <2> QED BY <2>1, SubSeqProperties
<1> QED BY <1>2, <1>3, ConcatProperties DEF RemoveAt

LEMMA MergeFirstTrue ==
    ASSUME NEW g, NEW board \in Seq(TrueBlocks(g))
    PROVE  MergeFirst(board) \in Seq(TrueBlocks(g))
<1> DEFINE S == TrueBlocks(g)
           n == Len(board)
           pairs == {p \in (DOMAIN board) \X (DOMAIN board) :
                        p[1] < p[2] /\ Touch(board[p[1]], board[p[2]])}
           Least2(p) == \A q \in pairs : p[1] < q[1] \/ (p[1] = q[1] /\ p[2] <= q[2])
           first == CHOOSE p \in pairs : Least2(p)
<1>0. n \in Nat /\ DOMAIN board = 1 .. n /\ \A i \in 1 .. n : board[i] \in S
  BY LenProperties, ElementOfSeq
<1>1. CASE pairs = {}
  BY <1>1 DEF MergeFirst
<1>2. CASE pairs # {}
  <2>1. \E p \in pairs : Least2(p)
    <3>0. \A p \in pairs : p[1] \in 1 .. n /\ p[2] \in 1 .. n /\ p = <<p[1], p[2]>>
      BY <1>0
    <3> HIDE DEF pairs
    <3> DEFINE T == {p[1] : p \in pairs}
    <3>1. T \in SUBSET Nat /\ T # {}
      BY <1>0, <1>2, <3>0
    <3>2. PICK i \in T : \A y \in T : i <= y
      BY <3>1, Least
    <3> DEFINE U == {j \in 1 .. n : <<i, j>> \in pairs}
    <3>3. U \in SUBSET Nat /\ U # {}
      <4>1. PICK p \in pairs : i = p[1]
        BY <3>2
      <4>2. p = <<i, p[2]>> /\ p[2] \in 1 .. n
        BY <3>0, <4>1
      <4>3. p[2] \in U
        BY <4>1, <4>2
      <4>4. \A y \in U : y \in Nat
        BY <1>0
      <4> HIDE DEF U
      <4> QED BY <4>3, <4>4
    <3>4. PICK j \in U : \A y \in U : j <= y
      BY <3>3, Least
    <3>5. <<i, j>> \in pairs
      BY <3>4
    <3>6. ASSUME NEW q \in pairs PROVE i < q[1] \/ (i = q[1] /\ j <= q[2])
      <4>1. q[1] \in T /\ i <= q[1] /\ i \in Nat /\ q[1] \in Nat
        BY <3>0, <3>1, <3>2
      <4>2. CASE i = q[1]
        <5>1. q[2] \in U
          BY <3>0, <4>2
        <5> QED BY <3>4, <4>2, <5>1
      <4>3. CASE i # q[1]
        BY <4>1, <4>3
      <4> QED BY <4>2, <4>3
    <3> DEFINE w == <<i, j>>
    <3>7. w[1] = i /\ w[2] = j
      OBVIOUS
    <3> HIDE DEF w
    <3>8. Least2(w)
      BY <3>6, <3>7
    <3>9. w \in pairs
      BY <3>5 DEF w
    <3> QED BY <3>8, <3>9
  <2>2. first \in pairs
    <3> HIDE DEF pairs, Least2
    <3> QED BY <2>1
  <2>3. /\ first[1] \in 1 .. n /\ first[2] \in 1 .. n
        /\ Touch(board[first[1]], board[first[2]])
    <3>1. \A p \in pairs : /\ p[1] \in 1 .. n /\ p[2] \in 1 .. n
                           /\ Touch(board[p[1]], board[p[2]])
      BY <1>0
    <3> HIDE DEF pairs, first
    <3> QED BY <2>2, <3>1
  <2>4. MergeFirst(board)
        = RemoveAt([board EXCEPT ![first[1]] = Union(board[first[1]], board[first[2]])], first[2])
    BY <1>2 DEF MergeFirst
  <2> HIDE DEF first
  <2>5. Union(board[first[1]], board[first[2]]) \in S
    BY <1>0, <2>3, UnionTrue
  <2> HIDE DEF S
  <2> DEFINE m == [board EXCEPT ![first[1]] = Union(board[first[1]], board[first[2]])]
  <2>6. m \in Seq(S) /\ Len(m) = n
    BY <2>3, <2>5, PutType DEF S
  <2> HIDE DEF m
  <2>7. RemoveAt(m, first[2]) \in Seq(S)
    BY <2>3, <2>6, RemoveType
  <2> QED BY <2>4, <2>7 DEF m, S
<1> QED BY <1>1, <1>2

\* collapse is a loop over such merges.
LEMMA CollapseTrue ==
    ASSUME NEW g, NEW board \in Seq(TrueBlocks(g))
    PROVE  Collapse(board) \in Seq(TrueBlocks(g))
<1> DEFINE m == Len(board)
           S == Seq(TrueBlocks(g))
           F == [k \in 1 .. m |-> [v \in S |-> MergeFirst(v)]]
           Loop(f) == f = [k \in 0 .. m |-> IF k = 0 THEN board ELSE MergeFirst(f[k - 1])]
           h == CHOOSE f : Loop(f)
<1>1. m \in Nat
  BY LenProperties
<1>2. Steps(F, m, S)
  <2>1. \A v \in S : MergeFirst(v) \in S
    BY MergeFirstTrue
  <2> QED BY <2>1 DEF Steps
<1>3. \A k \in 1 .. m, v \in S : F[k][v] = MergeFirst(v)
  OBVIOUS
<1>4. Collapse(board) = h[m]
  BY DEF Collapse
<1>W. board \in S
  OBVIOUS
<1> HIDE DEF F, S, m
<1>5. PICK f : IsRun(f, F, m, S, board)
  BY <1>1, <1>W, <1>2, Iterates
<1>6. Loop(f)
  <2>1. ASSUME NEW k \in 1 .. m PROVE f[k] = MergeFirst(f[k - 1])
    <3>1. k - 1 \in 0 .. m
      BY <1>1
    <3>2. f[k - 1] \in S /\ f[k] = F[k][f[k - 1]]
      BY <1>5, <3>1 DEF IsRun
    <3> QED BY <1>3, <3>2
  <2>2. \A k \in 0 .. m : k = 0 \/ k \in 1 .. m
    BY <1>1
  <2>3. \A k \in 0 .. m : f[k] = IF k = 0 THEN board ELSE MergeFirst(f[k - 1])
    BY <1>5, <2>1, <2>2 DEF IsRun
  <2>4. f = [k \in 0 .. m |-> f[k]]
    BY <1>5 DEF IsRun
  <2> QED BY <2>3, <2>4
<1>7. Loop(h)
  BY <1>6
<1> HIDE DEF h
<1>8. /\ h = [k \in 0 .. m |-> h[k]] /\ h[0] = board
      /\ \A k \in 1 .. m : h[k] = MergeFirst(h[k - 1])
  <2> DEFINE E == [k \in 0 .. m |-> IF k = 0 THEN board ELSE MergeFirst(h[k - 1])]
  <2>1. h = E
    BY <1>7
  <2>2. /\ E = [k \in 0 .. m |-> E[k]]
        /\ \A k \in 0 .. m : E[k] = IF k = 0 THEN board ELSE MergeFirst(h[k - 1])
    OBVIOUS
  <2> HIDE DEF E
  <2>3. 0 \in 0 .. m /\ \A k \in 1 .. m : k # 0 /\ k \in 0 .. m
    BY <1>1
  <2> QED BY <2>1, <2>2, <2>3
<1>9. \A k \in 1 .. m : h[k - 1] \in S => h[k] = F[k][h[k - 1]]
  BY <1>3, <1>8
<1>10. IsRun(h, F, m, S, board)
  BY <1>1, <1>W, <1>2, <1>8, <1>9, RunOf
<1>11. h[m] \in S
  BY <1>1, <1>10 DEF IsRun
<1> QED BY <1>4, <1>11 DEF S

\* A filter keeps the elements that it does not drop.
LEMMA WithoutType ==
    ASSUME NEW D, NEW s, Len(s) \in Nat, NEW drop, \A k \in 1 .. Len(s) : k \in drop \/ s[k] \in D
    PROVE  Without(s, drop) \in Seq(D)
<1> DEFINE m == Len(s)
           S == Seq(D)
           Step(v, k) == IF k \in drop THEN v ELSE Append(v, s[k])
           F == [k \in 1 .. m |-> [v \in S |-> Step(v, k)]]
           Loop(f) == f = [k \in 0 .. m |-> IF k = 0 THEN <<>>
                                            ELSE IF k \in drop THEN f[k - 1] ELSE Append(f[k - 1], s[k])]
           h == CHOOSE f : Loop(f)
<1>1. m \in Nat /\ \A k \in 1 .. m : k \in drop \/ s[k] \in D
  OBVIOUS
<1>2. Steps(F, m, S)
  <2>1. \A k \in 1 .. m, v \in S : k \in drop \/ Append(v, s[k]) \in S
    BY <1>1, AppendProperties
  <2>2. \A k \in 1 .. m, v \in S : Step(v, k) \in S
    BY <2>1
  <2> HIDE DEF Step
  <2> QED BY <2>2 DEF Steps
<1>3. \A k \in 1 .. m, v \in S : F[k][v] = Step(v, k)
  OBVIOUS
<1>4. Without(s, drop) = h[m]
  BY DEF Without
<1>W. <<>> \in S
  BY EmptySeq
<1> HIDE DEF F, S, m
<1>5. PICK f : IsRun(f, F, m, S, <<>>)
  BY <1>1, <1>W, <1>2, Iterates
<1>6. Loop(f)
  <2>1. ASSUME NEW k \in 1 .. m PROVE f[k] = Step(f[k - 1], k)
    <3>1. k - 1 \in 0 .. m
      BY <1>1
    <3>2. f[k - 1] \in S /\ f[k] = F[k][f[k - 1]]
      BY <1>5, <3>1 DEF IsRun
    <3> HIDE DEF Step
    <3> QED BY <1>3, <3>2
  <2>2. \A k \in 0 .. m : k = 0 \/ k \in 1 .. m
    BY <1>1
  <2>3. \A k \in 0 .. m : f[k] = IF k = 0 THEN <<>> ELSE Step(f[k - 1], k)
    <3> HIDE DEF Step
    <3> QED BY <1>5, <2>1, <2>2 DEF IsRun
  <2>4. f = [k \in 0 .. m |-> f[k]]
    BY <1>5 DEF IsRun
  <2> QED BY <2>3, <2>4
<1>7. Loop(h)
  BY <1>6
<1> HIDE DEF h
<1>8. /\ h = [k \in 0 .. m |-> h[k]] /\ h[0] = <<>>
      /\ \A k \in 1 .. m : h[k] = Step(h[k - 1], k)
  <2> DEFINE E == [k \in 0 .. m |-> IF k = 0 THEN <<>> ELSE Step(h[k - 1], k)]
  <2>1. h = E
    BY <1>7
  <2> HIDE DEF Step
  <2>2. /\ E = [k \in 0 .. m |-> E[k]]
        /\ \A k \in 0 .. m : E[k] = IF k = 0 THEN <<>> ELSE Step(h[k - 1], k)
    OBVIOUS
  <2> HIDE DEF E
  <2>3. 0 \in 0 .. m /\ \A k \in 1 .. m : k # 0 /\ k \in 0 .. m
    BY <1>1
  <2> QED BY <2>1, <2>2, <2>3
<1> HIDE DEF Step
<1>9. \A k \in 1 .. m : h[k - 1] \in S => h[k] = F[k][h[k - 1]]
  BY <1>3, <1>8
<1>10. IsRun(h, F, m, S, <<>>)
  BY <1>1, <1>W, <1>2, <1>8, <1>9, RunOf
<1>11. h[m] \in S
  BY <1>1, <1>10 DEF IsRun
<1> QED BY <1>4, <1>11 DEF S

LEMMA BoardInsertTrue ==
    ASSUME NEW g, NEW board \in Seq(TrueBlocks(g)), NEW b \in TrueBlocks(g)
    PROVE  BoardInsert(board, b) \in Seq(TrueBlocks(g))
<1> DEFINE S == TrueBlocks(g)
           n == Len(board)
           touching == {i \in DOMAIN board : Touch(b, board[i])}
<1>0. n \in Nat /\ DOMAIN board = 1 .. n /\ \A i \in 1 .. n : board[i] \in S
  BY LenProperties, ElementOfSeq
<1>1. CASE touching # {}
  <2> DEFINE i == Min(touching)
  <2>1. \A j \in touching : j \in Nat /\ j \in 1 .. n /\ Touch(b, board[j])
    BY <1>0
  <2>2. i \in touching
    <3> HIDE DEF touching
    <3>1. touching \in SUBSET Nat
      BY <2>1
    <3> QED BY <1>1, <3>1, MinIn
  <2>3. BoardInsert(board, b) = Collapse([board EXCEPT ![i] = Union(board[i], b)])
    BY <1>1 DEF BoardInsert
  <2> HIDE DEF i, touching
  <2>4. Union(board[i], b) \in S
    BY <1>0, <2>1, <2>2, UnionTrue
  <2>5. [board EXCEPT ![i] = Union(board[i], b)] \in Seq(S)
    BY <2>1, <2>2, <2>4, PutType
  <2> QED BY <2>3, <2>5, CollapseTrue
<1>2. CASE touching = {}
  <2> DEFINE kept == IF n < BoardSize THEN board ELSE Tail(board)
  <2>1. kept \in Seq(S)
    <3>1. CASE n < BoardSize
      BY <3>1
    <3>2. CASE ~(n < BoardSize)
      <4>1. n # 0
        BY <3>2, LossParams
      <4>2. board # <<>>
        BY <4>1, EmptySeq
      <4>3. Tail(board) \in Seq(S)
        BY <4>2, HeadTailProperties
      <4> QED BY <3>2, <4>3
    <3> QED BY <3>1, <3>2
  <2>2. BoardInsert(board, b) = Append(kept, b)
    BY <1>2 DEF BoardInsert
  <2> HIDE DEF kept
  <2> QED BY <2>1, <2>2, AppendProperties
<1> QED BY <1>1, <1>2

LEMMA BoardPruneTrue ==
    ASSUME NEW g, NEW board \in Seq(TrueBlocks(g)), NEW u \in 0 .. MaxSegs
    PROVE  BoardPrune(board, SeqNo(u)) \in Seq(TrueBlocks(g))
<1> DEFINE una == SeqNo(u)
           S == TrueBlocks(g)
           T == {b \in S : ~SeqLe(b.right, una)}
           drop == {i \in DOMAIN board : SeqLe(board[i].right, una)}
           kept == Without(board, drop)
           Cut(b) == [b EXCEPT !.left = IF SeqLe(b.left, una) THEN una ELSE b.left]
<1>0. MaxSegs \in Nat
  BY Params
<1>1. ASSUME NEW b \in S PROVE SeqLe(b.right, una) \/ Cut(b) \in S
  <2>1. PICK l, r \in 0 .. MaxSegs : /\ l < r /\ l .. r - 1 \subseteq g
                                     /\ b = [left |-> SeqNo(l), right |-> SeqNo(r)]
                                     /\ b.left = SeqNo(l) /\ b.right = SeqNo(r)
    BY BlockSpan
  <2>2. (SeqLe(b.right, una) <=> r <= u) /\ (SeqLe(b.left, una) <=> l <= u)
    BY <2>1, SeqOrder
  <2> DEFINE x == IF l <= u THEN u ELSE l
  <2>3. Cut(b) = [left |-> SeqNo(x), right |-> SeqNo(r)]
    BY <2>1, <2>2
  <2>4. CASE ~(r <= u)
    <3>1. x \in 0 .. MaxSegs /\ x < r
      BY <1>0, <2>1, <2>4
    <3>2. x .. r - 1 \subseteq g
      <4>1. \A i \in x .. r - 1 : i \in l .. r - 1
        BY <1>0, <2>1
      <4> QED BY <2>1, <4>1
    <3> HIDE DEF x, Cut
    <3> QED BY <2>1, <2>3, <3>1, <3>2, SpanBlock
  <2> QED BY <2>2, <2>4
<1>2. kept \in Seq(T)
  <2>1. Len(board) \in Nat /\ DOMAIN board = 1 .. Len(board)
        /\ \A i \in 1 .. Len(board) : board[i] \in S
    BY LenProperties, ElementOfSeq
  <2>2. \A k \in 1 .. Len(board) : k \in drop \/ board[k] \in T
    BY <2>1
  <2> HIDE DEF drop, T
  <2> QED BY <2>1, <2>2, WithoutType
<1>3. BoardPrune(board, una) = [i \in DOMAIN kept |-> Cut(kept[i])]
  BY DEF BoardPrune
<1>4. \A b \in T : Cut(b) \in S
  BY <1>1
<1> HIDE DEF T, kept, Cut, S
<1>5. Len(kept) \in Nat /\ DOMAIN kept = 1 .. Len(kept) /\ \A i \in 1 .. Len(kept) : kept[i] \in T
  BY <1>2, LenProperties, ElementOfSeq
<1>6. [i \in DOMAIN kept |-> Cut(kept[i])] \in [1 .. Len(kept) -> S]
  BY <1>4, <1>5
<1>7. [i \in DOMAIN kept |-> Cut(kept[i])] \in Seq(S)
  BY <1>5, <1>6, SeqFun
<1> QED BY <1>3, <1>7 DEF S

-----------------------------------------------------------------------------
\* What the sender believes.

\* The entries of the retransmission queue of a sender that has sent m segments
\* until time t: an entry is marked as SACKed only if the peer holds it.
Entries(t) == [seq : Int, xmit_ts : Int, first_tx : Grain .. t, xmit_count : Int,
               sacked : BOOLEAN, lost : BOOLEAN]
Numbered(e, g, m) == \E k \in 0 .. m - 1 : e.seq = SeqNo(k) /\ (e.sacked => k \in g)
TrueEntries(g, m, t) == {e \in Entries(t) : Numbered(e, g, m)}

Probes == [seq : Int, tx_ts : Int, attributed : BOOLEAN]

LEMMA MarkSackedTrue ==
    ASSUME NEW g, NEW m \in 0 .. MaxSegs, NEW t,
           NEW entries \in Seq(TrueEntries(g, m, t)), NEW b \in TrueBlocks(g)
    PROVE  MarkSacked(entries, b) \in Seq(TrueEntries(g, m, t))
<1> DEFINE S == TrueEntries(g, m, t)
           n == Len(entries)
           Mark(e) == IF SeqLt(e.seq, b.right) /\ SeqLt(b.left, EndSeq(e))
                      THEN [e EXCEPT !.sacked = TRUE] ELSE e
<1>0. MaxSegs \in Nat /\ m \in Nat
  BY Params
<1>1. n \in Nat /\ DOMAIN entries = 1 .. n /\ \A i \in 1 .. n : entries[i] \in S
  BY LenProperties, ElementOfSeq
<1>2. PICK l, r \in 0 .. MaxSegs : /\ l < r /\ l .. r - 1 \subseteq g
                                   /\ b.left = SeqNo(l) /\ b.right = SeqNo(r)
  BY BlockSpan
<1>3. ASSUME NEW e \in S PROVE Mark(e) \in S
  <2>1. PICK k \in 0 .. m - 1 : e.seq = SeqNo(k) /\ (e.sacked => k \in g)
    BY DEF TrueEntries, Numbered
  <2>2. k \in 0 .. MaxSegs /\ k + 1 \in 0 .. MaxSegs
    BY <1>0
  <2>3. EndSeq(e) = SeqNo(k + 1)
    BY <2>1, <2>2, SeqBack DEF EndSeq
  <2>4. (SeqLt(e.seq, b.right) <=> k < r) /\ (SeqLt(b.left, EndSeq(e)) <=> l < k + 1)
    BY <1>2, <2>1, <2>2, <2>3, SeqOrder
  <2>5. CASE SeqLt(e.seq, b.right) /\ SeqLt(b.left, EndSeq(e))
    <3>1. k \in l .. r - 1
      BY <1>0, <1>2, <2>2, <2>4, <2>5
    <3>2. k \in g
      BY <1>2, <3>1
    <3>3. [e EXCEPT !.sacked = TRUE] \in Entries(t) /\ [e EXCEPT !.sacked = TRUE].seq = SeqNo(k)
      BY <2>1 DEF TrueEntries, Entries
    <3> QED BY <2>5, <3>2, <3>3 DEF TrueEntries, Numbered
  <2>6. CASE ~(SeqLt(e.seq, b.right) /\ SeqLt(b.left, EndSeq(e)))
    BY <2>6
  <2> QED BY <2>5, <2>6
<1>4. MarkSacked(entries, b) = [i \in 1 .. n |-> Mark(entries[i])]
  BY <1>1 DEF MarkSacked
<1> HIDE DEF Mark, S, n
<1>5. [i \in 1 .. n |-> Mark(entries[i])] \in [1 .. n -> S]
  BY <1>1, <1>3
<1>6. [i \in 1 .. n |-> Mark(entries[i])] \in Seq(S)
  BY <1>1, <1>5, SeqFun
<1> QED BY <1>4, <1>6 DEF S

\* A connection has its fields.
IsConn(c) ==
    c = [una |-> c.una, nxt |-> c.nxt, sent |-> c.sent, entries |-> c.entries,
         board |-> c.board, rack |-> c.rack, ts_recent |-> c.ts_recent, ts_age |-> c.ts_age,
         rto_at |-> c.rto_at, tlp_at |-> c.tlp_at, fired |-> c.fired,
         sample_seen |-> c.sample_seen, probes |-> c.probes]

\* The connections that differ from c at most in what a SACK block changes.
Sacking(c, g, t) ==
    [una : {c.una}, nxt : {c.nxt}, sent : {c.sent}, entries : Seq(TrueEntries(g, c.sent, t)),
     board : Seq(TrueBlocks(g)), rack : {c.rack}, ts_recent : {c.ts_recent}, ts_age : {c.ts_age},
     rto_at : {c.rto_at}, tlp_at : {c.tlp_at}, fired : {c.fired},
     sample_seen : {c.sample_seen}, probes : Seq(Probes)]

LEMMA AttributedIs ==
    ASSUME NEW c, IsConn(c), c.probes \in Seq(Probes), NEW b
    PROVE  \E p \in Seq(Probes) : Attributed(c, b) = [c EXCEPT !.probes = p]
<1> DEFINE srtt == IF est.srtt # 0 THEN est.srtt
                   ELSE IF c.rack.min_rtt # 0 THEN c.rack.min_rtt ELSE ColdSrtt
           within == {i \in DOMAIN c.probes :
                         /\ ~c.probes[i].attributed
                         /\ SeqLe(b.left, c.probes[i].seq)
                         /\ SeqLe((c.probes[i].seq + 1) % Space, b.right)
                         /\ now - c.probes[i].tx_ts < 4 * srtt}
           n == Len(c.probes)
<1>0. n \in Nat /\ DOMAIN c.probes = 1 .. n /\ \A i \in 1 .. n : c.probes[i] \in Probes
  BY LenProperties, ElementOfSeq
<1>1. Attributed(c, b) = IF within = {} THEN c
                         ELSE [c EXCEPT !.probes[Min(within)].attributed = TRUE]
  BY Zenon DEF Attributed
<1>2. \A i \in within : i \in 1 .. n
  BY <1>0
<1> HIDE DEF within
<1>3. CASE within = {}
  <2>1. c = [c EXCEPT !.probes = c.probes]
    BY DEF IsConn
  <2> QED BY <1>1, <1>3, <2>1
<1>4. CASE within # {}
  <2> DEFINE i == Min(within)
             p == [c.probes EXCEPT ![i] = [c.probes[i] EXCEPT !.attributed = TRUE]]
  <2>1. i \in 1 .. n
    <3>1. within \in SUBSET Nat
      BY <1>0, <1>2
    <3> QED BY <1>2, <1>4, <3>1, MinIn
  <2>2. Attributed(c, b) = [c EXCEPT !.probes = p]
    BY <1>1, <1>4
  <2> HIDE DEF i
  <2>3. [c.probes[i] EXCEPT !.attributed = TRUE] \in Probes
    BY <1>0, <2>1 DEF Probes
  <2>4. p \in Seq(Probes)
    BY <2>1, <2>3, PutType
  <2> QED BY <2>2, <2>4
<1> QED BY <1>3, <1>4

LEMMA SackingConn ==
    ASSUME NEW c, NEW g, NEW t, NEW d \in Sacking(c, g, t)
    PROVE  /\ IsConn(d) /\ d.una = c.una /\ d.nxt = c.nxt /\ d.sent = c.sent
           /\ d.ts_recent = c.ts_recent /\ d.ts_age = c.ts_age
           /\ d.entries \in Seq(TrueEntries(g, c.sent, t))
           /\ d.board \in Seq(TrueBlocks(g)) /\ d.probes \in Seq(Probes)
  BY DEF Sacking, IsConn

LEMMA SackBlockTrue ==
    ASSUME NEW c, NEW g, NEW t, c.sent \in 0 .. MaxSegs,
           NEW d \in Sacking(c, g, t), NEW b \in TrueBlocks(g)
    PROVE  SackBlock(d, b) \in Sacking(c, g, t)
<1>0. /\ IsConn(d) /\ d.una = c.una /\ d.nxt = c.nxt /\ d.sent = c.sent
      /\ d.entries \in Seq(TrueEntries(g, c.sent, t))
      /\ d.board \in Seq(TrueBlocks(g)) /\ d.probes \in Seq(Probes)
  BY SackingConn
<1>1. CASE IsDsack(b, d)
  <2>1. SackBlock(d, b) = Attributed(d, b)
    BY <1>1 DEF SackBlock
  <2>2. PICK p \in Seq(Probes) : Attributed(d, b) = [d EXCEPT !.probes = p]
    BY <1>0, AttributedIs
  <2>3. [d EXCEPT !.probes = p] \in Sacking(c, g, t)
    BY DEF Sacking
  <2> QED BY <2>1, <2>2, <2>3
<1>2. CASE ~IsDsack(b, d)
  <2> DEFINE x == BoardInsert(d.board, b)
             y == MarkSacked(d.entries, b)
  <2>1. SackBlock(d, b) = [d EXCEPT !.board = x, !.entries = y]
    BY <1>2 DEF SackBlock
  <2>2. x \in Seq(TrueBlocks(g))
    BY <1>0, BoardInsertTrue
  <2>3. y \in Seq(TrueEntries(g, c.sent, t))
    BY <1>0, MarkSackedTrue
  <2> HIDE DEF x, y
  <2>4. [d EXCEPT !.board = x, !.entries = y] \in Sacking(c, g, t)
    BY <2>2, <2>3 DEF Sacking
  <2> QED BY <2>1, <2>4
<1> QED BY <1>1, <1>2

LEMMA SackBlocksTrue ==
    ASSUME NEW c, NEW g, NEW t, c.sent \in 0 .. MaxSegs, c \in Sacking(c, g, t),
           NEW blocks \in Seq(TrueBlocks(g))
    PROVE  SackBlocksTaken(c, blocks) \in Sacking(c, g, t)
<1> DEFINE m == Len(blocks)
           S == Sacking(c, g, t)
           F == [k \in 1 .. m |-> [v \in S |-> SackBlock(v, blocks[k])]]
           Loop(f) == f = [k \in 0 .. m |-> IF k = 0 THEN c ELSE SackBlock(f[k - 1], blocks[k])]
           h == CHOOSE f : Loop(f)
<1>1. m \in Nat /\ \A k \in 1 .. m : blocks[k] \in TrueBlocks(g)
  BY LenProperties, ElementOfSeq
<1>2. Steps(F, m, S)
  <2>1. \A k \in 1 .. m, v \in S : SackBlock(v, blocks[k]) \in S
    BY <1>1, SackBlockTrue
  <2> HIDE DEF S
  <2> QED BY <2>1 DEF Steps
<1>3. \A k \in 1 .. m, v \in S : F[k][v] = SackBlock(v, blocks[k])
  OBVIOUS
<1>4. SackBlocksTaken(c, blocks) = h[m]
  BY DEF SackBlocksTaken
<1>W. c \in S
  OBVIOUS
<1> HIDE DEF F, S, m
<1>5. PICK f : IsRun(f, F, m, S, c)
  BY <1>1, <1>W, <1>2, Iterates
<1>6. Loop(f)
  <2>1. ASSUME NEW k \in 1 .. m PROVE f[k] = SackBlock(f[k - 1], blocks[k])
    <3>1. k - 1 \in 0 .. m
      BY <1>1
    <3>2. f[k - 1] \in S /\ f[k] = F[k][f[k - 1]]
      BY <1>5, <3>1 DEF IsRun
    <3> QED BY <1>3, <3>2
  <2>2. \A k \in 0 .. m : k = 0 \/ k \in 1 .. m
    BY <1>1
  <2>3. \A k \in 0 .. m : f[k] = IF k = 0 THEN c ELSE SackBlock(f[k - 1], blocks[k])
    BY <1>5, <2>1, <2>2 DEF IsRun
  <2>4. f = [k \in 0 .. m |-> f[k]]
    BY <1>5 DEF IsRun
  <2> QED BY <2>3, <2>4
<1>7. Loop(h)
  BY <1>6
<1> HIDE DEF h
<1>8. /\ h = [k \in 0 .. m |-> h[k]] /\ h[0] = c
      /\ \A k \in 1 .. m : h[k] = SackBlock(h[k - 1], blocks[k])
  <2> DEFINE E == [k \in 0 .. m |-> IF k = 0 THEN c ELSE SackBlock(h[k - 1], blocks[k])]
  <2>1. h = E
    BY <1>7
  <2>2. /\ E = [k \in 0 .. m |-> E[k]]
        /\ \A k \in 0 .. m : E[k] = IF k = 0 THEN c ELSE SackBlock(h[k - 1], blocks[k])
    OBVIOUS
  <2> HIDE DEF E
  <2>3. 0 \in 0 .. m /\ \A k \in 1 .. m : k # 0 /\ k \in 0 .. m
    BY <1>1
  <2> QED BY <2>1, <2>2, <2>3
<1>9. \A k \in 1 .. m : h[k - 1] \in S => h[k] = F[k][h[k - 1]]
  BY <1>3, <1>8
<1>10. IsRun(h, F, m, S, c)
  BY <1>1, <1>W, <1>2, <1>8, <1>9, RunOf
<1>11. h[m] \in S
  BY <1>1, <1>10 DEF IsRun
<1> QED BY <1>4, <1>11 DEF S

\* The cumulative ACK.
Acked(una, g, m) == \E u \in 0 .. m : una = SeqNo(u) /\ 0 .. u - 1 \subseteq g

Believes(c, g, t) ==
    /\ IsConn(c) /\ c.sent \in 0 .. MaxSegs /\ c.nxt = SeqNo(c.sent) /\ Acked(c.una, g, c.sent)
    /\ c.entries \in Seq(TrueEntries(g, c.sent, t)) /\ c.board \in Seq(TrueBlocks(g))
    /\ c.probes \in Seq(Probes)

\* Steps that touch neither the queue, the board nor what is acknowledged.
Same(c, d) ==
    /\ IsConn(d) /\ d.una = c.una /\ d.nxt = c.nxt /\ d.sent = c.sent /\ d.entries = c.entries
    /\ d.board = c.board /\ d.probes = c.probes /\ d.ts_recent = c.ts_recent

LEMMA SameTrue ==
    ASSUME NEW c, NEW d, NEW g, NEW t, Believes(c, g, t), Same(c, d)
    PROVE  Believes(d, g, t)
  BY DEF Believes, Same

LEMMA SameTrans ==
    ASSUME NEW c, NEW d, NEW e, Same(c, d), Same(d, e)
    PROVE  Same(c, e)
  BY DEF Same

LEMMA PutField ==
    ASSUME NEW c, IsConn(c), NEW x
    PROVE  /\ Same(c, [c EXCEPT !.tlp_at = x]) /\ Same(c, [c EXCEPT !.rto_at = x])
           /\ Same(c, [c EXCEPT !.rack = x]) /\ Same(c, [c EXCEPT !.fired = x])
           /\ Same(c, [c EXCEPT !.sample_seen = x])
<1>1. Same(c, [c EXCEPT !.tlp_at = x])
  BY DEF IsConn, Same
<1>2. Same(c, [c EXCEPT !.rto_at = x])
  BY DEF IsConn, Same
<1>3. Same(c, [c EXCEPT !.sample_seen = x])
  BY DEF IsConn, Same
<1>4. Same(c, [c EXCEPT !.rack = x])
  BY DEF IsConn, Same
<1>5. Same(c, [c EXCEPT !.fired = x])
  BY DEF IsConn, Same
<1> QED BY <1>1, <1>2, <1>3, <1>4, <1>5

LEMMA PutFields ==
    ASSUME NEW c, IsConn(c), NEW x, NEW y, NEW z
    PROVE  /\ Same(c, [c EXCEPT !.rto_at = x, !.tlp_at = y])
           /\ Same(c, [c EXCEPT !.rack = x, !.fired = y, !.sample_seen = z])
           /\ Same(c, c)
<1>1. Same(c, [c EXCEPT !.rto_at = x, !.tlp_at = y])
  <2> DEFINE d == [c EXCEPT !.rto_at = x]
  <2>1. Same(c, d) /\ IsConn(d)
    <3>1. Same(c, d)
      BY PutField
    <3> QED BY <3>1 DEF Same
  <2>2. [c EXCEPT !.rto_at = x, !.tlp_at = y] = [d EXCEPT !.tlp_at = y]
    OBVIOUS
  <2> HIDE DEF d
  <2>3. Same(d, [d EXCEPT !.tlp_at = y])
    BY <2>1, PutField
  <2>4. Same(c, [d EXCEPT !.tlp_at = y])
    BY <2>1, <2>3, SameTrans
  <2> QED BY <2>2, <2>4
<1>2. Same(c, [c EXCEPT !.rack = x, !.fired = y, !.sample_seen = z])
  <2> DEFINE d == [c EXCEPT !.rack = x]
             e == [d EXCEPT !.fired = y]
             f == [e EXCEPT !.sample_seen = z]
  <2>1. Same(c, d) /\ IsConn(d)
    <3>1. Same(c, d)
      BY PutField
    <3> QED BY <3>1 DEF Same
  <2>2. [c EXCEPT !.rack = x, !.fired = y, !.sample_seen = z] = f
    OBVIOUS
  <2> HIDE DEF d
  <2>3. Same(d, e)
    BY <2>1, PutField
  <2> HIDE DEF e
  <2>4. Same(e, f)
    <3>1. IsConn(e)
      BY <2>3 DEF Same
    <3> QED BY <3>1, PutField
  <2> HIDE DEF f
  <2>5. Same(c, f)
    BY <2>1, <2>3, <2>4, SameTrans
  <2> QED BY <2>2, <2>5
<1>3. Same(c, c)
  BY DEF Same
<1> QED BY <1>1, <1>2, <1>3

LEMMA ArmTlpSame ==
    ASSUME NEW c, IsConn(c), NEW e
    PROVE  Same(c, ArmTlp(c, e))
<1> DEFINE x == now + PtoUs(c, e.srtt)
<1>1. ArmTlp(c, e) = c \/ ArmTlp(c, e) = [c EXCEPT !.tlp_at = x]
  BY Zenon DEF ArmTlp
<1> HIDE DEF x
<1>2. Same(c, c) /\ Same(c, [c EXCEPT !.tlp_at = x])
  BY PutField, PutFields
<1> QED BY <1>1, <1>2

LEMMA RestartedSame ==
    ASSUME NEW c, IsConn(c), NEW e
    PROVE  Same(c, Restarted(c, e))
<1> DEFINE x == now + e.rto
<1>1. \/ Restarted(c, e) = c \/ Restarted(c, e) = [c EXCEPT !.rto_at = x]
      \/ Restarted(c, e) = [c EXCEPT !.rto_at = NoTimer, !.tlp_at = NoTimer]
  BY Zenon DEF Restarted
<1> HIDE DEF x
<1>2. /\ Same(c, c) /\ Same(c, [c EXCEPT !.rto_at = x])
      /\ Same(c, [c EXCEPT !.rto_at = NoTimer, !.tlp_at = NoTimer])
  BY PutField, PutFields
<1> QED BY <1>1, <1>2

LEMMA SampledSame ==
    ASSUME NEW c, IsConn(c), NEW rtt
    PROVE  Same(c, Sampled(c, rtt))
<1> DEFINE x == [c.rack EXCEPT !.min_rtt = IF c.rack.min_rtt = 0 \/ rtt < c.rack.min_rtt THEN rtt
                                          ELSE c.rack.min_rtt]
<1>1. \/ Sampled(c, rtt) = [c EXCEPT !.fired = 0]
      \/ Sampled(c, rtt) = [c EXCEPT !.rack = x, !.fired = 0, !.sample_seen = TRUE]
  BY DEF Sampled, IsConn
<1> HIDE DEF x
<1>2. Same(c, [c EXCEPT !.fired = 0]) /\ Same(c, [c EXCEPT !.rack = x, !.fired = 0, !.sample_seen = TRUE])
  BY PutField, PutFields
<1> QED BY <1>1, <1>2

LEMMA RackSeenSame ==
    ASSUME NEW c, IsConn(c)
    PROVE  Same(c, RackSeen(c))
<1>1. PICK x : RackSeen(c) = [c EXCEPT !.rack = x]
  BY DEF RackSeen
<1>2. Same(c, [c EXCEPT !.rack = x])
  BY PutField
<1> QED BY <1>1, <1>2

\* A retransmission keeps the number of an entry and its first transmission.
LEMMA SentAgainIs ==
    ASSUME NEW t, NEW e \in Entries(t), now \in Int
    PROVE  /\ SentAgain(e) \in Entries(t)
           /\ SentAgain(e).seq = e.seq /\ SentAgain(e).sacked = e.sacked
<1> DEFINE x == e.xmit_count + 1
           a == [e EXCEPT !.xmit_count = x]
           b == [a EXCEPT !.xmit_ts = now]
           d == [b EXCEPT !.lost = FALSE]
<1>0. x \in Int
  BY DEF Entries
<1> HIDE DEF x
<1>1. a \in Entries(t) /\ a.seq = e.seq /\ a.sacked = e.sacked
  BY <1>0 DEF Entries
<1>2. SentAgain(e) = d
  BY DEF SentAgain, x
<1> HIDE DEF a
<1>3. b \in Entries(t) /\ b.seq = e.seq /\ b.sacked = e.sacked
  BY <1>1 DEF Entries
<1> HIDE DEF b
<1>4. d \in Entries(t) /\ d.seq = e.seq /\ d.sacked = e.sacked
  BY <1>3 DEF Entries
<1> HIDE DEF d
<1> QED BY <1>2, <1>4

LEMMA ResentTrue ==
    ASSUME NEW c, NEW g, NEW t, Believes(c, g, t), NEW is, now \in Int
    PROVE  /\ Believes(Resent(c, is), g, t) /\ Resent(c, is).ts_recent = c.ts_recent
           /\ Resent(c, is).sent = c.sent /\ Resent(c, is).una = c.una
           /\ DOMAIN Resent(c, is).entries = DOMAIN c.entries
<1> DEFINE S == TrueEntries(g, c.sent, t)
           n == Len(c.entries)
           f == [i \in 1 .. n |-> IF i \in is THEN SentAgain(c.entries[i]) ELSE c.entries[i]]
<1>1. n \in Nat /\ DOMAIN c.entries = 1 .. n /\ \A i \in 1 .. n : c.entries[i] \in S
  BY LenProperties, ElementOfSeq DEF Believes
<1>2. ASSUME NEW e \in S PROVE SentAgain(e) \in S
  <2>1. e \in Entries(t) /\ Numbered(e, g, c.sent)
    BY DEF TrueEntries
  <2>2. /\ SentAgain(e) \in Entries(t)
        /\ SentAgain(e).seq = e.seq /\ SentAgain(e).sacked = e.sacked
    BY <2>1, SentAgainIs
  <2>3. \A d : d \in Entries(t) /\ d.seq = e.seq /\ d.sacked = e.sacked => d \in S
    BY <2>1 DEF Numbered, TrueEntries
  <2> HIDE DEF S
  <2> QED BY <2>2, <2>3
<1>3. Resent(c, is) = [c EXCEPT !.entries = f]
  BY <1>1 DEF Resent
<1> HIDE DEF S, n
<1>4. f \in [1 .. n -> S]
  BY <1>1, <1>2
<1>5. f \in Seq(S)
  BY <1>1, <1>4, SeqFun
<1>6. DOMAIN f = DOMAIN c.entries
  BY <1>1
<1> HIDE DEF f
<1>7. IsConn(c)
  BY DEF Believes
<1> DEFINE d == [c EXCEPT !.entries = f]
<1>8. /\ IsConn(d) /\ d.una = c.una /\ d.nxt = c.nxt /\ d.sent = c.sent /\ d.board = c.board
      /\ d.probes = c.probes /\ d.ts_recent = c.ts_recent /\ d.entries = f
  BY <1>7 DEF IsConn
<1> HIDE DEF d
<1>9. Believes(d, g, t)
  BY <1>5, <1>8 DEF Believes, S
<1> QED BY <1>3, <1>6, <1>8, <1>9 DEF d

LEMMA PrunedTrue ==
    ASSUME NEW c, NEW g, NEW t, Believes(c, g, t)
    PROVE  /\ Believes(Pruned(c), g, t) /\ Pruned(c).ts_recent = c.ts_recent
           /\ Pruned(c).sent = c.sent
<1> DEFINE S == TrueEntries(g, c.sent, t)
           f == Without(c.entries, {i \in DOMAIN c.entries : SeqLe(EndSeq(c.entries[i]), c.una)})
<1>1. Len(c.entries) \in Nat /\ \A i \in 1 .. Len(c.entries) : c.entries[i] \in S
  BY LenProperties, ElementOfSeq DEF Believes
<1>2. Pruned(c) = [c EXCEPT !.entries = f]
  BY DEF Pruned
<1> HIDE DEF S
<1>3. f \in Seq(S)
  BY <1>1, WithoutType
<1> HIDE DEF f
<1> QED BY <1>2, <1>3 DEF Believes, IsConn, S

\* The left edge moves up to an ACK of what was sent.
LEMMA AdvancedTrue ==
    ASSUME NEW c, NEW g, NEW t, Believes(c, g, t), NEW k \in 0 .. MaxSegs, 0 .. k - 1 \subseteq g,
           SeqLe(SeqNo(k), c.nxt)
    PROVE  /\ Believes([c EXCEPT !.una = SeqNo(k)], g, t)
           /\ [c EXCEPT !.una = SeqNo(k)].ts_recent = c.ts_recent
           /\ [c EXCEPT !.una = SeqNo(k)].sent = c.sent
           /\ [c EXCEPT !.una = SeqNo(k)].entries = c.entries
<1>1. k <= c.sent
  BY SeqOrder DEF Believes
<1>2. Acked(SeqNo(k), g, c.sent)
  <2>1. k \in 0 .. c.sent
    BY <1>1, Params DEF Believes
  <2> QED BY <2>1 DEF Acked
<1> DEFINE d == [c EXCEPT !.una = SeqNo(k)]
<1>3. IsConn(c)
  BY DEF Believes
<1>4. /\ IsConn(d) /\ d.una = SeqNo(k) /\ d.nxt = c.nxt /\ d.sent = c.sent /\ d.board = c.board
      /\ d.probes = c.probes /\ d.ts_recent = c.ts_recent /\ d.entries = c.entries
  BY <1>3 DEF IsConn
<1> HIDE DEF d
<1>5. Believes(d, g, t)
  BY <1>2, <1>4 DEF Believes
<1> QED BY <1>4, <1>5 DEF d

LEMMA PrunedBoardTrue ==
    ASSUME NEW c, NEW g, NEW t, Believes(c, g, t), NEW k \in 0 .. MaxSegs
    PROVE  /\ Believes([c EXCEPT !.board = BoardPrune(c.board, SeqNo(k))], g, t)
           /\ [c EXCEPT !.board = BoardPrune(c.board, SeqNo(k))].ts_recent = c.ts_recent
           /\ [c EXCEPT !.board = BoardPrune(c.board, SeqNo(k))].sent = c.sent
<1> DEFINE b == BoardPrune(c.board, SeqNo(k))
<1>1. b \in Seq(TrueBlocks(g))
  BY BoardPruneTrue DEF Believes
<1> DEFINE d == [c EXCEPT !.board = b]
<1> HIDE DEF b
<1>2. IsConn(c)
  BY DEF Believes
<1>3. /\ IsConn(d) /\ d.una = c.una /\ d.nxt = c.nxt /\ d.sent = c.sent /\ d.board = b
      /\ d.probes = c.probes /\ d.ts_recent = c.ts_recent /\ d.entries = c.entries
  BY <1>2 DEF IsConn
<1> HIDE DEF d
<1>4. Believes(d, g, t)
  BY <1>1, <1>3 DEF Believes
<1> QED BY <1>3, <1>4 DEF b, d

\* What is true stays true.
LEMMA SeqMono ==
    ASSUME NEW S, NEW T, S \subseteq T, NEW s \in Seq(S)
    PROVE  s \in Seq(T)
<1>1. Len(s) \in Nat /\ s \in [1 .. Len(s) -> S]
  BY LenProperties
<1>2. s \in [1 .. Len(s) -> T]
  BY <1>1
<1> QED BY <1>1, <1>2, SeqFun

LEMMA BlocksMono ==
    ASSUME NEW g, NEW h, g \subseteq h
    PROVE  TrueBlocks(g) \subseteq TrueBlocks(h)
<1>1. Spans(g) \subseteq Spans(h)
  BY DEF Spans
<1> QED BY <1>1 DEF TrueBlocks

LEMMA EntriesMono ==
    ASSUME NEW g, NEW h, g \subseteq h, NEW m \in Nat, NEW n \in Nat, m <= n,
           NEW t \in Nat, NEW u \in Nat, t <= u
    PROVE  TrueEntries(g, m, t) \subseteq TrueEntries(h, n, u)
<1> SUFFICES ASSUME NEW e \in TrueEntries(g, m, t) PROVE e \in TrueEntries(h, n, u)
  OBVIOUS
<1>1. e \in Entries(t) /\ Numbered(e, g, m)
  BY DEF TrueEntries
<1>2. Grain .. t \subseteq Grain .. u
  BY Params
<1>3. e \in Entries(u)
  BY <1>1, <1>2 DEF Entries
<1>4. PICK k \in 0 .. m - 1 : e.seq = SeqNo(k) /\ (e.sacked => k \in g)
  BY <1>1 DEF Numbered
<1>5. k \in 0 .. n - 1
  OBVIOUS
<1>6. Numbered(e, h, n)
  BY <1>4, <1>5 DEF Numbered
<1> QED BY <1>3, <1>6 DEF TrueEntries

LEMMA BelievesMono ==
    ASSUME NEW c, NEW g, NEW h, g \subseteq h, NEW t \in Nat, NEW u \in Nat, t <= u, Believes(c, g, t)
    PROVE  Believes(c, h, u)
<1>0. c.sent \in Nat /\ c.sent <= c.sent
  BY Params DEF Believes
<1>1. c.entries \in Seq(TrueEntries(h, c.sent, u))
  <2>1. TrueEntries(g, c.sent, t) \subseteq TrueEntries(h, c.sent, u)
    BY <1>0, EntriesMono
  <2> QED BY <2>1, SeqMono DEF Believes
<1>2. c.board \in Seq(TrueBlocks(h))
  BY BlocksMono, SeqMono DEF Believes
<1>3. Acked(c.una, h, c.sent)
  BY DEF Believes, Acked
<1> QED BY <1>1, <1>2, <1>3 DEF Believes
-----------------------------------------------------------------------------
\* The ACKs.

\* An ACK that the peer sends when it holds the segments g, at time t or before:
\* it echoes a timestamp of ours, or none.
Echoed(y, t) == y = 0 \/ \E z \in Grain .. t : y = (Clock0 + z) % Space

TrueAck(a, g, t) ==
    \E k \in 0 .. MaxSegs, ts \in Nat \X Nat, blocks \in Seq(TrueBlocks(g)) :
       /\ a.ack = SeqNo(k) /\ 0 .. k - 1 \subseteq g /\ IsTs(ts) /\ Echoed(ts[2], t)
       /\ Len(blocks) <= 3 /\ a.opts = AckOptions(ts, blocks)

LEMMA BlocksWellFormed ==
    ASSUME NEW g, NEW blocks \in Seq(TrueBlocks(g))
    PROVE  IsBlocks(blocks)
<1>1. ASSUME NEW b \in TrueBlocks(g) PROVE IsBlock(b)
  <2>1. PICK l, r \in 0 .. MaxSegs : b = [left |-> SeqNo(l), right |-> SeqNo(r)]
                                     /\ b.left = SeqNo(l) /\ b.right = SeqNo(r)
    BY BlockSpan
  <2>2. IsU32(SeqNo(l)) /\ IsU32(SeqNo(r))
    BY SeqBack
  <2> QED BY <2>1, <2>2 DEF IsBlock
<1>2. Len(blocks) \in Nat /\ \A i \in 1 .. Len(blocks) : blocks[i] \in TrueBlocks(g)
  BY LenProperties, ElementOfSeq
<1>3. blocks = [i \in 1 .. Len(blocks) |-> blocks[i]]
  BY LenProperties
<1> QED BY <1>1, <1>2, <1>3 DEF IsBlocks

\* What the sender reads from such an ACK.
LEMMA AckHeard ==
    ASSUME NEW a, NEW g, NEW t, NEW k \in 0 .. MaxSegs, NEW ts, NEW blocks \in Seq(TrueBlocks(g)),
           IsTs(ts), Len(blocks) <= 3, a.opts = AckOptions(ts, blocks)
    PROVE  /\ ParseOptions(a.opts).timestamps = ts
           /\ ParseOptions(a.opts).sack_blocks = blocks
<1>1. Len(blocks) <= MaxSackBlocks
  BY LenProperties DEF MaxSackBlocks
<1>2. IsBlocks(blocks)
  BY BlocksWellFormed
<1> QED BY <1>1, <1>2, OptionsRoundTrip DEF Heard

LEMMA EchoedMono ==
    ASSUME NEW y, NEW t \in Nat, NEW u \in Nat, t <= u, Echoed(y, t)
    PROVE  Echoed(y, u)
<1>1. Grain .. t \subseteq Grain .. u
  BY Params
<1> QED BY <1>1 DEF Echoed

LEMMA TrueAckMono ==
    ASSUME NEW a, NEW g, NEW h, g \subseteq h, NEW t \in Nat, NEW u \in Nat, t <= u, TrueAck(a, g, t)
    PROVE  TrueAck(a, h, u)
<1>1. PICK k \in 0 .. MaxSegs, ts \in Nat \X Nat, blocks \in Seq(TrueBlocks(g)) :
         /\ a.ack = SeqNo(k) /\ 0 .. k - 1 \subseteq g /\ IsTs(ts) /\ Echoed(ts[2], t)
         /\ Len(blocks) <= 3 /\ a.opts = AckOptions(ts, blocks)
  BY DEF TrueAck
<1>2. blocks \in Seq(TrueBlocks(h))
  BY BlocksMono, SeqMono
<1>3. Echoed(ts[2], u)
  BY <1>1, EchoedMono
<1>4. 0 .. k - 1 \subseteq h
  BY <1>1
<1> QED BY <1>1, <1>2, <1>3, <1>4, Zenon DEF TrueAck

\* A number is not smaller than what is left of it modulo m.
LEMMA ModLe ==
    ASSUME NEW x \in Nat, NEW m \in Nat \ {0}
    PROVE  x % m \in Nat /\ x % m <= x
<1> DEFINE q == x \div m
           r == x % m
<1>1. r \in 0 .. m - 1 /\ q \in Int /\ x = m * q + r
  BY DivMod
<1> HIDE DEF q, r
<1>2. q >= 0
  <2> SUFFICES ASSUME q <= -1 PROVE FALSE
    BY <1>1
  <2>1. m * q <= - m
    BY <1>1
  <2> QED BY <1>1, <2>1
<1>3. m * q >= 0
  BY <1>1, <1>2
<1>4. r \in Nat /\ r <= x
  BY <1>1, <1>3
<1> QED BY <1>4 DEF r

\* A sample is younger than the connection: an echoed timestamp and the first
\* transmission of an entry are not before the first step of the clock.
LEMMA SampleReal ==
    ASSUME NEW c, NEW opts, NEW g, NEW m, now \in Nat, c.entries \in Seq(TrueEntries(g, m, now)),
           Echoed(opts.timestamps[2], now), RttSample(c, opts) # None
    PROVE  RttSample(c, opts) \in Int /\ RttSample(c, opts) < now
<1>0. ASSUME NEW z \in Grain .. now, NEW x, x = (now - z) % Space, Sane(x) # None
      PROVE  Sane(x) \in Int /\ Sane(x) < now
  <2>1. now - z \in Nat /\ now - z < now
    BY Params
  <2>2. x \in Nat /\ x <= now - z
    BY <1>0, <2>1, Params, ModLe
  <2>3. Sane(x) = x
    BY <1>0 DEF Sane
  <2> QED BY <2>1, <2>2, <2>3
<1>1. ASSUME TsSample(opts) # None PROVE TsSample(opts) \in Int /\ TsSample(opts) < now
  <2> DEFINE y == opts.timestamps[2]
             x == (Stamp(Clock0) - y) % Space
  <2>1. y # 0 /\ TsSample(opts) = Sane(x)
    BY <1>1 DEF TsSample
  <2>2. PICK z \in Grain .. now : y = (Clock0 + z) % Space
    BY <2>1 DEF Echoed
  <2> DEFINE p == Clock0 + now
             q == Clock0 + z
  <2>3. p \in Int /\ q \in Int /\ p - q = now - z /\ q % Space \in Int
    BY Params, DivMod
  <2>4. x = ((p % Space) - (q % Space)) % Space
    BY <2>2 DEF Stamp
  <2> HIDE DEF x, y, p, q
  <2>5. x = (p - (q % Space)) % Space
    BY <2>3, <2>4, Params, WrapLess
  <2>6. (p - (q % Space)) % Space = (p - q) % Space
    BY <2>3, Params, WrapLess
  <2>7. x = (now - z) % Space
    BY <2>3, <2>5, <2>6
  <2> QED BY <1>0, <1>1, <2>1, <2>7
<1>2. ASSUME KarnSample(c) # None PROVE KarnSample(c) \in Int /\ KarnSample(c) < now
  <2> DEFINE z == Head(c.entries).first_tx
             x == (now - z) % Space
  <2>1. c.entries # <<>> /\ KarnSample(c) = Sane(x)
    BY <1>2 DEF KarnSample
  <2>2. z \in Grain .. now
    <3>1. Head(c.entries) \in TrueEntries(g, m, now)
      BY <2>1, HeadTailProperties
    <3> QED BY <3>1 DEF TrueEntries, Entries
  <2> HIDE DEF z
  <2> QED BY <1>0, <1>2, <2>1, <2>2
<1> QED BY <1>1, <1>2 DEF RttSample
-----------------------------------------------------------------------------
\* handle_established.

\* A segment of a sender that has sent m until time t.
Sent(s, m, t) == /\ \E k \in 0 .. m - 1 : s.seq = SeqNo(k)
                 /\ \E z \in Grain .. t : s.tsval = (Clock0 + z) % Space

LEMMA FramesSent ==
    ASSUME NEW c, NEW g, NEW t, Believes(c, g, t), NEW is, is \subseteq DOMAIN c.entries,
           now \in Nat, Grain <= now
    PROVE  \A s \in Frames(c, is) : Sent(s, c.sent, now)
<1> SUFFICES ASSUME NEW i \in is
             PROVE  Sent([seq |-> c.entries[i].seq, tsval |-> Stamp(Clock0)], c.sent, now)
  BY DEF Frames
<1>1. c.entries[i] \in TrueEntries(g, c.sent, t)
  BY LenProperties, ElementOfSeq DEF Believes
<1>2. PICK k \in 0 .. c.sent - 1 : c.entries[i].seq = SeqNo(k)
  BY <1>1 DEF TrueEntries, Numbered
<1>3. now \in Grain .. now /\ Stamp(Clock0) = (Clock0 + now) % Space
  BY Params DEF Stamp
<1> QED BY <1>2, <1>3 DEF Sent

LEMMA TransmitIs ==
    ASSUME NEW F, Transmit(F)
    PROVE  \A s \in segs' : s \in segs \/ s \in F
  BY DEF Transmit

\* The state of the connection through the steps of an ACK that stamps x.
Through(d, g, m, x) == Believes(d, g, now) /\ d.sent = m /\ d.ts_recent = x

LEMMA ThroughSame ==
    ASSUME NEW c, NEW d, NEW g, NEW m, NEW x, Through(c, g, m, x), Same(c, d)
    PROVE  Through(d, g, m, x)
<1>1. Believes(d, g, now)
  BY SameTrue DEF Through
<1> QED BY <1>1 DEF Through, Same

LEMMA ThroughConn ==
    ASSUME NEW c, NEW g, NEW m, NEW x, Through(c, g, m, x)
    PROVE  IsConn(c)
  BY DEF Through, Believes

\* The SACK blocks of an ACK.
LEMMA StampedSacked ==
    ASSUME NEW g, Believes(conn, g, now), NEW x, NEW blocks \in Seq(TrueBlocks(g))
    PROVE  Through(SackBlocksTaken([conn EXCEPT !.ts_recent = x, !.ts_age = now], blocks),
                   g, conn.sent, x)
<1> DEFINE a == [conn EXCEPT !.ts_recent = x]
           c == [a EXCEPT !.ts_age = now]
           d == SackBlocksTaken(c, blocks)
<1>0. IsConn(conn)
  BY DEF Believes
<1>1. /\ IsConn(a) /\ a.una = conn.una /\ a.nxt = conn.nxt /\ a.sent = conn.sent
      /\ a.board = conn.board /\ a.probes = conn.probes /\ a.ts_recent = x
      /\ a.entries = conn.entries
  BY <1>0 DEF IsConn
<1>2. [conn EXCEPT !.ts_recent = x, !.ts_age = now] = c
  OBVIOUS
<1> HIDE DEF a
<1>3. /\ IsConn(c) /\ c.una = conn.una /\ c.nxt = conn.nxt /\ c.sent = conn.sent
      /\ c.board = conn.board /\ c.probes = conn.probes /\ c.ts_recent = x
      /\ c.entries = conn.entries
  BY <1>1 DEF IsConn
<1> HIDE DEF c
<1>4. c.sent \in 0 .. MaxSegs
  BY <1>3 DEF Believes
<1>5. c \in Sacking(c, g, now)
  <2>1. /\ c.entries \in Seq(TrueEntries(g, c.sent, now)) /\ c.board \in Seq(TrueBlocks(g))
        /\ c.probes \in Seq(Probes)
    BY <1>3 DEF Believes
  <2> QED BY <1>3, <2>1 DEF Sacking, IsConn
<1>6. d \in Sacking(c, g, now)
  BY <1>4, <1>5, SackBlocksTrue
<1> HIDE DEF d
<1>7. /\ IsConn(d) /\ d.una = c.una /\ d.nxt = c.nxt /\ d.sent = c.sent
      /\ d.ts_recent = c.ts_recent
      /\ d.entries \in Seq(TrueEntries(g, c.sent, now))
      /\ d.board \in Seq(TrueBlocks(g)) /\ d.probes \in Seq(Probes)
  BY <1>6, SackingConn
<1>8. Believes(d, g, now)
  BY <1>3, <1>7 DEF Believes
<1> QED BY <1>2, <1>3, <1>7, <1>8 DEF Through, d

\* The cumulative ACK, when it is new.
LEMMA FreshTaken ==
    ASSUME NEW c, NEW g, NEW m, NEW x, Through(c, g, m, x), NEW k \in 0 .. MaxSegs,
           0 .. k - 1 \subseteq g, SeqLe(SeqNo(k), c.nxt), NEW rtt
    PROVE  Through([Sampled([c EXCEPT !.una = SeqNo(k)], rtt) EXCEPT !.board = BoardPrune(@, SeqNo(k))],
                   g, m, x)
<1> DEFINE u == [c EXCEPT !.una = SeqNo(k)]
           d == Sampled(u, rtt)
           b == [d EXCEPT !.board = BoardPrune(d.board, SeqNo(k))]
<1>1. Through(u, g, m, x)
  <2>1. Believes(c, g, now)
    BY DEF Through
  <2>2. Believes(u, g, now) /\ u.ts_recent = c.ts_recent /\ u.sent = c.sent
    BY <2>1, AdvancedTrue
  <2> HIDE DEF u
  <2> QED BY <2>2 DEF Through
<1> HIDE DEF u
<1>2. Through(d, g, m, x)
  <2>1. IsConn(u)
    BY <1>1, ThroughConn
  <2>2. Same(u, d)
    BY <2>1, SampledSame
  <2> QED BY <1>1, <2>2, ThroughSame
<1> HIDE DEF d
<1>3. Through(b, g, m, x)
  <2>1. Believes(d, g, now)
    BY <1>2 DEF Through
  <2>2. Believes(b, g, now) /\ b.ts_recent = d.ts_recent /\ b.sent = d.sent
    BY <2>1, PrunedBoardTrue
  <2> HIDE DEF b
  <2> QED BY <1>2, <2>2 DEF Through
<1> QED BY <1>3 DEF u, d

\* Loss detection and the retransmissions.
LEMMA LossesTaken ==
    ASSUME NEW d, NEW g, NEW m, NEW x, Through(d, g, m, x), now \in Int, NEW is, NEW reo
    PROVE  LET c == [Resent(RackSeen(d), is) EXCEPT !.rack.reo_wnd = reo]
           IN  Through(c, g, m, x) /\ DOMAIN c.entries = DOMAIN RackSeen(d).entries
<1> DEFINE seen == RackSeen(d)
           s == Resent(seen, is)
           w == [s.rack EXCEPT !.reo_wnd = reo]
           c == [s EXCEPT !.rack = w]
<1>1. Through(seen, g, m, x)
  <2>1. Same(d, seen)
    BY ThroughConn, RackSeenSame
  <2> QED BY <2>1, ThroughSame
<1> HIDE DEF seen
<1>2. Through(s, g, m, x) /\ DOMAIN s.entries = DOMAIN seen.entries
  <2>1. Believes(seen, g, now)
    BY <1>1 DEF Through
  <2>2. /\ Believes(s, g, now) /\ s.ts_recent = seen.ts_recent /\ s.sent = seen.sent
        /\ DOMAIN s.entries = DOMAIN seen.entries
    BY <2>1, ResentTrue
  <2> HIDE DEF s
  <2> QED BY <1>1, <2>2 DEF Through
<1> HIDE DEF s
<1>3. IsConn(s)
  BY <1>2, ThroughConn
<1>4. [s EXCEPT !.rack.reo_wnd = reo] = c
  BY <1>3 DEF IsConn
<1> HIDE DEF w
<1>5. Same(s, c)
  BY <1>3, PutField
<1>6. Through(c, g, m, x) /\ c.entries = s.entries
  <2>1. Through(c, g, m, x)
    BY <1>2, <1>5, ThroughSame
  <2>2. c.entries = s.entries
    BY <1>5 DEF Same
  <2> QED BY <2>1, <2>2
<1> HIDE DEF c
<1> QED BY <1>2, <1>4, <1>6 DEF s, seen

\* All of it, for an ACK that the peer has sent.
LEMMA AckTaken ==
    ASSUME NEW a, NEW g, Believes(conn, g, now), TrueAck(a, g, now), HandleEstablished(a),
           now \in Nat, Grain <= now
    PROVE  /\ Believes(conn', g, now) /\ conn'.sent = conn.sent
           /\ conn'.ts_recent = ParseOptions(a.opts).timestamps[1]
           /\ \A s \in segs' : s \in segs \/ Sent(s, conn.sent, now)
           /\ \A r \in samples' : r \in samples \/ (r \in Int /\ r < now)
<1> DEFINE opts   == ParseOptions(a.opts)
           x      == opts.timestamps[1]
           m      == conn.sent
           sacked == SackBlocksTaken([conn EXCEPT !.ts_recent = x, !.ts_age = now],
                                     opts.sack_blocks)
           fresh  == SeqLt(sacked.una, a.ack) /\ SeqLe(a.ack, sacked.nxt)
           adv    == [sacked EXCEPT !.una = a.ack]
           rtt    == RttSample(adv, opts)
           cut    == [Sampled(adv, rtt) EXCEPT !.board = BoardPrune(@, a.ack)]
           acked  == IF ~fresh THEN sacked ELSE cut
           e      == IF fresh /\ rtt # None THEN Sample(est, rtt) ELSE est
           seen   == RackSeen(acked)
           reo    == ReoWnd(seen, e)
           lost   == {i \in Open(seen) : DetectLost(seen, seen.entries[i], reo)}
           c      == [Resent(seen, lost) EXCEPT !.rack.reo_wnd = reo]
<1>1. /\ conn' = ArmTlp(IF fresh THEN Restarted(Pruned(c), e) ELSE c, e)
      /\ Transmit(Frames(c, lost))
      /\ samples' = IF fresh /\ rtt # None THEN samples \cup {rtt} ELSE samples
  BY Zenon DEF HandleEstablished
<1>2. PICK k \in 0 .. MaxSegs, ts \in Nat \X Nat, blocks \in Seq(TrueBlocks(g)) :
         /\ a.ack = SeqNo(k) /\ 0 .. k - 1 \subseteq g /\ IsTs(ts) /\ Echoed(ts[2], now)
         /\ Len(blocks) <= 3 /\ a.opts = AckOptions(ts, blocks)
  BY DEF TrueAck
<1>3. opts.timestamps = ts /\ opts.sack_blocks = blocks
  BY <1>2, AckHeard
<1> HIDE DEF opts
<1>4. Through(sacked, g, m, x)
  <2>1. opts.sack_blocks \in Seq(TrueBlocks(g))
    BY <1>3
  <2> HIDE DEF x
  <2> QED BY <2>1, StampedSacked
<1> HIDE DEF sacked, x
<1>5. fresh => Through(cut, g, m, x)
  <2> SUFFICES ASSUME fresh PROVE Through(cut, g, m, x)
    OBVIOUS
  <2>1. SeqLe(SeqNo(k), sacked.nxt)
    BY <1>2
  <2> HIDE DEF rtt
  <2> QED BY <1>2, <1>4, <2>1, FreshTaken, Zenon
<1>6. rtt # None => rtt \in Int /\ rtt < now
  <2>1. adv.entries = sacked.entries
    BY <1>4, ThroughConn DEF IsConn
  <2>2. sacked.entries \in Seq(TrueEntries(g, m, now))
    BY <1>4 DEF Through, Believes
  <2> HIDE DEF adv
  <2>3. Echoed(opts.timestamps[2], now)
    BY <1>2, <1>3
  <2> QED BY <2>1, <2>2, <2>3, SampleReal
<1> HIDE DEF rtt, adv, cut, fresh
<1>7. Through(acked, g, m, x)
  BY <1>4, <1>5
<1> HIDE DEF acked, e, reo
<1>8. Through(c, g, m, x) /\ DOMAIN c.entries = DOMAIN seen.entries
  <2>1. now \in Int
    OBVIOUS
  <2> HIDE DEF lost
  <2> QED BY <1>7, <2>1, LossesTaken, Zenon
<1>9. lost \subseteq DOMAIN seen.entries
  BY DEF Open
<1> HIDE DEF c, lost, seen
<1>10. Through(IF fresh THEN Restarted(Pruned(c), e) ELSE c, g, m, x)
  <2>1. Through(Pruned(c), g, m, x)
    <3>1. Believes(c, g, now) /\ c.sent = m /\ c.ts_recent = x
      BY <1>8 DEF Through
    <3>2. Believes(Pruned(c), g, now) /\ Pruned(c).ts_recent = c.ts_recent /\ Pruned(c).sent = c.sent
      BY <3>1, PrunedTrue
    <3> QED BY <3>1, <3>2 DEF Through
  <2>2. Through(Restarted(Pruned(c), e), g, m, x)
    <3>1. Same(Pruned(c), Restarted(Pruned(c), e))
      BY <2>1, ThroughConn, RestartedSame
    <3> QED BY <2>1, <3>1, ThroughSame
  <2> QED BY <1>8, <2>2
<1>11. Through(conn', g, m, x)
  <2> DEFINE z == IF fresh THEN Restarted(Pruned(c), e) ELSE c
  <2>1. conn' = ArmTlp(z, e) /\ Through(z, g, m, x)
    BY <1>1, <1>10
  <2> HIDE DEF z
  <2>2. Same(z, ArmTlp(z, e))
    BY <2>1, ThroughConn, ArmTlpSame
  <2>3. Through(ArmTlp(z, e), g, m, x)
    BY <2>1, <2>2, ThroughSame
  <2> QED BY <2>1, <2>3
<1>12. ASSUME NEW s \in segs', s \notin segs PROVE Sent(s, m, now)
  <2>1. s \in Frames(c, lost)
    BY <1>1, <1>12, TransmitIs
  <2>2. Believes(c, g, now) /\ c.sent = m
    BY <1>8 DEF Through
  <2>3. \A f \in Frames(c, lost) : Sent(f, c.sent, now)
    BY <1>8, <1>9, <2>2, FramesSent
  <2> QED BY <2>1, <2>2, <2>3
<1>13. \A r \in samples' : r \in samples \/ (r \in Int /\ r < now)
  BY <1>1, <1>6
<1> QED BY <1>11, <1>12, <1>13 DEF Through, x, opts
-----------------------------------------------------------------------------
\* The peer.

LEMMA CumIs ==
    ASSUME NEW g, g \subseteq 0 .. MaxSegs - 1
    PROVE  Cum(g) \in 0 .. MaxSegs /\ 0 .. Cum(g) - 1 \subseteq g
<1> DEFINE T == (0 .. MaxSegs) \ g
           k == Min(T)
<1>0. MaxSegs \in Nat
  BY Params
<1>1. T \in SUBSET Nat /\ T # {}
  <2>1. MaxSegs \in T
    BY <1>0
  <2> QED BY <1>0, <2>1
<1>2. k \in T /\ \A y \in T : k <= y
  BY <1>1, MinIn
<1>3. Cum(g) = k
  BY DEF Cum
<1> HIDE DEF k
<1>4. \A i \in 0 .. k - 1 : i \in g
  BY <1>0, <1>2
<1> QED BY <1>2, <1>3, <1>4

LEMMA SetToSeqType ==
    ASSUME NEW S, IsFiniteSet(S)
    PROVE  SetToSeq(S) \in Seq(S)
<1> DEFINE n == Cardinality(S)
<1>1. n \in Nat /\ ExistsBijection(1 .. n, S)
  BY FS_CardinalityType
<1>2. \E f \in [1 .. n -> S] : IsInjective(f)
  BY <1>1 DEF ExistsBijection, Bijection, Injection
<1>3. SetToSeq(S) \in [1 .. n -> S]
  BY <1>2 DEF SetToSeq
<1> HIDE DEF n
<1> QED BY <1>1, <1>3, SeqFun

LEMMA RunsTrue ==
    ASSUME NEW g
    PROVE  IsFiniteSet(Runs(g)) /\ Runs(g) \subseteq Spans(g)
<1>1. IsFiniteSet(0 .. MaxSegs)
  BY Params, FS_Interval
<1>2. IsFiniteSet((0 .. MaxSegs) \X (0 .. MaxSegs))
  BY <1>1, FS_Product
<1>3. Runs(g) \in SUBSET ((0 .. MaxSegs) \X (0 .. MaxSegs)) /\ Runs(g) \subseteq Spans(g)
  BY DEF Runs, Spans
<1> QED BY <1>2, <1>3, FS_Subset

\* The blocks of an ACK are of segments that the peer holds.
LEMMA SackBlocksType ==
    ASSUME NEW g, NEW n \in 0 .. MaxSegs - 1, n \in g, NEW dup
    PROVE  SackBlocks(g, n, dup) \in Seq(TrueBlocks(g)) /\ Len(SackBlocks(g, n, dup)) <= 3
<1> DEFINE S == TrueBlocks(g)
           runs == Runs(g)
           first == {r \in runs : n \in r[1] .. r[2] - 1}
           order == SetToSeq(first) \o SetToSeq(runs \ first)
           head == IF dup THEN <<Block(<<n, n + 1>>)>> ELSE <<>>
           tail == [i \in DOMAIN order |-> Block(order[i])]
           all == head \o tail
<1>0. MaxSegs \in Nat
  BY Params
<1>1. IsFiniteSet(runs) /\ runs \subseteq Spans(g)
  BY RunsTrue
<1>2. first \in SUBSET runs /\ runs \ first \in SUBSET runs
  OBVIOUS
<1>3. IsFiniteSet(first) /\ IsFiniteSet(runs \ first)
  BY <1>1, <1>2, FS_Subset
<1>4. SetToSeq(first) \in Seq(Spans(g)) /\ SetToSeq(runs \ first) \in Seq(Spans(g))
  <2> HIDE DEF first
  <2>1. first \subseteq Spans(g) /\ runs \ first \subseteq Spans(g)
    BY <1>1, <1>2
  <2> QED BY <1>3, <2>1, SetToSeqType, SeqMono
<1>5. order \in Seq(Spans(g))
  <2> HIDE DEF first, runs
  <2> QED BY <1>4, ConcatProperties
<1> HIDE DEF order
<1>6. tail \in Seq(S)
  <2>1. Len(order) \in Nat /\ DOMAIN order = 1 .. Len(order)
        /\ \A i \in 1 .. Len(order) : order[i] \in Spans(g)
    BY <1>5, LenProperties, ElementOfSeq
  <2>2. \A p \in Spans(g) : Block(p) \in S
    BY DEF TrueBlocks
  <2> HIDE DEF S
  <2>3. tail \in [1 .. Len(order) -> S]
    BY <2>1, <2>2
  <2> QED BY <2>1, <2>3, SeqFun
<1>7. head \in Seq(S)
  <2>1. Block(<<n, n + 1>>) \in S
    <3>1. n \in 0 .. MaxSegs /\ n + 1 \in 0 .. MaxSegs /\ n < n + 1 /\ n .. n + 1 - 1 \subseteq g
      BY <1>0
    <3>2. Block(<<n, n + 1>>) = [left |-> SeqNo(n), right |-> SeqNo(n + 1)]
      BY DEF Block
    <3> QED BY <3>1, <3>2, SpanBlock
  <2> HIDE DEF S
  <2>2. <<Block(<<n, n + 1>>)>> \in Seq(S) /\ <<>> \in Seq(S)
    BY <2>1
  <2> QED BY <2>2
<1> HIDE DEF head, tail, S
<1>8. all \in Seq(S)
  BY <1>6, <1>7, ConcatProperties
<1> DEFINE m == Min({3, Len(all)})
<1>9. SackBlocks(g, n, dup) = SubSeq(all, 1, m)
  BY Zenon DEF SackBlocks, head, tail, order
<1> HIDE DEF all
<1>10. Len(all) \in Nat /\ \A i \in 1 .. Len(all) : all[i] \in S
  BY <1>8, LenProperties, ElementOfSeq
<1>11. m \in Nat /\ m <= 3 /\ m <= Len(all)
  <2>1. {3, Len(all)} \in SUBSET Nat /\ {3, Len(all)} # {}
    BY <1>10
  <2>2. m \in {3, Len(all)} /\ \A y \in {3, Len(all)} : m <= y
    BY <2>1, MinIn
  <2> QED BY <1>10, <2>2
<1> HIDE DEF m
<1>12. SubSeq(all, 1, m) \in Seq(S) /\ Len(SubSeq(all, 1, m)) = m
  <2>1. 1 \in Int /\ m \in Int /\ \A i \in 1 .. m : all[i] \in S
    BY <1>10, <1>11
  <2>2. SubSeq(all, 1, m) \in Seq(S)
    BY <2>1, SubSeqProperties
  <2>3. Len(SubSeq(all, 1, m)) = IF 1 <= m THEN m - 1 + 1 ELSE 0
    BY <2>1, SubSeqProperties
  <2> QED BY <1>11, <2>2, <2>3
<1> QED BY <1>9, <1>11, <1>12 DEF S
-----------------------------------------------------------------------------
\* The inductive invariant: what the sender believes is true, and so is what
\* every ACK on its way says of the segments that the peer holds.
LInv ==
    /\ now \in Nat /\ Grain <= now
    /\ peer = [got |-> peer.got, echo |-> peer.echo, last |-> peer.last]
    /\ peer.got \subseteq 0 .. conn.sent - 1
    /\ Echoed(peer.echo, now) /\ IsU32(peer.echo)
    /\ Believes(conn, peer.got, now)
    /\ \A s \in segs : Sent(s, conn.sent, now)
    /\ \A a \in acks : TrueAck(a, peer.got, now)
    /\ \A r \in samples : r \in Int /\ r < now

LEMMA InitTrue == Init => LInv
<1> SUFFICES ASSUME Init PROVE LInv
  OBVIOUS
<1>0. PICK rtt \in SynRtts : conn = NewConn(rtt) /\ samples = {rtt} \ {0}
  BY DEF Init
<1>1. now = Grain /\ now \in Nat /\ Grain <= now
  BY Params DEF Init
<1>2. /\ peer = [got |-> peer.got, echo |-> peer.echo, last |-> peer.last]
      /\ peer.got = {} /\ peer.echo = 0
  BY DEF Init
<1>3. Echoed(peer.echo, now) /\ IsU32(peer.echo)
  <2>1. IsU32(0)
    BY SMT DEF IsU32, Upper
  <2> QED BY <1>2, <2>1 DEF Echoed
<1>4. Believes(conn, peer.got, now)
  <2>1. /\ IsConn(conn) /\ conn.sent = 0 /\ conn.una = SeqNo(0) /\ conn.nxt = SeqNo(0)
        /\ conn.entries = <<>> /\ conn.board = <<>> /\ conn.probes = <<>>
    BY <1>0 DEF NewConn, IsConn
  <2>2. 0 \in 0 .. MaxSegs /\ 0 \in 0 .. 0 /\ 0 .. 0 - 1 \subseteq {}
    BY Params
  <2>3. Acked(SeqNo(0), {}, 0)
    BY <2>2 DEF Acked
  <2>4. \A S : <<>> \in Seq(S)
    OBVIOUS
  <2> QED BY <1>2, <2>1, <2>2, <2>3, <2>4 DEF Believes
<1>5. segs = {} /\ acks = {} /\ peer.got \subseteq 0 .. conn.sent - 1
  BY <1>2 DEF Init
<1>6. ASSUME NEW r \in samples PROVE r \in Int /\ r < now
  <2>1. r \in 0 .. Grain - 1
    BY <1>0, <1>6, LossParams DEF LossParams
  <2> QED BY <1>1, <2>1, Params
<1> QED BY <1>1, <1>2, <1>3, <1>4, <1>5, <1>6 DEF LInv

LEMMA SentMono ==
    ASSUME NEW s, NEW m \in Nat, NEW n \in Nat, m <= n, NEW t \in Nat, NEW u \in Nat, t <= u,
           Sent(s, m, t)
    PROVE  Sent(s, n, u)
<1>1. 0 .. m - 1 \subseteq 0 .. n - 1 /\ Grain .. t \subseteq Grain .. u
  BY Params
<1> QED BY <1>1 DEF Sent

\* A step of the sender.
LEMMA SenderKeeps ==
    ASSUME LInv, now' = now, peer' = peer, acks' \subseteq acks,
           Believes(conn', peer.got, now), conn.sent <= conn'.sent,
           \A s \in segs' : s \in segs \/ Sent(s, conn'.sent, now),
           \A r \in samples' : r \in samples \/ (r \in Int /\ r < now)
    PROVE  LInv'
<1>1. conn.sent \in Nat /\ conn'.sent \in Nat
  <2>1. \A c : Believes(c, peer.got, now) => c.sent \in 0 .. MaxSegs
    BY DEF Believes
  <2>2. conn.sent \in 0 .. MaxSegs /\ conn'.sent \in 0 .. MaxSegs
    BY <2>1 DEF LInv
  <2> QED BY <2>2, Params
<1>2. now \in Nat /\ now <= now
  BY DEF LInv
<1>3. \A s \in segs' : Sent(s, conn'.sent, now)
  <2>1. \A s \in segs : Sent(s, conn.sent, now)
    BY DEF LInv
  <2> QED BY <1>1, <1>2, <2>1, SentMono
<1>4. peer.got \subseteq 0 .. conn'.sent - 1
  <2>1. 0 .. conn.sent - 1 \subseteq 0 .. conn'.sent - 1
    BY <1>1
  <2> QED BY <2>1 DEF LInv
<1> QED BY <1>3, <1>4 DEF LInv

LEMMA TickTrue == ASSUME LInv, Tick PROVE LInv'
<1>1. now \in Nat /\ now' \in Nat /\ now <= now' /\ Grain <= now'
  BY Params DEF Tick, LInv
<1>2. UNCHANGED <<est, conn, segs, acks, peer, samples>>
  BY DEF Tick
<1>3. Believes(conn, peer.got, now')
  BY <1>1, BelievesMono DEF LInv
<1>4. Echoed(peer.echo, now')
  BY <1>1, EchoedMono DEF LInv
<1>5. \A s \in segs : Sent(s, conn.sent, now')
  <2>1. conn.sent \in Nat
    BY Params DEF LInv, Believes
  <2> QED BY <1>1, <2>1, SentMono DEF LInv
<1>6. \A a \in acks : TrueAck(a, peer.got, now')
  BY <1>1, TrueAckMono DEF LInv
<1>7. \A r \in samples : r \in Int /\ r < now'
  BY <1>1 DEF LInv
<1> QED BY <1>1, <1>2, <1>3, <1>4, <1>5, <1>6, <1>7 DEF LInv

LEMMA SendTrue == ASSUME LInv, SendBytes PROVE LInv' /\ conn'.ts_recent = conn.ts_recent
<1> DEFINE g == peer.got
           m == conn.sent
           e == [seq |-> conn.nxt, xmit_ts |-> now, first_tx |-> now, xmit_count |-> 1,
                 sacked |-> FALSE, lost |-> FALSE]
           q == Append(conn.entries, e)
           x == EndSeq(e)
           y == IF conn.entries = <<>> /\ conn.rto_at = NoTimer THEN now + est.rto ELSE conn.rto_at
           c == [conn EXCEPT !.entries = q, !.nxt = x, !.rto_at = y]
           d == [c EXCEPT !.sent = @ + 1]
<1>0. /\ now \in Nat /\ Grain <= now /\ Believes(conn, g, now) /\ IsConn(conn)
      /\ m \in 0 .. MaxSegs /\ conn.nxt = SeqNo(m) /\ MaxSegs \in Nat
  BY Params DEF LInv, Believes
<1>1. /\ m < MaxSegs /\ conn' = ArmTlp(d, est) /\ Transmit(Frames(c, {Len(c.entries)}))
      /\ UNCHANGED <<now, est, acks, peer, samples>>
  BY Zenon DEF SendBytes
<1>2. m \in Nat /\ m + 1 \in Nat /\ m + 1 \in 0 .. MaxSegs /\ m \in 0 .. m /\ m <= m + 1
  BY <1>0, <1>1
<1>3. SeqNo(m) \in Int /\ (SeqNo(m) + 1) % Space = SeqNo(m + 1)
  BY <1>0, SeqBack
<1>4. e.seq = SeqNo(m) /\ x = SeqNo(m + 1)
  BY <1>0, <1>3 DEF EndSeq
<1>5. e \in TrueEntries(g, m + 1, now)
  <2>1. now \in Grain .. now /\ m \in 0 .. (m + 1) - 1 /\ 1 \in Int
    BY <1>0, <1>2, Params
  <2>2. e \in Entries(now)
    BY <1>0, <1>3, <2>1 DEF Entries
  <2>3. Numbered(e, g, m + 1)
    BY <1>4, <2>1 DEF Numbered
  <2> QED BY <2>2, <2>3, Zenon DEF TrueEntries
<1>6. /\ IsConn(c) /\ c.una = conn.una /\ c.nxt = x /\ c.sent = m /\ c.entries = q
      /\ c.board = conn.board /\ c.probes = conn.probes /\ c.ts_recent = conn.ts_recent
  <2> DEFINE c1 == [conn EXCEPT !.entries = q]
             c2 == [c1 EXCEPT !.nxt = x]
             c3 == [c2 EXCEPT !.rto_at = y]
  <2> HIDE DEF q, x, y
  <2>1. c = c3
    OBVIOUS
  <2>2. /\ IsConn(c1) /\ c1.una = conn.una /\ c1.sent = m /\ c1.entries = q
        /\ c1.board = conn.board /\ c1.probes = conn.probes /\ c1.ts_recent = conn.ts_recent
    BY <1>0 DEF IsConn
  <2> HIDE DEF c1
  <2>3. /\ IsConn(c2) /\ c2.una = conn.una /\ c2.sent = m /\ c2.entries = q /\ c2.nxt = x
        /\ c2.board = conn.board /\ c2.probes = conn.probes /\ c2.ts_recent = conn.ts_recent
    BY <2>2 DEF IsConn
  <2> HIDE DEF c2
  <2>4. Same(c2, c3)
    BY <2>3, PutField
  <2> HIDE DEF c3
  <2>5. /\ IsConn(c3) /\ c3.una = conn.una /\ c3.nxt = x /\ c3.sent = m /\ c3.entries = q
        /\ c3.board = conn.board /\ c3.probes = conn.probes /\ c3.ts_recent = conn.ts_recent
    BY <2>3, <2>4 DEF Same
  <2> HIDE DEF c
  <2> QED BY <2>1, <2>5
<1> HIDE DEF e, x, y
<1>7. q \in Seq(TrueEntries(g, m + 1, now))
  <2>1. TrueEntries(g, m, now) \subseteq TrueEntries(g, m + 1, now)
    BY <1>0, <1>2, EntriesMono
  <2>2. conn.entries \in Seq(TrueEntries(g, m + 1, now))
    BY <1>0, <2>1, SeqMono DEF Believes
  <2> QED BY <1>5, <2>2, AppendProperties
<1> HIDE DEF c, q
<1>8. /\ IsConn(d) /\ d.una = conn.una /\ d.nxt = x /\ d.sent = m + 1 /\ d.entries = q
      /\ d.board = conn.board /\ d.probes = conn.probes /\ d.ts_recent = conn.ts_recent
  BY <1>6 DEF IsConn
<1> HIDE DEF d
<1>9. Believes(d, g, now)
  <2>1. PICK u \in 0 .. m : conn.una = SeqNo(u) /\ 0 .. u - 1 \subseteq g
    BY <1>0 DEF Believes, Acked
  <2>2. u \in 0 .. m + 1
    BY <1>2
  <2>3. Acked(d.una, g, m + 1)
    BY <1>8, <2>1, <2>2 DEF Acked
  <2>4. d.board \in Seq(TrueBlocks(g)) /\ d.probes \in Seq(Probes)
    BY <1>0, <1>8 DEF Believes
  <2> QED BY <1>2, <1>4, <1>7, <1>8, <2>3, <2>4 DEF Believes
<1>10. Same(d, conn')
  BY <1>1, <1>8, ArmTlpSame
<1>11. Believes(conn', g, now) /\ conn'.sent = m + 1 /\ conn'.ts_recent = conn.ts_recent
  BY <1>8, <1>9, <1>10, SameTrue DEF Same
<1>12. ASSUME NEW s \in segs', s \notin segs PROVE Sent(s, m + 1, now)
  <2> DEFINE is == {Len(c.entries)}
  <2>1. s \in Frames(c, is)
    BY <1>1, <1>12, TransmitIs
  <2>2. Frames(c, is) = Frames(d, is)
    BY <1>6, <1>8 DEF Frames
  <2>3. is \subseteq DOMAIN d.entries
    <3>1. Len(q) \in DOMAIN q
      <4>1. conn.entries \in Seq(TrueEntries(g, m, now))
        BY <1>0 DEF Believes
      <4>2. Len(conn.entries) \in Nat /\ Len(q) = Len(conn.entries) + 1
        BY <4>1, AppendProperties, LenProperties DEF q
      <4>3. DOMAIN q = 1 .. Len(q)
        BY <1>7, LenProperties
      <4> QED BY <4>2, <4>3
    <3> QED BY <1>6, <1>8, <3>1
  <2> HIDE DEF is
  <2>4. \A f \in Frames(d, is) : Sent(f, d.sent, now)
    BY <1>0, <1>9, <2>3, FramesSent
  <2> QED BY <1>8, <2>1, <2>2, <2>4
<1>13. \A r \in samples' : r \in samples
  BY <1>1
<1>14. LInv'
  <2>1. acks' \subseteq acks /\ m <= conn'.sent /\ now' = now /\ peer' = peer
    BY <1>1, <1>2, <1>11
  <2>2. \A s \in segs' : s \in segs \/ Sent(s, conn'.sent, now)
    BY <1>11, <1>12
  <2> QED BY <1>11, <1>13, <2>1, <2>2, SenderKeeps
<1> QED BY <1>11, <1>14

LEMMA RtoTrue == ASSUME LInv, OnRtoFire PROVE LInv' /\ conn'.ts_recent = conn.ts_recent
<1> DEFINE g == peer.got
           rtt  == IF est.srtt # 0 THEN est.srtt ELSE conn.rack.min_rtt
           lost == {i \in Open(conn) : \/ conn.entries[i].seq = conn.una
                                       \/ now - conn.entries[i].xmit_ts >= rtt + conn.rack.reo_wnd}
           is   == IF lost = {} THEN {1} ELSE lost
           r    == Resent(conn, is)
           x    == now + est'.rto
<1>0. now \in Nat /\ now \in Int /\ Grain <= now /\ Believes(conn, g, now) /\ IsConn(conn)
  BY DEF LInv, Believes
<1>1. UNCHANGED <<now, acks, peer, samples>>
  BY DEF OnRtoFire
<1>2. Believes(conn', g, now) /\ conn'.sent = conn.sent /\ conn'.ts_recent = conn.ts_recent
      /\ \A s \in segs' : s \in segs \/ Sent(s, conn.sent, now)
  <2>1. CASE conn.entries = <<>>
    <3>1. conn' = [conn EXCEPT !.rto_at = NoTimer] /\ segs' = segs
      BY <2>1 DEF OnRtoFire
    <3>2. Same(conn, conn')
      BY <1>0, <3>1, PutField
    <3> QED BY <1>0, <3>1, <3>2, SameTrue DEF Same
  <2>2. CASE conn.entries # <<>>
    <3>1. conn' = [r EXCEPT !.rto_at = x] /\ Transmit(Frames(conn, is))
      BY <2>2, Zenon DEF OnRtoFire
    <3>2. is \subseteq DOMAIN conn.entries
      <4>1. 1 \in DOMAIN conn.entries
        <5>1. conn.entries \in Seq(TrueEntries(g, conn.sent, now))
          BY <1>0 DEF Believes
        <5>2. Len(conn.entries) \in Nat /\ Len(conn.entries) # 0 /\ DOMAIN conn.entries = 1 .. Len(conn.entries)
          BY <2>2, <5>1, LenProperties, EmptySeq
        <5> QED BY <5>2
      <4>2. lost \subseteq DOMAIN conn.entries
        BY DEF Open
      <4> HIDE DEF lost
      <4> QED BY <4>1, <4>2
    <3> HIDE DEF is, x
    <3>3. /\ Believes(r, g, now) /\ r.ts_recent = conn.ts_recent /\ r.sent = conn.sent
      BY <1>0, ResentTrue
    <3> HIDE DEF r
    <3>4. Same(r, conn')
      <4>1. IsConn(r)
        BY <3>3 DEF Believes
      <4> QED BY <3>1, <4>1, PutField
    <3>5. Believes(conn', g, now) /\ conn'.sent = conn.sent /\ conn'.ts_recent = conn.ts_recent
      BY <3>3, <3>4, SameTrue DEF Same
    <3>6. \A f \in Frames(conn, is) : Sent(f, conn.sent, now)
      BY <1>0, <3>2, FramesSent
    <3> QED BY <3>1, <3>5, <3>6, TransmitIs
  <2> QED BY <2>1, <2>2
<1>3. LInv'
  <2>1. acks' \subseteq acks /\ now' = now /\ peer' = peer /\ conn.sent <= conn'.sent
        /\ \A s \in samples' : s \in samples
    <3>1. conn.sent <= conn.sent
      BY <1>0, Params DEF Believes
    <3> QED BY <1>1, <1>2, <3>1
  <2>2. \A s \in segs' : s \in segs \/ Sent(s, conn'.sent, now)
    BY <1>2
  <2> QED BY <1>2, <2>1, <2>2, SenderKeeps
<1> QED BY <1>2, <1>3

LEMMA TlpTrue == ASSUME LInv, OnTlpFire PROVE LInv' /\ conn'.ts_recent = conn.ts_recent
<1> DEFINE g     == peer.got
           last  == Len(conn.entries)
           probe == [seq |-> conn.entries[last].seq, tx_ts |-> now, attributed |-> FALSE]
           ring  == IF Len(conn.probes) < RecentProbes THEN conn.probes ELSE Tail(conn.probes)
           p     == Append(ring, probe)
           r     == Resent(conn, {last})
<1>0. now \in Nat /\ now \in Int /\ Grain <= now /\ Believes(conn, g, now) /\ IsConn(conn)
  BY DEF LInv, Believes
<1>1. UNCHANGED <<now, acks, peer, samples>>
  BY DEF OnTlpFire
<1>2. Believes(conn', g, now) /\ conn'.sent = conn.sent /\ conn'.ts_recent = conn.ts_recent
      /\ \A s \in segs' : s \in segs \/ Sent(s, conn.sent, now)
  <2>1. CASE conn.entries = <<>>
    <3>1. conn' = [conn EXCEPT !.tlp_at = NoTimer] /\ segs' = segs
      BY <2>1 DEF OnTlpFire
    <3>2. Same(conn, conn')
      BY <1>0, <3>1, PutField
    <3> QED BY <1>0, <3>1, <3>2, SameTrue DEF Same
  <2>2. CASE conn.entries # <<>>
    <3>1. /\ conn' = [r EXCEPT !.tlp_at = NoTimer, !.fired = @ + 1, !.sample_seen = FALSE, !.probes = p]
          /\ Transmit(Frames(conn, {last}))
      BY <2>2, Zenon DEF OnTlpFire
    <3>2. last \in DOMAIN conn.entries /\ conn.entries[last] \in TrueEntries(g, conn.sent, now)
      <4>1. conn.entries \in Seq(TrueEntries(g, conn.sent, now))
        BY <1>0 DEF Believes
      <4>2. last \in Nat /\ last # 0 /\ DOMAIN conn.entries = 1 .. last
        BY <2>2, <4>1, LenProperties, EmptySeq
      <4>3. last \in 1 .. last
        BY <4>2
      <4> QED BY <4>1, <4>2, <4>3, ElementOfSeq
    <3>3. p \in Seq(Probes)
      <4>1. conn.probes \in Seq(Probes)
        BY <1>0 DEF Believes
      <4>2. probe \in Probes
        BY <1>0, <3>2 DEF Probes, TrueEntries, Entries
      <4>3. ring \in Seq(Probes)
        <5>1. CASE Len(conn.probes) < RecentProbes
          BY <4>1, <5>1
        <5>2. CASE ~(Len(conn.probes) < RecentProbes)
          <6>1. Len(conn.probes) # 0
            BY <5>2, LossParams
          <6>2. conn.probes # <<>>
            BY <6>1, EmptySeq
          <6>3. Tail(conn.probes) \in Seq(Probes)
            BY <4>1, <6>2, HeadTailProperties
          <6> QED BY <5>2, <6>3
        <5> QED BY <5>1, <5>2
      <4> HIDE DEF ring, probe
      <4> QED BY <4>2, <4>3, AppendProperties
    <3> HIDE DEF p
    <3>4. /\ Believes(r, g, now) /\ r.ts_recent = conn.ts_recent /\ r.sent = conn.sent
      BY <1>0, ResentTrue
    <3> HIDE DEF r
    <3>5. Believes(conn', g, now) /\ conn'.sent = conn.sent /\ conn'.ts_recent = conn.ts_recent
      <4> DEFINE f  == r.fired + 1
                 d1 == [r EXCEPT !.tlp_at = NoTimer]
                 d2 == [d1 EXCEPT !.fired = f]
                 d3 == [d2 EXCEPT !.sample_seen = FALSE]
                 d4 == [d3 EXCEPT !.probes = p]
      <4>1. IsConn(r)
        BY <3>4 DEF Believes
      <4>2. conn' = d4
        <5> HIDE DEF NoTimer
        <5> QED BY <3>1, <4>1 DEF IsConn
      <4> HIDE DEF f
      <4>3. Same(r, d1)
        BY <4>1, PutField
      <4> HIDE DEF d1
      <4>4. Same(d1, d2)
        <5>1. IsConn(d1)
          BY <4>3 DEF Same
        <5> QED BY <5>1, PutField
      <4> HIDE DEF d2
      <4>5. Same(d2, d3)
        <5>1. IsConn(d2)
          BY <4>4 DEF Same
        <5> QED BY <5>1, PutField
      <4> HIDE DEF d3
      <4>6. Same(r, d3)
        BY <4>3, <4>4, <4>5, SameTrans
      <4>7. Believes(d3, g, now) /\ d3.sent = conn.sent /\ d3.ts_recent = conn.ts_recent
        BY <3>4, <4>6, SameTrue DEF Same
      <4>8. /\ IsConn(d4) /\ d4.una = d3.una /\ d4.nxt = d3.nxt /\ d4.sent = d3.sent
            /\ d4.entries = d3.entries /\ d4.board = d3.board /\ d4.ts_recent = d3.ts_recent
            /\ d4.probes = p
        <5>1. IsConn(d3)
          BY <4>7 DEF Believes
        <5> QED BY <5>1 DEF IsConn
      <4> HIDE DEF d4
      <4>9. Believes(d4, g, now)
        BY <3>3, <4>7, <4>8 DEF Believes
      <4> QED BY <4>2, <4>7, <4>8, <4>9
    <3>6. \A f \in Frames(conn, {last}) : Sent(f, conn.sent, now)
      <4>1. {last} \subseteq DOMAIN conn.entries
        BY <3>2
      <4> QED BY <1>0, <4>1, FramesSent
    <3> QED BY <3>1, <3>5, <3>6, TransmitIs
  <2> QED BY <2>1, <2>2
<1>3. LInv'
  <2>1. acks' \subseteq acks /\ now' = now /\ peer' = peer /\ conn.sent <= conn'.sent
        /\ \A s \in samples' : s \in samples
    <3>1. conn.sent <= conn.sent
      BY <1>0, Params DEF Believes
    <3> QED BY <1>1, <1>2, <3>1
  <2>2. \A s \in segs' : s \in segs \/ Sent(s, conn'.sent, now)
    BY <1>2
  <2> QED BY <1>2, <2>1, <2>2, SenderKeeps
<1> QED BY <1>2, <1>3

LEMMA RxAckTrue ==
    ASSUME LInv, NEW a \in acks, RxAck(a)
    PROVE  /\ LInv'
           /\ \/ conn'.ts_recent = conn.ts_recent
              \/ conn'.ts_recent = ParseOptions(a.opts).timestamps[1]
<1>0. /\ now \in Nat /\ Grain <= now /\ Believes(conn, peer.got, now) /\ TrueAck(a, peer.got, now)
      /\ conn.sent \in Nat
  BY Params DEF LInv, Believes
<1>1. acks' \subseteq acks /\ now' = now /\ peer' = peer
  BY DEF RxAck
<1>2. /\ Believes(conn', peer.got, now) /\ conn'.sent = conn.sent
      /\ \/ conn'.ts_recent = conn.ts_recent
         \/ conn'.ts_recent = ParseOptions(a.opts).timestamps[1]
      /\ \A s \in segs' : s \in segs \/ Sent(s, conn.sent, now)
      /\ \A r \in samples' : r \in samples \/ (r \in Int /\ r < now)
  <2>1. CASE HandleEstablished(a)
    BY <1>0, <2>1, AckTaken
  <2>2. CASE UNCHANGED <<est, conn, segs, samples>>
    BY <1>0, <2>2
  <2> QED BY <2>1, <2>2 DEF RxAck
<1>3. conn.sent <= conn'.sent /\ \A s \in segs' : s \in segs \/ Sent(s, conn'.sent, now)
  BY <1>0, <1>2
<1> QED BY <1>1, <1>2, <1>3, SenderKeeps

\* The peer takes a segment.
LEMMA PeerTrue ==
    ASSUME LInv, NEW s \in segs, PeerReceives(s)
    PROVE  /\ LInv' /\ peer'.last = Stamp(PeerClock0) /\ conn' = conn /\ now' = now
           /\ \A a \in acks' : a \in acks \/ ParseOptions(a.opts).timestamps[1] = Stamp(PeerClock0)
<1> DEFINE n    == (s.seq - Iss) % Space
           got  == peer.got \cup {n}
           dup  == n \in peer.got
           echo == IF n <= Cum(peer.got) THEN s.tsval ELSE peer.echo
           ts   == <<Stamp(PeerClock0), echo>>
           blocks == SackBlocks(got, n, dup)
           ack  == [ack |-> SeqNo(Cum(got)), opts |-> AckOptions(ts, blocks)]
<1>0. /\ now \in Nat /\ Grain <= now /\ Believes(conn, peer.got, now) /\ conn.sent \in 0 .. MaxSegs
      /\ Sent(s, conn.sent, now) /\ MaxSegs \in Nat
      /\ peer = [got |-> peer.got, echo |-> peer.echo, last |-> peer.last]
      /\ peer.got \subseteq 0 .. conn.sent - 1 /\ Echoed(peer.echo, now) /\ IsU32(peer.echo)
  BY Params DEF LInv, Believes
<1>1. /\ segs' = segs \ {s} /\ acks' \in {acks, acks \cup {ack}}
      /\ peer' = [peer EXCEPT !.got = got, !.echo = echo, !.last = Stamp(PeerClock0)]
      /\ UNCHANGED <<now, est, conn, samples>>
  BY Zenon DEF PeerReceives
<1>2. PICK k \in 0 .. conn.sent - 1 : s.seq = SeqNo(k)
  BY <1>0 DEF Sent
<1>3. n = k /\ n \in 0 .. MaxSegs - 1
  <2>1. k \in 0 .. MaxSegs /\ k \in 0 .. MaxSegs - 1
    BY <1>0
  <2>2. n = k
    BY <1>2, <2>1, SeqBack
  <2> QED BY <2>1, <2>2
<1>4. got \subseteq 0 .. conn.sent - 1 /\ got \subseteq 0 .. MaxSegs - 1 /\ peer.got \subseteq got /\ n \in got
  <2>1. 0 .. conn.sent - 1 \subseteq 0 .. MaxSegs - 1
    BY <1>0
  <2> HIDE DEF n
  <2> QED BY <1>0, <1>2, <1>3, <2>1
<1>5. Echoed(echo, now) /\ IsU32(echo)
  <2>1. PICK z \in Grain .. now : s.tsval = (Clock0 + z) % Space
    BY <1>0 DEF Sent
  <2>2. IsU32(s.tsval)
    <3>1. Clock0 + z \in Int
      BY Params
    <3> QED BY <2>1, <3>1, ModU32
  <2>3. Echoed(s.tsval, now)
    BY <2>1 DEF Echoed
  <2> HIDE DEF n
  <2> QED BY <1>0, <2>2, <2>3
<1>6. IsTs(ts) /\ ts \in Nat \X Nat /\ ts[1] = Stamp(PeerClock0) /\ ts[2] = echo
  <2>1. IsU32(Stamp(PeerClock0))
    <3>1. PeerClock0 + now \in Int
      BY <1>0, Params
    <3> QED BY <3>1, ModU32 DEF Stamp
  <2> HIDE DEF echo
  <2>2. Stamp(PeerClock0) \in Nat /\ echo \in Nat
    BY <1>5, <2>1 DEF IsU32
  <2>3. ts[1] = Stamp(PeerClock0) /\ ts[2] = echo
    OBVIOUS
  <2>4. IsTs(ts)
    BY <1>5, <2>1 DEF IsTs
  <2> QED BY <2>2, <2>3, <2>4
<1> HIDE DEF n, echo
<1>7. blocks \in Seq(TrueBlocks(got)) /\ Len(blocks) <= 3
  <2> HIDE DEF got, dup
  <2> QED BY <1>3, <1>4, SackBlocksType
<1>8. Cum(got) \in 0 .. MaxSegs /\ 0 .. Cum(got) - 1 \subseteq got
  <2> HIDE DEF got
  <2> QED BY <1>4, CumIs
<1>9. ack.ack = SeqNo(Cum(got)) /\ ack.opts = AckOptions(ts, blocks)
  OBVIOUS
<1> HIDE DEF ts, blocks, ack, got
<1>10. TrueAck(ack, got, now)
  <2>1. Echoed(ts[2], now)
    BY <1>5, <1>6
  <2> QED BY <1>6, <1>7, <1>8, <1>9, <2>1, Zenon DEF TrueAck
<1>11. ParseOptions(ack.opts).timestamps[1] = Stamp(PeerClock0)
  <2>1. ParseOptions(ack.opts).timestamps = ts
    BY <1>6, <1>7, <1>8, <1>9, AckHeard
  <2> QED BY <1>6, <2>1
<1>12. /\ peer' = [got |-> peer'.got, echo |-> peer'.echo, last |-> peer'.last]
       /\ peer'.got = got /\ peer'.echo = echo /\ peer'.last = Stamp(PeerClock0)
  <2> DEFINE x == Stamp(PeerClock0)
  <2>1. [peer EXCEPT !.got = got, !.echo = echo, !.last = x] = [got |-> got, echo |-> echo, last |-> x]
    <3> HIDE DEF x
    <3>1. peer = [got |-> peer.got, echo |-> peer.echo, last |-> peer.last]
      BY <1>0
    <3> DEFINE p == [peer EXCEPT !.got = got]
               q == [p EXCEPT !.echo = echo]
               r == [q EXCEPT !.last = x]
    <3>2. [peer EXCEPT !.got = got, !.echo = echo, !.last = x] = r
      OBVIOUS
    <3>3. p = [got |-> got, echo |-> peer.echo, last |-> peer.last]
      BY <3>1
    <3> HIDE DEF p
    <3>4. q = [got |-> got, echo |-> echo, last |-> peer.last]
      BY <3>3
    <3> HIDE DEF q
    <3>5. r = [got |-> got, echo |-> echo, last |-> x]
      BY <3>4
    <3> HIDE DEF r
    <3> QED BY <3>2, <3>5
  <2>2. peer' = [got |-> got, echo |-> echo, last |-> x]
    BY <1>1, <2>1
  <2> HIDE DEF x
  <2>3. /\ peer' = [got |-> peer'.got, echo |-> peer'.echo, last |-> peer'.last]
        /\ peer'.got = got /\ peer'.echo = echo /\ peer'.last = x
    BY <2>2
  <2> QED BY <2>3 DEF x
<1>13. Believes(conn, got, now)
  <2>1. now <= now
    BY <1>0
  <2> QED BY <1>0, <1>4, <2>1, BelievesMono
<1>14. \A a \in acks' : TrueAck(a, got, now)
  <2>1. now <= now
    BY <1>0
  <2>2. \A a \in acks : TrueAck(a, peer.got, now)
    BY DEF LInv
  <2>3. \A a \in acks : TrueAck(a, got, now)
    BY <1>0, <1>4, <2>1, <2>2, TrueAckMono
  <2> QED BY <1>1, <1>10, <2>3
<1>15. LInv'
  <2>1. now' = now /\ conn' = conn /\ samples' = samples /\ segs' \subseteq segs
    BY <1>1
  <2>2. /\ \A q \in segs' : Sent(q, conn.sent, now)
        /\ \A r \in samples : r \in Int /\ r < now
    BY <2>1 DEF LInv
  <2> QED BY <1>0, <1>4, <1>5, <1>12, <1>13, <1>14, <2>1, <2>2 DEF LInv
<1> QED BY <1>1, <1>11, <1>12, <1>15

LEMMA LInvStep == ASSUME LInv, [Next]_vars PROVE LInv'
<1>1. CASE Tick
  BY <1>1, TickTrue
<1>2. CASE SendBytes
  BY <1>2, SendTrue
<1>3. CASE OnRtoFire
  BY <1>3, RtoTrue
<1>4. CASE OnTlpFire
  BY <1>4, TlpTrue
<1>5. ASSUME NEW a \in acks, RxAck(a) PROVE LInv'
  BY <1>5, RxAckTrue
<1>6. ASSUME NEW s \in segs, PeerReceives(s) PROVE LInv'
  BY <1>6, PeerTrue
<1>7. CASE UNCHANGED vars
  BY <1>7 DEF vars, LInv
<1> QED BY <1>1, <1>2, <1>3, <1>4, <1>5, <1>6, <1>7 DEF Next

LEMMA BelievedHeld == LInv => BoardTrue
<1> SUFFICES ASSUME LInv PROVE BoardTrue
  OBVIOUS
<1> DEFINE g == peer.got
<1>0. /\ conn.sent \in 0 .. MaxSegs /\ MaxSegs \in Nat /\ Acked(conn.una, g, conn.sent)
      /\ conn.board \in Seq(TrueBlocks(g)) /\ conn.entries \in Seq(TrueEntries(g, conn.sent, now))
  BY Params DEF LInv, Believes
<1>1. ASSUME NEW n \in 0 .. conn.sent - 1, IsSacked(conn.board, SeqNo(n)) PROVE n \in g
  <2>1. PICK i \in DOMAIN conn.board : /\ SeqLe(conn.board[i].left, SeqNo(n))
                                       /\ SeqLt(SeqNo(n), conn.board[i].right)
    BY <1>1 DEF IsSacked
  <2> DEFINE b == conn.board[i]
  <2>2. b \in TrueBlocks(g)
    BY <1>0, LenProperties, ElementOfSeq
  <2> HIDE DEF b
  <2>3. PICK l, r \in 0 .. MaxSegs : /\ l < r /\ l .. r - 1 \subseteq g
                                     /\ b.left = SeqNo(l) /\ b.right = SeqNo(r)
    BY <2>2, BlockSpan
  <2>4. n \in 0 .. MaxSegs
    BY <1>0
  <2>5. l <= n /\ n < r
    <3>1. SeqLe(SeqNo(l), SeqNo(n)) /\ SeqLt(SeqNo(n), SeqNo(r))
      BY <2>1, <2>3 DEF b
    <3> QED BY <2>3, <2>4, <3>1, SeqOrder
  <2>6. n \in l .. r - 1
    BY <1>0, <2>3, <2>4, <2>5
  <2> QED BY <2>3, <2>6
<1>2. ASSUME NEW n \in 0 .. conn.sent - 1, SeqLt(SeqNo(n), conn.una) PROVE n \in g
  <2>1. PICK u \in 0 .. conn.sent : conn.una = SeqNo(u) /\ 0 .. u - 1 \subseteq g
    BY <1>0 DEF Acked
  <2>2. n \in 0 .. MaxSegs /\ u \in 0 .. MaxSegs
    BY <1>0
  <2>3. n < u
    BY <1>2, <2>1, <2>2, SeqOrder
  <2>4. n \in 0 .. u - 1
    BY <2>2, <2>3
  <2> QED BY <2>1, <2>4
<1>3. ASSUME NEW i \in DOMAIN conn.entries, conn.entries[i].sacked
      PROVE  (conn.entries[i].seq - Iss) % Space \in g
  <2>1. conn.entries[i] \in TrueEntries(g, conn.sent, now)
    BY <1>0, LenProperties, ElementOfSeq
  <2>2. PICK k \in 0 .. conn.sent - 1 : conn.entries[i].seq = SeqNo(k) /\ (conn.entries[i].sacked => k \in g)
    BY <2>1 DEF TrueEntries, Numbered
  <2>3. k \in 0 .. MaxSegs
    BY <1>0
  <2>4. (SeqNo(k) - Iss) % Space = k
    BY <2>3, SeqBack
  <2> QED BY <1>3, <2>2, <2>4
<1> QED BY <1>1, <1>2, <1>3 DEF BoardTrue

\* For every place of the wrap, every bound on the segments below half of the
\* sequence space and every delay, loss and order of segments and ACKs: what the
\* scoreboard of tcp_sack.rs, the marks of the retransmission queue and snd_una
\* hold for delivered the peer holds, so no byte that it lacks is dropped.
THEOREM BoardInvariant == Spec => []BoardTrue
<1>1. LInv /\ [Next]_vars => LInv'
  BY LInvStep
<1> QED BY <1>1, InitTrue, BelievedHeld, PTL DEF Spec

\* In the same generality: the RTT samples that tcp_input.rs takes from echoed
\* timestamps, and by Karn's rule from the queue, are shorter than the connection
\* has existed, although the clock wraps and ACKs are arbitrarily late.
THEOREM SampleInvariant == Spec => []SamplesReal
<1>1. LInv /\ [Next]_vars => LInv'
  BY LInvStep
<1>2. LInv => SamplesReal
  BY DEF LInv, SamplesReal
<1> QED BY <1>1, <1>2, InitTrue, PTL DEF Spec

-----------------------------------------------------------------------------
\* PAWS.

\* A timestamp of the peer, from its start until time t.
Stamped(y, t) == \E x \in 0 .. t : y = (PeerClock0 + x) % Space

\* TS.Recent and the ACKs on their way carry timestamps of the peer that are not
\* younger than the one that it has sent last.
PInv ==
    /\ now \in Nat /\ now <= MaxNow + Grain
    /\ \E t \in 0 .. now : /\ peer.last = (PeerClock0 + t) % Space
                           /\ Stamped(conn.ts_recent, t)
                           /\ \A a \in acks : Stamped(ParseOptions(a.opts).timestamps[1], t)

LEMMA StampedMono ==
    ASSUME NEW y, NEW t \in Nat, NEW u \in Nat, t <= u, Stamped(y, t)
    PROVE  Stamped(y, u)
<1>1. 0 .. t \subseteq 0 .. u
  OBVIOUS
<1> QED BY <1>1 DEF Stamped

\* What a step does to the timestamps.
LEMMA StampSteps ==
    ASSUME LInv, [Next]_vars
    PROVE  /\ now' = now \/ (now < MaxNow /\ now' = now + Grain)
           /\ \/ /\ peer'.last = peer.last /\ acks' \subseteq acks
                 /\ \/ conn'.ts_recent = conn.ts_recent
                    \/ \E a \in acks : conn'.ts_recent = ParseOptions(a.opts).timestamps[1]
              \/ /\ now' = now /\ peer'.last = Stamp(PeerClock0) /\ conn' = conn
                 /\ \A a \in acks' : a \in acks \/ ParseOptions(a.opts).timestamps[1] = Stamp(PeerClock0)
<1>1. CASE Tick
  BY <1>1 DEF Tick
<1>2. CASE SendBytes
  <2>1. UNCHANGED <<now, acks, peer>>
    BY <1>2 DEF SendBytes
  <2>2. conn'.ts_recent = conn.ts_recent
    BY <1>2, SendTrue
  <2> QED BY <2>1, <2>2
<1>3. CASE OnRtoFire
  <2>1. UNCHANGED <<now, acks, peer>>
    BY <1>3 DEF OnRtoFire
  <2>2. conn'.ts_recent = conn.ts_recent
    BY <1>3, RtoTrue
  <2> QED BY <2>1, <2>2
<1>4. CASE OnTlpFire
  <2>1. UNCHANGED <<now, acks, peer>>
    BY <1>4 DEF OnTlpFire
  <2>2. conn'.ts_recent = conn.ts_recent
    BY <1>4, TlpTrue
  <2> QED BY <2>1, <2>2
<1>5. ASSUME NEW a \in acks, RxAck(a)
      PROVE  /\ now' = now /\ peer'.last = peer.last /\ acks' \subseteq acks
             /\ \/ conn'.ts_recent = conn.ts_recent
                \/ \E b \in acks : conn'.ts_recent = ParseOptions(b.opts).timestamps[1]
  <2>1. now' = now /\ peer' = peer /\ acks' \subseteq acks
    BY <1>5 DEF RxAck
  <2>2. conn'.ts_recent = conn.ts_recent \/ conn'.ts_recent = ParseOptions(a.opts).timestamps[1]
    BY <1>5, RxAckTrue
  <2> QED BY <2>1, <2>2
<1>6. ASSUME NEW s \in segs, PeerReceives(s)
      PROVE  /\ now' = now /\ peer'.last = Stamp(PeerClock0) /\ conn' = conn
             /\ \A a \in acks' : a \in acks \/ ParseOptions(a.opts).timestamps[1] = Stamp(PeerClock0)
  BY <1>6, PeerTrue
<1>7. CASE UNCHANGED vars
  BY <1>7 DEF vars
<1> QED BY <1>1, <1>2, <1>3, <1>4, <1>5, <1>6, <1>7 DEF Next

LEMMA PInvStep == ASSUME LInv, PInv, [Next]_vars PROVE PInv'
<1>1. PICK t \in 0 .. now : /\ peer.last = (PeerClock0 + t) % Space
                            /\ Stamped(conn.ts_recent, t)
                            /\ \A a \in acks : Stamped(ParseOptions(a.opts).timestamps[1], t)
  BY DEF PInv
<1>2. now \in Nat /\ now' \in Nat /\ now <= now' /\ now' <= MaxNow + Grain
  <2>1. now \in Nat /\ now <= MaxNow + Grain /\ (now' = now \/ (now < MaxNow /\ now' = now + Grain))
    BY StampSteps DEF PInv
  <2> QED BY <2>1, Params
<1>3. CASE /\ peer'.last = peer.last /\ acks' \subseteq acks
           /\ \/ conn'.ts_recent = conn.ts_recent
              \/ \E a \in acks : conn'.ts_recent = ParseOptions(a.opts).timestamps[1]
  <2>1. t \in 0 .. now'
    BY <1>2
  <2>2. Stamped(conn'.ts_recent, t)
    BY <1>1, <1>3
  <2>3. \A a \in acks' : Stamped(ParseOptions(a.opts).timestamps[1], t)
    BY <1>1, <1>3
  <2> QED BY <1>1, <1>2, <1>3, <2>1, <2>2, <2>3 DEF PInv
<1>4. CASE /\ now' = now /\ peer'.last = Stamp(PeerClock0) /\ conn' = conn
           /\ \A a \in acks' : a \in acks \/ ParseOptions(a.opts).timestamps[1] = Stamp(PeerClock0)
  <2>1. t \in Nat /\ t <= now /\ now \in 0 .. now' /\ now \in 0 .. now
    BY <1>2, <1>4
  <2>2. Stamp(PeerClock0) = (PeerClock0 + now) % Space
    BY DEF Stamp
  <2>3. Stamped(Stamp(PeerClock0), now)
    BY <2>1, <2>2 DEF Stamped
  <2>4. Stamped(conn'.ts_recent, now)
    BY <1>1, <1>2, <1>4, <2>1, StampedMono
  <2>5. \A a \in acks' : Stamped(ParseOptions(a.opts).timestamps[1], now)
    BY <1>1, <1>2, <1>4, <2>1, <2>3, StampedMono
  <2>6. peer'.last = (PeerClock0 + now) % Space
    BY <1>4, <2>2
  <2> QED BY <1>2, <2>1, <2>4, <2>5, <2>6 DEF PInv
<1> QED BY <1>3, <1>4, StampSteps

\* PAWS in tcp_input.rs never rejects the newest segment of the peer, however its
\* ACKs are delayed and reordered and wherever its clock wraps, in a connection
\* that lives for less than half a period of that clock (the model lets an ACK be
\* under way for as long as the connection lives, and one that is older than half
\* a period passes for new).
THEOREM PawsInvariant ==
    ASSUME MaxNow + Grain < Space \div 2
    PROVE  Spec => []NewestPasses
<1>1. Init => PInv
  <2> SUFFICES ASSUME Init PROVE PInv
    OBVIOUS
  <2>1. now \in Nat /\ now <= MaxNow + Grain /\ 0 \in 0 .. now /\ 0 \in 0 .. 0
    BY Params DEF Init
  <2>2. acks = {} /\ peer.last = PeerClock0 % Space /\ conn.ts_recent = PeerClock0 % Space
    BY DEF Init, NewConn
  <2>3. PeerClock0 + 0 = PeerClock0
    BY Params
  <2>4. Stamped(conn.ts_recent, 0)
    BY <2>1, <2>2, <2>3 DEF Stamped
  <2> QED BY <2>1, <2>2, <2>3, <2>4 DEF PInv
<1>2. LInv /\ PInv /\ [Next]_vars => LInv' /\ PInv'
  BY LInvStep, PInvStep
<1>3. PInv => NewestPasses
  <2> SUFFICES ASSUME PInv PROVE ~SeqLt(peer.last, conn.ts_recent)
    BY DEF NewestPasses, PawsRejects
  <2>1. PICK t \in 0 .. now : peer.last = (PeerClock0 + t) % Space /\ Stamped(conn.ts_recent, t)
    BY DEF PInv
  <2>2. PICK x \in 0 .. t : conn.ts_recent = (PeerClock0 + x) % Space
    BY <2>1 DEF Stamped
  <2>3. /\ t \in Nat /\ x \in Nat /\ t - x < Space \div 2 /\ x - t < Space \div 2 /\ ~(t < x)
        /\ PeerClock0 \in Nat
    BY Params DEF PInv
  <2> QED BY <2>1, <2>2, <2>3, WrapOrder
<1> QED BY <1>1, <1>2, <1>3, InitTrue, PTL DEF Spec
-----------------------------------------------------------------------------
\* The estimator.

\* The shifts of the estimator never leave the interval of its arguments: what
\* the gain takes from the old estimate is at most what it adds of a sample
\* that is not smaller, and the other way round.
LEMMA SmoothedBetween ==
    ASSUME NEW lo \in Nat, NEW hi \in Nat, NEW srtt \in lo .. hi, NEW rtt \in lo .. hi
    PROVE  Smoothed(srtt, rtt) \in lo .. hi
<1>1. /\ srtt \div 8 \in Nat /\ 8 * (srtt \div 8) <= srtt /\ srtt < 8 * (srtt \div 8) + 8
      /\ rtt \div 8 \in Nat /\ 8 * (rtt \div 8) <= rtt /\ rtt < 8 * (rtt \div 8) + 8
  BY SMT
<1>2. srtt - srtt \div 8 + rtt \div 8 \in lo .. hi
  <2>1. CASE rtt <= srtt
    BY <1>1, <2>1, SMT
  <2>2. CASE srtt < rtt
    BY <1>1, <2>2, SMT
  <2> QED  BY <2>1, <2>2, SMT
<1> QED  BY <1>2 DEF Smoothed

\* The variation stays a natural number.
LEMMA VariedNat ==
    ASSUME NEW v \in Nat, NEW d \in Nat
    PROVE  Varied(v, d) \in Nat
  BY SMT DEF Varied

Estimators == [srtt : Nat, rttvar : Nat, rto : MinRto .. MaxRto]

\* RttEstimator::sample of an estimator that has a sample or none.
LEMMA SampleSound ==
    ASSUME NEW e \in Estimators, NEW rtt \in Nat \ {0}
    PROVE  /\ Sample(e, rtt) \in Estimators
           /\ Sample(e, rtt).srtt = IF e.srtt = 0 THEN rtt ELSE Smoothed(e.srtt, rtt)
<1> DEFINE srtt == IF e.srtt = 0 THEN rtt ELSE Smoothed(e.srtt, rtt)
           var  == IF e.srtt = 0 THEN rtt \div 2 ELSE Varied(e.rttvar, AbsDiff(e.srtt, rtt))
<1>0. ~(rtt < 1)
  BY SMT
<1>1. srtt \in Nat
  <2>1. CASE e.srtt = 0
    BY <2>1
  <2>2. CASE e.srtt # 0
    <3>1. e.srtt \in Nat
      BY DEF Estimators
    <3>2. PICK hi \in Nat : e.srtt <= hi /\ rtt <= hi
      BY <3>1, SMT
    <3>3. e.srtt \in 0 .. hi /\ rtt \in 0 .. hi
      BY <3>1, <3>2, SMT
    <3>4. Smoothed(e.srtt, rtt) \in 0 .. hi
      BY <3>3, SmoothedBetween
    <3> QED  BY <3>4, <2>2, SMT
  <2> QED  BY <2>1, <2>2
<1>2. var \in Nat
  <2>1. rtt \div 2 \in Nat
    BY SMT
  <2>2. e.rttvar \in Nat /\ AbsDiff(e.srtt, rtt) \in Nat
    BY SMT DEF AbsDiff, Estimators
  <2> QED  BY <2>1, <2>2, VariedNat
<1>3. Clamp(srtt + 4 * var, MinRto, MaxRto) \in MinRto .. MaxRto
  <2> HIDE DEF srtt, var
  <2> QED  BY <1>1, <1>2, RtoBounds, SMT DEF Clamp
<1>4. Sample(e, rtt) = [srtt |-> srtt, rttvar |-> var, rto |-> Clamp(srtt + 4 * var, MinRto, MaxRto)]
  BY <1>0 DEF Sample
<1> QED
  <2> HIDE DEF srtt, var
  <2>1. Sample(e, rtt) \in Estimators /\ Sample(e, rtt).srtt = srtt
    BY <1>1, <1>2, <1>3, <1>4 DEF Estimators
  <2> QED  BY <2>1 DEF srtt

\* RttEstimator::apply_backoff.
LEMMA BackoffSound ==
    ASSUME NEW e \in Estimators
    PROVE  Backoff(e) \in Estimators /\ Backoff(e).srtt = e.srtt
<1>1. e.rto \in Nat /\ e.rto >= MinRto
  BY RtoBounds, SMT DEF Estimators
<1>2. (IF 2 * e.rto < MaxRto THEN 2 * e.rto ELSE MaxRto) \in MinRto .. MaxRto
  BY <1>1, RtoBounds, SMT
<1> QED  BY <1>2 DEF Backoff, Estimators

\* The inductive invariant: the estimate is among the samples, which are
\* positive, and without a sample there is no estimate.
Among(e, s) == IF s = {} THEN e.srtt = 0
               ELSE \E lo, hi \in s : lo <= e.srtt /\ e.srtt <= hi

EstInv == /\ est \in Estimators
          /\ samples \subseteq Nat \ {0}
          /\ Among(est, samples)

\* A sample that is taken is positive.
LEMMA SamplePositive ==
    ASSUME NEW c, NEW opts, RttSample(c, opts) # None
    PROVE  RttSample(c, opts) \in Nat \ {0}
<1>1. ASSUME NEW x PROVE Sane(x) # None => Sane(x) \in Nat \ {0}
  BY SMT DEF Sane
<1>2. TsSample(opts) # None => TsSample(opts) \in Nat \ {0}
  BY <1>1 DEF TsSample
<1>3. KarnSample(c) # None => KarnSample(c) \in Nat \ {0}
  BY <1>1 DEF KarnSample
<1> QED  BY <1>2, <1>3 DEF RttSample

\* One more sample keeps the estimate among them.
LEMMA SampleKeeps ==
    ASSUME EstInv, NEW rtt \in Nat \ {0}
    PROVE  Sample(est, rtt) \in Estimators /\ Among(Sample(est, rtt), samples \cup {rtt})
<1>1. /\ Sample(est, rtt) \in Estimators
      /\ Sample(est, rtt).srtt = IF est.srtt = 0 THEN rtt ELSE Smoothed(est.srtt, rtt)
  BY SampleSound DEF EstInv
<1>2. est.srtt \in Nat
  BY DEF EstInv, Estimators
<1>3. CASE est.srtt = 0
  <2>1. rtt <= Sample(est, rtt).srtt /\ Sample(est, rtt).srtt <= rtt
    BY <1>1, <1>3, SMT
  <2> QED  BY <1>1, <2>1 DEF Among
<1>4. CASE est.srtt # 0
  <2>1. PICK a, b \in samples : a <= est.srtt /\ est.srtt <= b
    BY <1>4 DEF EstInv, Among
  <2>2. a \in Nat /\ b \in Nat
    BY <2>1 DEF EstInv
  <2>3. PICK lo \in samples \cup {rtt} : lo \in Nat /\ lo <= est.srtt /\ lo <= rtt
    BY <1>2, <2>1, <2>2, SMT
  <2>4. PICK hi \in samples \cup {rtt} : hi \in Nat /\ est.srtt <= hi /\ rtt <= hi
    BY <1>2, <2>1, <2>2, SMT
  <2>5. est.srtt \in lo .. hi /\ rtt \in lo .. hi
    BY <1>2, <2>3, <2>4, SMT
  <2>6. Smoothed(est.srtt, rtt) \in lo .. hi
    BY <2>3, <2>4, <2>5, SmoothedBetween
  <2>7. lo <= Sample(est, rtt).srtt /\ Sample(est, rtt).srtt <= hi
    BY <1>1, <1>4, <2>3, <2>4, <2>6, SMT
  <2> QED  BY <1>1, <2>3, <2>4, <2>7 DEF Among
<1> QED  BY <1>3, <1>4

\* What a step does to the estimator and to the history of samples.
LEMMA EstimatorSteps ==
    ASSUME [Next]_vars
    PROVE  \/ est' = est /\ samples' = samples
           \/ est' = Backoff(est) /\ samples' = samples
           \/ \E rtt \in Nat \ {0} : est' = Sample(est, rtt) /\ samples' = samples \cup {rtt}
<1>1. CASE Tick
  BY <1>1 DEF Tick
<1>2. CASE SendBytes
  BY <1>2 DEF SendBytes
<1>3. CASE OnRtoFire
  BY <1>3 DEF OnRtoFire
<1>4. CASE OnTlpFire
  BY <1>4 DEF OnTlpFire
<1>5. ASSUME NEW a \in acks, RxAck(a)
      PROVE  \/ est' = est /\ samples' = samples
             \/ \E rtt \in Nat \ {0} : est' = Sample(est, rtt) /\ samples' = samples \cup {rtt}
  <2>1. CASE HandleEstablished(a)
    <3> DEFINE opts   == ParseOptions(a.opts)
               sacked == SackBlocksTaken(
                             [conn EXCEPT !.ts_recent = opts.timestamps[1], !.ts_age = now],
                             opts.sack_blocks)
               fresh  == SeqLt(sacked.una, a.ack) /\ SeqLe(a.ack, sacked.nxt)
               rtt    == RttSample([sacked EXCEPT !.una = a.ack], opts)
    <3>1. /\ est' = IF fresh /\ rtt # None THEN Sample(est, rtt) ELSE est
          /\ samples' = IF fresh /\ rtt # None THEN samples \cup {rtt} ELSE samples
      BY <2>1 DEF HandleEstablished
    <3>2. rtt # None => rtt \in Nat \ {0}
      BY SamplePositive
    <3> HIDE DEF fresh, rtt
    <3> QED  BY <3>1, <3>2
  <2>2. CASE ~HandleEstablished(a)
    BY <1>5, <2>2 DEF RxAck
  <2> QED  BY <2>1, <2>2
<1>6. ASSUME NEW s \in segs, PeerReceives(s) PROVE est' = est /\ samples' = samples
  BY <1>6 DEF PeerReceives
<1>7. CASE UNCHANGED vars
  BY <1>7 DEF vars
<1> QED  BY <1>1, <1>2, <1>3, <1>4, <1>5, <1>6, <1>7 DEF Next

LEMMA EstInvStep == ASSUME EstInv, [Next]_vars PROVE EstInv'
<1>1. CASE est' = est /\ samples' = samples
  BY <1>1 DEF EstInv, Among
<1>2. CASE est' = Backoff(est) /\ samples' = samples
  BY <1>2, BackoffSound DEF EstInv, Among
<1>3. ASSUME NEW rtt \in Nat \ {0}, est' = Sample(est, rtt), samples' = samples \cup {rtt}
      PROVE  EstInv'
  <2>1. Sample(est, rtt) \in Estimators /\ Among(Sample(est, rtt), samples \cup {rtt})
    BY SampleKeeps
  <2> QED  BY <1>3, <2>1 DEF EstInv, Among
<1> QED  BY <1>1, <1>2, <1>3, EstimatorSteps

\* For every bound on the timeout, every clock and every behaviour of the network
\* and the peer: the smoothed RTT that tcp_rtt.rs computes with shifts lies
\* between two samples it was given, and the timeout between its bounds.
THEOREM EstimateInvariant == Spec => []EstimateSound
<1>1. Init => EstInv
  <2> SUFFICES ASSUME Init PROVE EstInv
    OBVIOUS
  <2>1. PICK rtt \in SynRtts : est = Seeded(rtt) /\ samples = {rtt} \ {0}
    BY DEF Init
  <2>2. rtt \in Nat
    BY <2>1, LossParams DEF LossParams
  <2>3. CASE rtt = 0
    <3>1. est = NewEstimator /\ samples = {}
      BY <2>1, <2>3 DEF Seeded
    <3> QED BY <3>1, RtoBounds, SMT DEF EstInv, Estimators, NewEstimator, Among
  <2>4. CASE rtt # 0
    <3>1. est = Sample(NewEstimator, rtt) /\ samples = {rtt}
      BY <2>1, <2>4 DEF Seeded
    <3>2. NewEstimator.srtt = 0 /\ NewEstimator \in Estimators
      BY RtoBounds, SMT DEF NewEstimator, Estimators
    <3>3. est.srtt = rtt /\ est \in Estimators
      BY <2>2, <2>4, <3>1, <3>2, SampleSound
    <3> QED BY <2>2, <2>4, <3>1, <3>3, SMT DEF EstInv, Among
  <2> QED BY <2>3, <2>4
<1>2. EstInv /\ [Next]_vars => EstInv'
  BY EstInvStep
<1>3. EstInv => EstimateSound
  BY DEF EstInv, EstimateSound, Estimators, Among
<1> QED  BY <1>1, <1>2, <1>3, PTL DEF Spec
=============================================================================
