-------------------------- MODULE RxDispatchProofs --------------------------
(***************************************************************************)
(* Proofs, for every pool of mbufs, depth of the injector's ring and set   *)
(* of frames, of what the run of RxDispatch checks on a small instance:    *)
(* no mbuf is lost or freed twice between the driver and the connections,  *)
(* and what the network teaches the engine is sound.                       *)
(***************************************************************************)
EXTENDS RxDispatch, FiniteSetTheorems, SequenceTheorems, TLAPS

\* A packet: the mbufs of one frame, each once.
Packets == {p \in Seq(Mbufs) : p # <<>> /\ IsInjective(p)}

-----------------------------------------------------------------------------
\* Counting packets.

LEMMA HoldersType ==
    ASSUME NEW s \in Seq(Packets), NEW m
    PROVE  /\ IsFiniteSet({i \in DOMAIN s : m \in ToSet(s[i])}) /\ Holders(m, s) \in Nat
           /\ (\E i \in DOMAIN s : m \in ToSet(s[i])) => Holders(m, s) >= 1
<1> DEFINE T == {i \in DOMAIN s : m \in ToSet(s[i])}
<1>1. DOMAIN s = 1 .. Len(s) /\ Len(s) \in Nat
  BY LenProperties
<1>2. IsFiniteSet(DOMAIN s)
  BY <1>1, FS_Interval
<1>3. IsFiniteSet(T) /\ Cardinality(T) \in Nat
  BY <1>2, FS_Subset, FS_CardinalityType
<1>4. ASSUME NEW i \in T PROVE Cardinality(T) >= 1
  <2>1. Cardinality(T) # 0
    BY <1>3, <1>4, FS_EmptySet
  <2> QED BY <1>3, <2>1
<1> QED BY <1>3, <1>4 DEF Holders

LEMMA HoldersEmpty ==
    ASSUME NEW m
    PROVE  Holders(m, <<>>) = 0
<1>1. {i \in DOMAIN <<>> : m \in ToSet(<<>>[i])} = {}
  OBVIOUS
<1> QED BY <1>1, FS_EmptySet DEF Holders

LEMMA HoldersAppend ==
    ASSUME NEW s \in Seq(Packets), NEW p \in Packets, NEW m
    PROVE  Holders(m, Append(s, p)) = Holders(m, s) + IF m \in ToSet(p) THEN 1 ELSE 0
<1> DEFINE a == Append(s, p)
           n == Len(s)
           T == {i \in DOMAIN s : m \in ToSet(s[i])}
           U == {i \in DOMAIN a : m \in ToSet(a[i])}
<1>1. /\ n \in Nat /\ DOMAIN s = 1 .. n /\ DOMAIN a = 1 .. n + 1 /\ a[n + 1] = p
      /\ \A i \in 1 .. n : a[i] = s[i]
  BY AppendProperties, LenProperties
<1>0. Holders(m, a) = Cardinality(U) /\ Holders(m, s) = Cardinality(T)
  BY DEF Holders
<1> HIDE DEF a, n
<1>2. IsFiniteSet(T)
  BY HoldersType
<1>3. CASE m \in ToSet(p)
  <2>1. U = T \cup {n + 1} /\ n + 1 \notin T
    BY <1>1, <1>3
  <2>2. Cardinality(U) = Cardinality(T) + 1
    BY <1>2, <2>1, FS_AddElement
  <2> QED BY <1>0, <1>3, <2>2 DEF a
<1>4. CASE m \notin ToSet(p)
  <2>1. U = T
    BY <1>1, <1>4
  <2>2. Cardinality(T) \in Nat
    BY <1>2, FS_CardinalityType
  <2>4. Cardinality(U) = Cardinality(T)
    BY <2>1
  <2> HIDE DEF U, T
  <2>3. Holders(m, a) = Holders(m, s) + 0
    BY <1>0, <2>2, <2>4
  <2> QED BY <1>4, <2>3 DEF a
<1> QED BY <1>3, <1>4

\* The first packet leaves.
LEMMA HoldersTail ==
    ASSUME NEW s \in Seq(Packets), s # <<>>, NEW m
    PROVE  /\ Head(s) \in Packets /\ Tail(s) \in Seq(Packets)
           /\ Holders(m, s) = Holders(m, Tail(s)) + IF m \in ToSet(Head(s)) THEN 1 ELSE 0
<1> DEFINE t == Tail(s)
           n == Len(t)
           T == {i \in DOMAIN t : m \in ToSet(t[i])}
           S == {i \in DOMAIN s : m \in ToSet(s[i])}
           R == S \ {1}
<1>1. /\ Head(s) \in Packets /\ Head(s) = s[1] /\ t \in Seq(Packets) /\ n \in Nat
      /\ DOMAIN s = 1 .. n + 1 /\ DOMAIN t = 1 .. n /\ \A i \in 1 .. n : t[i] = s[i + 1]
  <2>1. Len(s) \in Nat /\ Len(s) # 0 /\ DOMAIN s = 1 .. Len(s)
    BY LenProperties, EmptySeq
  <2>2. /\ Head(s) \in Packets /\ t \in Seq(Packets) /\ n = Len(s) - 1
        /\ \A i \in 1 .. n : t[i] = s[i + 1]
    BY HeadTailProperties
  <2>3. DOMAIN t = 1 .. n /\ n \in Nat
    BY <2>2, LenProperties
  <2> QED BY <2>1, <2>2, <2>3
<1>0. Holders(m, t) = Cardinality(T) /\ Holders(m, s) = Cardinality(S)
  BY DEF Holders
<1> HIDE DEF t, n
<1>2. IsFiniteSet(T) /\ IsFiniteSet(S) /\ IsFiniteSet(R)
  <2>1. IsFiniteSet(T) /\ IsFiniteSet(S)
    BY <1>1, HoldersType
  <2> QED BY <2>1, FS_Subset
<1>3. Cardinality(T) = Cardinality(R) /\ Cardinality(T) \in Nat
  <2> DEFINE f == [i \in T |-> i + 1]
  <2>1. f \in [T -> R]
    BY <1>1
  <2>2. \A i, j \in T : f[i] = f[j] => i = j
    BY <1>1
  <2>3. ASSUME NEW j \in R PROVE \E i \in T : f[i] = j
    <3>1. j - 1 \in 1 .. n /\ (j - 1) + 1 = j
      BY <1>1
    <3>2. j - 1 \in T
      BY <1>1, <3>1
    <3> QED BY <3>1, <3>2
  <2>4. f \in Bijection(T, R)
    BY <2>1, <2>2, <2>3 DEF Bijection, Injection, Surjection, IsInjective
  <2>5. ExistsBijection(T, R)
    BY <2>4 DEF ExistsBijection
  <2> QED BY <1>2, <2>5, FS_Bijection, FS_CardinalityType
<1>4. CASE m \in ToSet(Head(s))
  <2>1. 1 \in S
    BY <1>1, <1>4
  <2>2. Cardinality(R) = Cardinality(S) - 1
    BY <1>2, <2>1, FS_RemoveElement
  <2>3. Cardinality(S) \in Nat
    BY <1>2, FS_CardinalityType
  <2>4. Cardinality(S) = Cardinality(T) + 1
    BY <1>3, <2>2, <2>3
  <2> QED BY <1>0, <1>1, <1>4, <2>4 DEF t
<1>5. CASE m \notin ToSet(Head(s))
  <2>1. S = R
    BY <1>1, <1>5
  <2>3. Cardinality(S) = Cardinality(R)
    BY <2>1
  <2> HIDE DEF S, R, T
  <2>2. Holders(m, s) = Holders(m, t) + 0
    BY <1>0, <1>3, <2>3
  <2> QED BY <1>1, <1>5, <2>2 DEF t
<1> QED BY <1>1, <1>4, <1>5 DEF t

-----------------------------------------------------------------------------
\* The reference counts.

\* 1 for the mbufs of a packet.
In(m, p) == IF m \in ToSet(p) THEN 1 ELSE 0

LEMMA InType ==
    ASSUME NEW m, NEW p
    PROVE  In(m, p) \in {0, 1} /\ In(m, p) \in Nat
BY DEF In

LEMMA Singleton ==
    ASSUME NEW p \in Packets, NEW m
    PROVE  <<p>> \in Seq(Packets) /\ Holders(m, <<p>>) = In(m, p)
<1>1. Append(<<>>, p) = <<p>> /\ <<>> \in Seq(Packets) /\ <<p>> \in Seq(Packets)
  OBVIOUS
<1>2. Holders(m, Append(<<>>, p)) = Holders(m, <<>>) + IF m \in ToSet(p) THEN 1 ELSE 0
  BY <1>1, HoldersAppend, Zenon
<1>3. Holders(m, <<p>>) = 0 + In(m, p)
  BY <1>1, <1>2, HoldersEmpty, Zenon DEF In
<1> QED BY <1>1, <1>3, InType

LEMMA TwoTuple ==
    ASSUME NEW S, NEW p \in S, NEW q \in S
    PROVE  /\ Append(<<p>>, q) = <<p, q>> /\ <<p>> \o <<q>> = <<p, q>>
           /\ <<p>> \in Seq(S) /\ <<p, q>> \in Seq(S)
<1>1. /\ <<p>> \in Seq(S) /\ Len(<<p>>) = 1 /\ <<p>>[1] = p
      /\ <<q>> \in Seq(S) /\ Len(<<q>>) = 1 /\ <<q>>[1] = q
      /\ <<p, q>> \in Seq(S) /\ Len(<<p, q>>) = 2 /\ <<p, q>>[1] = p /\ <<p, q>>[2] = q
  OBVIOUS
<1> DEFINE a == Append(<<p>>, q)
           c == <<p>> \o <<q>>
           t == <<p, q>>
<1>2. a \in Seq(S) /\ Len(a) = 2 /\ a[1] = p /\ a[2] = q
  <2>1. /\ a \in Seq(S) /\ Len(a) = Len(<<p>>) + 1
        /\ \A i \in 1 .. Len(<<p>>) : a[i] = <<p>>[i]
        /\ a[Len(<<p>>) + 1] = q
    BY <1>1, AppendProperties
  <2> QED BY <1>1, <2>1
<1>3. c \in Seq(S) /\ Len(c) = 2 /\ c[1] = p /\ c[2] = q
  BY <1>1
<1> HIDE DEF a, c, t
<1>4. /\ t \in Seq(S) /\ Len(t) = 2 /\ t[1] = p /\ t[2] = q
  BY <1>1 DEF t
<1>5. a = t /\ c = t
  <2>1. Len(a) = Len(t) /\ \A i \in 1 .. Len(a) : a[i] = t[i]
    <3>1. \A i \in 1 .. 2 : i = 1 \/ i = 2
      OBVIOUS
    <3> QED BY <1>2, <1>4, <3>1
  <2>2. Len(c) = Len(t) /\ \A i \in 1 .. Len(c) : c[i] = t[i]
    <3>1. \A i \in 1 .. 2 : i = 1 \/ i = 2
      OBVIOUS
    <3> QED BY <1>3, <1>4, <3>1
  <2> QED BY <1>2, <1>3, <1>4, <2>1, <2>2, SeqEqual
<1> QED BY <1>1, <1>5 DEF a, c, t

LEMMA Pair ==
    ASSUME NEW p \in Packets, NEW q \in Packets, NEW m
    PROVE  <<p, q>> \in Seq(Packets) /\ Holders(m, <<p, q>>) = In(m, p) + In(m, q)
<1>1. Append(<<p>>, q) = <<p, q>> /\ <<p>> \in Seq(Packets) /\ <<p, q>> \in Seq(Packets)
  BY TwoTuple
<1>2. Holders(m, Append(<<p>>, q)) = Holders(m, <<p>>) + IF m \in ToSet(q) THEN 1 ELSE 0
  BY <1>1, HoldersAppend, Zenon
<1> QED BY <1>1, <1>2, Singleton, Zenon DEF In

LEMMA Append1 ==
    ASSUME NEW s \in Seq(Packets), NEW p \in Packets, NEW m
    PROVE  /\ Append(s, p) \in Seq(Packets) /\ Holders(m, s) \in Nat
           /\ Holders(m, Append(s, p)) = Holders(m, s) + In(m, p)
<1>1. Append(s, p) \in Seq(Packets)
  OBVIOUS
<1> QED BY <1>1, HoldersAppend, HoldersType, Zenon DEF In

LEMMA Tail1 ==
    ASSUME NEW s \in Seq(Packets), s # <<>>, NEW m
    PROVE  /\ Head(s) \in Packets /\ Tail(s) \in Seq(Packets) /\ Holders(m, Tail(s)) \in Nat
           /\ Holders(m, s) = Holders(m, Tail(s)) + In(m, Head(s))
<1>1. Tail(s) \in Seq(Packets)
  BY HoldersTail, Zenon
<1> QED BY <1>1, HoldersTail, HoldersType, Zenon DEF In

\* A packet goes into the ring, and the oldest leaves a full one.
LEMMA HoldMoves ==
    ASSUME NEW r \in Seq(Packets), NEW p \in Packets, NEW m, RingDepth \in Nat \ {0}
    PROVE  /\ Held(r, p) \in Seq(Packets) /\ Evicted(r) \in Seq(Packets)
           /\ \A q \in Packets : <<q>> \o Evicted(r) \in Seq(Packets)
           /\ Holders(m, Evicted(r)) + Holders(m, Held(r, p)) = Holders(m, r) + In(m, p)
           /\ Holders(m, <<p>> \o Evicted(r)) + Holders(m, Held(r, p))
                = Holders(m, r) + In(m, p) + In(m, p)
           /\ \A i \in DOMAIN Held(r, p) : Held(r, p)[i] = p \/ \E j \in DOMAIN r : Held(r, p)[i] = r[j]
           /\ \A i \in DOMAIN Evicted(r) : \E j \in DOMAIN r : Evicted(r)[i] = r[j]
           /\ \A i \in DOMAIN (<<p>> \o Evicted(r)) :
                 (<<p>> \o Evicted(r))[i] = p \/ \E j \in DOMAIN r : (<<p>> \o Evicted(r))[i] = r[j]
<1>0. In(m, p) \in Nat /\ Holders(m, r) \in Nat
  BY InType, Append1
<1>1. CASE Len(r) = RingDepth
  <2>1. r # <<>> /\ Evicted(r) = <<Head(r)>> /\ Held(r, p) = Append(Tail(r), p)
    BY <1>1 DEF Evicted, Held
  <2>2. /\ Head(r) \in Packets /\ Tail(r) \in Seq(Packets) /\ Holders(m, Tail(r)) \in Nat
        /\ Holders(m, r) = Holders(m, Tail(r)) + In(m, Head(r))
    BY <2>1, Tail1, Zenon
  <2>3. Holders(m, Append(Tail(r), p)) = Holders(m, Tail(r)) + In(m, p)
    BY <2>2, Append1, Zenon
  <2>4. /\ Holders(m, <<Head(r)>>) = In(m, Head(r)) /\ In(m, Head(r)) \in Nat
        /\ Holders(m, <<p, Head(r)>>) = In(m, p) + In(m, Head(r))
    BY <2>2, Singleton, Pair, InType, Zenon
  <2>5. <<p>> \o <<Head(r)>> = <<p, Head(r)>>
    BY <2>2, TwoTuple, Zenon
  <2>6. \A q \in Packets : <<q>> \o <<Head(r)>> \in Seq(Packets)
    BY <2>2
  <2>7. <<Head(r)>> \in Seq(Packets) /\ Append(Tail(r), p) \in Seq(Packets)
    BY <2>2
  <2>8. \A i \in DOMAIN Append(Tail(r), p) :
           Append(Tail(r), p)[i] = p \/ \E j \in DOMAIN r : Append(Tail(r), p)[i] = r[j]
    BY <2>1
  <2>9. /\ \A i \in DOMAIN <<Head(r)>> : \E j \in DOMAIN r : <<Head(r)>>[i] = r[j]
        /\ \A i \in DOMAIN <<p, Head(r)>> :
             <<p, Head(r)>>[i] = p \/ \E j \in DOMAIN r : <<p, Head(r)>>[i] = r[j]
    <3>1. 1 \in DOMAIN r /\ r[1] = Head(r)
      BY <2>1
    <3> QED BY <3>1
  <2>10. /\ Holders(m, <<Head(r)>>) + Holders(m, Append(Tail(r), p)) = Holders(m, r) + In(m, p)
         /\ Holders(m, <<p, Head(r)>>) + Holders(m, Append(Tail(r), p))
                = Holders(m, r) + In(m, p) + In(m, p)
    BY <1>0, <2>2, <2>3, <2>4
  <2>11. <<p>> \o Evicted(r) = <<p, Head(r)>>
    BY <2>1, <2>5, Zenon
  <2>12. /\ Held(r, p) \in Seq(Packets) /\ Evicted(r) \in Seq(Packets)
         /\ \A q \in Packets : <<q>> \o Evicted(r) \in Seq(Packets)
    BY <2>1, <2>6, <2>7, Zenon
  <2>13. /\ \A i \in DOMAIN Held(r, p) :
              Held(r, p)[i] = p \/ \E j \in DOMAIN r : Held(r, p)[i] = r[j]
         /\ \A i \in DOMAIN Evicted(r) : \E j \in DOMAIN r : Evicted(r)[i] = r[j]
    BY <2>1, <2>8, <2>9, ZenonT(40)
  <2>14. \A i \in DOMAIN (<<p>> \o Evicted(r)) :
            (<<p>> \o Evicted(r))[i] = p \/ \E j \in DOMAIN r : (<<p>> \o Evicted(r))[i] = r[j]
    BY <2>9, <2>11, Zenon
  <2>15. /\ Holders(m, Evicted(r)) + Holders(m, Held(r, p)) = Holders(m, r) + In(m, p)
         /\ Holders(m, <<p>> \o Evicted(r)) + Holders(m, Held(r, p))
                = Holders(m, r) + In(m, p) + In(m, p)
    BY <2>1, <2>10, <2>11, Zenon
  <2> QED BY <2>12, <2>13, <2>14, <2>15, Zenon
<1>2. CASE Len(r) # RingDepth
  <2>1. Evicted(r) = <<>> /\ Held(r, p) = Append(r, p)
    BY <1>2 DEF Evicted, Held
  <2>2. Holders(m, Append(r, p)) = Holders(m, r) + In(m, p) /\ Append(r, p) \in Seq(Packets)
    BY Append1, Zenon
  <2>3. Holders(m, <<>>) = 0 /\ Holders(m, <<p>>) = In(m, p)
    BY HoldersEmpty, Singleton, Zenon
  <2>5. <<p>> \o <<>> = <<p>> /\ \A q \in Packets : <<q>> \o <<>> = <<q>> /\ <<q>> \in Seq(Packets)
    OBVIOUS
  <2>6. \A i \in DOMAIN Append(r, p) :
           Append(r, p)[i] = p \/ \E j \in DOMAIN r : Append(r, p)[i] = r[j]
    OBVIOUS
  <2>7. /\ \A i \in DOMAIN <<>> : \E j \in DOMAIN r : <<>>[i] = r[j]
        /\ \A i \in DOMAIN <<p>> : <<p>>[i] = p
    OBVIOUS
  <2>8. /\ Holders(m, <<>>) + Holders(m, Append(r, p)) = Holders(m, r) + In(m, p)
        /\ Holders(m, <<p>>) + Holders(m, Append(r, p)) = Holders(m, r) + In(m, p) + In(m, p)
    BY <1>0, <2>2, <2>3
  <2>9. <<>> \in Seq(Packets)
    OBVIOUS
  <2> QED BY <2>1, <2>2, <2>5, <2>6, <2>7, <2>8, <2>9, Zenon
<1> QED BY <1>1, <1>2

-----------------------------------------------------------------------------
\* The mbufs of a new frame.

LEMMA AllocPacket ==
    ASSUME NEW n \in Nat \ {0}, NumMbufs \in Nat, refcnt \in [Mbufs -> Int],
           Cardinality(Free) >= n
    PROVE  /\ Alloc(n) \in Packets /\ Alloc(n)[1] \in Mbufs
           /\ \A m \in Mbufs : m \in ToSet(Alloc(n)) => refcnt[m] = 0
<1> DEFINE C == Cardinality(Free)
<1>1. IsFiniteSet(Free)
  <2>1. IsFiniteSet(Mbufs)
    BY FS_Interval DEF Mbufs
  <2>2. Free \subseteq Mbufs
    BY DEF Free
  <2> QED BY <2>1, <2>2, FS_Subset
<1>2. C \in Nat /\ ExistsBijection(1 .. C, Free)
  BY <1>1, FS_CardinalityType
<1>3. PICK b \in Bijection(1 .. C, Free) : TRUE
  BY <1>2 DEF ExistsBijection
<1> HIDE DEF C
<1>4. b \in [1 .. C -> Free] /\ \A i, j \in 1 .. C : b[i] = b[j] => i = j
  BY <1>3 DEF Bijection, Injection, IsInjective
<1> DEFINE s == [i \in 1 .. n |-> b[i]]
<1>5. 1 .. n \subseteq 1 .. C
  BY <1>2 DEF C
<1>6. s \in [1 .. n -> Free] /\ IsInjective(s)
  BY <1>4, <1>5 DEF IsInjective
<1> DEFINE a == Alloc(n)
<1>7. a \in [1 .. n -> Free] /\ IsInjective(a)
  BY <1>6 DEF Alloc
<1> HIDE DEF a
<1>8. Free \subseteq Mbufs /\ \A m \in Free : refcnt[m] = 0
  BY DEF Free
<1>9. a \in [1 .. n -> Mbufs]
  BY <1>7, <1>8
<1>10. a \in Seq(Mbufs) /\ a # <<>> /\ 1 \in DOMAIN a
  BY <1>9
<1>11. ASSUME NEW m \in ToSet(a) PROVE refcnt[m] = 0
  <2>1. PICK i \in DOMAIN a : a[i] = m
    BY <1>11 DEF ToSet
  <2> QED BY <1>7, <1>8, <2>1
<1> QED BY <1>7, <1>9, <1>10, <1>11 DEF a, Packets

-----------------------------------------------------------------------------
\* The decoders.

Before == {r \in Nat \X Nat : r[1] < r[2]}

\* A set of naturals has a least element.
LEMMA Least ==
    ASSUME NEW T \in SUBSET Nat, T # {}
    PROVE  \E x \in T : \A y \in T : x <= y
<1>1. IsWellFoundedOn(Before, Nat)
  BY NatLessThanWellFounded, Zenon DEF OpToRel, Before
<1>2. ASSUME NEW x \in Nat, NEW y \in Nat, <<y, x>> \notin Before
      PROVE  x <= y
  BY <1>2 DEF Before
<1>3. PICK x \in T : \A y \in T : ~(<<y, x>> \in Before)
  BY <1>1, WFMin
<1>4. \A y \in T : x <= y
  BY <1>2, <1>3
<1> QED BY <1>4

\* No check is found only when none of them fails.
LEMMA NoneFails ==
    ASSUME NEW order, Len(order) \in Nat, NEW fails
    PROVE  /\ FirstOf(order, fails) \in 0 .. Len(order)
           /\ FirstOf(order, fails) = 0 => \A i \in 1 .. Len(order) : order[i] \notin fails
<1> DEFINE I == {i \in 1 .. Len(order) : order[i] \in fails}
<1>1. FirstOf(order, fails) = IF I # {} THEN Min(I) ELSE 0
  BY DEF FirstOf, SelectInSeq
<1>2. ASSUME I # {} PROVE FirstOf(order, fails) \in I
  <2>1. I \in SUBSET Nat
    OBVIOUS
  <2>2. PICK x \in I : \A y \in I : x <= y
    BY <1>2, <2>1, Least
  <2>3. Min(I) \in I
    BY <2>2 DEF Min
  <2> QED BY <1>1, <1>2, <2>3
<1>3. CASE I # {}
  <2>1. FirstOf(order, fails) \in 1 .. Len(order)
    BY <1>2, <1>3
  <2> QED BY <2>1
<1>4. CASE I = {}
  <2>1. FirstOf(order, fails) = 0
    BY <1>1, <1>4
  <2>2. \A i \in 1 .. Len(order) : order[i] \notin fails
    BY <1>4
  <2> QED BY <2>1, <2>2
<1> QED BY <1>3, <1>4

LEMMA IpFirst ==
    ASSUME NEW fails
    PROVE  LET i == FirstOf(IpChecks, fails)
           IN  /\ i = 0 => "ip_csum" \notin fails /\ "version" \notin fails
               /\ i # 0 => /\ IpCounters[i] \notin {"ok", "matched", "rx_arp", "rx_icmp"}
                            /\ IpCounters[i] \in IpDrops
<1> DEFINE i == FirstOf(IpChecks, fails)
<1>1. /\ Len(IpChecks) = 7 /\ Len(IpChecks) \in Nat
      /\ IpChecks[7] = "ip_csum" /\ IpChecks[2] = "version"
  BY DEF IpChecks
<1>2. /\ i \in 0 .. Len(IpChecks)
      /\ i = 0 => \A k \in 1 .. Len(IpChecks) : IpChecks[k] \notin fails
  BY <1>1, NoneFails, Zenon
<1>3. \A k \in 1 .. 7 : /\ IpCounters[k] \notin {"ok", "matched", "rx_arp", "rx_icmp"}
                         /\ IpCounters[k] \in IpDrops
  BY DEF IpCounters, IpDrops
<1> HIDE DEF i
<1>4. i # 0 => i \in 1 .. 7
  BY <1>1, <1>2
<1>5. i = 0 => "ip_csum" \notin fails /\ "version" \notin fails
  <2>1. 7 \in 1 .. Len(IpChecks) /\ 2 \in 1 .. Len(IpChecks)
    BY <1>1
  <2> QED BY <1>1, <1>2, <2>1, Zenon
<1>6. i # 0 => IpCounters[i] \notin {"ok", "matched", "rx_arp", "rx_icmp"} /\ IpCounters[i] \in IpDrops
  BY <1>3, <1>4, Zenon
<1> QED BY <1>5, <1>6 DEF i

LEMMA TcpFirst ==
    ASSUME NEW fails
    PROVE  LET i == FirstOf(TcpChecks, fails)
           IN  /\ i = 0 => "tcp_csum" \notin fails
               /\ i # 0 => /\ TcpCounters[i] \notin {"ok", "matched", "rx_arp", "rx_icmp"}
                            /\ TcpCounters[i] \in TcpDrops
<1> DEFINE i == FirstOf(TcpChecks, fails)
<1>1. Len(TcpChecks) = 4 /\ Len(TcpChecks) \in Nat /\ TcpChecks[4] = "tcp_csum"
  BY DEF TcpChecks
<1>2. /\ i \in 0 .. Len(TcpChecks)
      /\ i = 0 => \A k \in 1 .. Len(TcpChecks) : TcpChecks[k] \notin fails
  BY <1>1, NoneFails, Zenon
<1>3. \A k \in 1 .. 4 : /\ TcpCounters[k] \notin {"ok", "matched", "rx_arp", "rx_icmp"}
                         /\ TcpCounters[k] \in TcpDrops
  BY DEF TcpCounters, TcpDrops
<1> HIDE DEF i
<1>4. i # 0 => i \in 1 .. 4
  BY <1>1, <1>2
<1>5. i = 0 => "tcp_csum" \notin fails
  <2>1. 4 \in 1 .. Len(TcpChecks)
    BY <1>1
  <2> QED BY <1>1, <1>2, <2>1, Zenon
<1>6. i # 0 => TcpCounters[i] \notin {"ok", "matched", "rx_arp", "rx_icmp"} /\ TcpCounters[i] \in TcpDrops
  BY <1>3, <1>4, Zenon
<1> QED BY <1>5, <1>6 DEF i

\* What is known of the frame in a packet's mbufs.
Sound(f) ==
    /\ f \in FrameType
    /\ f.damaged => \/ f.eth # "ipv4" \/ f.proto # "tcp"
                    \/ f.fails \cap {"version", "ip_csum", "tcp_csum"} # {}

\* A damaged frame gets to a connection only if the NIC had approved it.
LEMMA DamagedMatched ==
    ASSUME NEW f, Sound(f), f.damaged, "matched" \in RxFrame(f),
           env.cksum_offload \in BOOLEAN
    PROVE  env.cksum_offload /\ f.nic = "good"
<1>1. SUFFICES ASSUME ~(env.cksum_offload /\ f.nic = "good") PROVE FALSE
  OBVIOUS
<1>2. f.eth # "arp" /\ L2Decode(f) = "ok" /\ "matched" \in HandleIpv4(f)
  <2>1. L2Decode(f) # "matched"
    BY DEF L2Decode
  <2> QED BY <2>1 DEF RxFrame
<1>10. f.eth = "ipv4"
  BY <1>2 DEF L2Decode, Sound, FrameType
<1>3. /\ \A b \in BOOLEAN : IpDecode(f, b) # "matched"
      /\ IpDecode(f, FALSE) = "ok" => "ip_csum" \notin f.fails /\ "version" \notin f.fails
  BY IpFirst DEF IpDecode
<1>4. /\ ParseSegment(f, FALSE) # "matched"
      /\ ParseSegment(f, FALSE) = "ok" => "tcp_csum" \notin f.fails
  BY TcpFirst DEF ParseSegment
<1>5. (env.cksum_offload /\ f.nic = "good") = FALSE
  BY <1>1
<1>6. IpDecodeOffloadAware(f) # "matched"
  BY <1>3 DEF IpDecodeOffloadAware
<1>7. IpDecodeOffloadAware(f) = "ok" /\ f.proto # "icmp" /\ TcpInput(f) = "matched"
  BY <1>2, <1>6 DEF HandleIpv4, NicDrop
<1>8. IpDecode(f, FALSE) = "ok"
  BY <1>5, <1>7 DEF IpDecodeOffloadAware
<1>9. ParseSegment(f, FALSE) = "ok"
  BY <1>4, <1>5, <1>7 DEF TcpInput
<1>11. f.proto = "tcp"
  BY <1>7, <1>8, IpFirst DEF IpDecode, Sound, FrameType
<1> QED BY <1>3, <1>4, <1>8, <1>9, <1>10, <1>11 DEF Sound

\* Only an ARP frame is taken as one, and only an IPv4 frame as ICMP.
LEMMA TakenAs ==
    ASSUME NEW f, f.eth \in {"ipv4", "arp", "other"}
    PROVE  /\ "rx_arp" \in RxFrame(f) => f.eth = "arp"
           /\ "rx_icmp" \in RxFrame(f) =>
                 f.eth = "ipv4" /\ f.proto = "icmp" /\ "version" \notin f.fails
<1>1. L2Decode(f) \notin {"rx_arp", "rx_icmp"} /\ (L2Decode(f) = "ok" => f.eth # "other")
  BY DEF L2Decode
<1>2. \A b \in BOOLEAN : /\ IpDecode(f, b) \notin {"rx_arp", "rx_icmp"}
                         /\ IpDecode(f, b) = "ok" => "version" \notin f.fails
  <2> TAKE b \in BOOLEAN
  <2> DEFINE x == IF b THEN f.fails \ {"ip_csum"} ELSE f.fails
             i == FirstOf(IpChecks, x)
  <2>1. /\ i = 0 => "version" \notin x
        /\ i # 0 => IpCounters[i] \notin {"ok", "matched", "rx_arp", "rx_icmp"}
    BY IpFirst
  <2>2. "version" \notin x => "version" \notin f.fails
    OBVIOUS
  <2>3. IpDecode(f, b) = IF i # 0 THEN IpCounters[i]
                         ELSE IF f.dst # LocalIp THEN "not_ours"
                         ELSE IF f.proto = "other" THEN "unsupported_proto"
                         ELSE "ok"
    BY DEF IpDecode
  <2> HIDE DEF i, x
  <2> QED BY <2>1, <2>2, <2>3
<1>3. \A b \in BOOLEAN : ParseSegment(f, b) \notin {"rx_arp", "rx_icmp"}
  BY TcpFirst DEF ParseSegment
<1>4. /\ IpDecodeOffloadAware(f) \notin {"rx_arp", "rx_icmp"}
      /\ IpDecodeOffloadAware(f) = "ok" => "version" \notin f.fails
  <2>1. (env.cksum_offload /\ f.nic = "good") \in BOOLEAN
    OBVIOUS
  <2> QED BY <1>2, <2>1 DEF IpDecodeOffloadAware
<1>5. TcpInput(f) \notin {"rx_arp", "rx_icmp"}
  <2>1. (env.cksum_offload /\ f.nic = "good") \in BOOLEAN
    OBVIOUS
  <2> QED BY <1>3, <2>1 DEF TcpInput
<1>6. \A v : NicDrop(f, v) \subseteq {"rx_drop_cksum_bad"}
  BY DEF NicDrop
<1>7. /\ "rx_arp" \notin HandleIpv4(f)
      /\ "rx_icmp" \in HandleIpv4(f) => f.proto = "icmp" /\ "version" \notin f.fails
  BY <1>4, <1>5, <1>6 DEF HandleIpv4
<1> QED BY <1>1, <1>7 DEF RxFrame

-----------------------------------------------------------------------------
\* The inductive invariant: the books of the references balance, each packet
\* that is under way has its frame, and a frame that the injector damaged
\* still fails the checksum over the damaged part.

Types ==
    /\ refcnt \in [Mbufs -> Int] /\ kept \in [Mbufs -> Nat]
    /\ content \in [Mbufs -> FrameType \cup {NoFrame}]
    /\ burst \in Seq(Packets) /\ todo \in Seq(Packets) /\ ring \in Seq(Packets)
    /\ env \in [injector : BOOLEAN, cksum_offload : BOOLEAN]
    /\ \A ip \in DOMAIN pmtu : pmtu[ip] \in Nat /\ pmtu[ip] >= MinMtu

\* Every packet of s has a frame in the contents c.
Known(c, s) == \A i \in DOMAIN s : Sound(c[s[i][1]])

Exact(rf, b, t, r, k) ==
    \A m \in Mbufs : rf[m] = Holders(m, b) + Holders(m, t) + Holders(m, r) + k[m]

IInv ==
    /\ Types
    /\ FrameRefsExact
    /\ Known(content, burst) /\ Known(content, todo) /\ Known(content, ring)
    /\ DamageContained

LEMMA HeadIn ==
    ASSUME NEW p \in Packets
    PROVE  p[1] \in Mbufs /\ p[1] \in ToSet(p)
BY DEF Packets, ToSet

\* The mbufs of a packet under way are not free.
LEMMA StillUsed ==
    ASSUME NEW b \in Seq(Packets), NEW t \in Seq(Packets), NEW r \in Seq(Packets),
           NEW k \in [Mbufs -> Nat], NEW rf, Exact(rf, b, t, r, k)
    PROVE  /\ \A i \in DOMAIN b : b[i] \in Packets /\ rf[b[i][1]] # 0
           /\ \A i \in DOMAIN t : t[i] \in Packets /\ rf[t[i][1]] # 0
           /\ \A i \in DOMAIN r : r[i] \in Packets /\ rf[r[i][1]] # 0
<1>1. ASSUME NEW m \in Mbufs
      PROVE  /\ Holders(m, b) \in Nat /\ Holders(m, t) \in Nat /\ Holders(m, r) \in Nat
             /\ k[m] \in Nat
             /\ rf[m] = Holders(m, b) + Holders(m, t) + Holders(m, r) + k[m]
  BY HoldersType DEF Exact
<1>2. ASSUME NEW s \in Seq(Packets), NEW i \in DOMAIN s
      PROVE  s[i] \in Packets /\ s[i][1] \in Mbufs /\ Holders(s[i][1], s) >= 1
  <2>1. s[i] \in Packets
    OBVIOUS
  <2>2. s[i][1] \in Mbufs /\ s[i][1] \in ToSet(s[i])
    BY <2>1, HeadIn
  <2> QED BY <2>1, <2>2, HoldersType
<1>3. ASSUME NEW i \in DOMAIN b PROVE b[i] \in Packets /\ rf[b[i][1]] # 0
  <2>1. b[i] \in Packets /\ b[i][1] \in Mbufs /\ Holders(b[i][1], b) >= 1
    BY <1>2
  <2> DEFINE m == b[i][1]
  <2> HIDE DEF m
  <2>2. m \in Mbufs /\ Holders(m, b) >= 1
    BY <2>1 DEF m
  <2>3. rf[m] # 0
    BY <1>1, <2>2
  <2> QED BY <2>1, <2>3 DEF m
<1>4. ASSUME NEW i \in DOMAIN t PROVE t[i] \in Packets /\ rf[t[i][1]] # 0
  <2>1. t[i] \in Packets /\ t[i][1] \in Mbufs /\ Holders(t[i][1], t) >= 1
    BY <1>2
  <2> DEFINE m == t[i][1]
  <2> HIDE DEF m
  <2>2. m \in Mbufs /\ Holders(m, t) >= 1
    BY <2>1 DEF m
  <2>3. rf[m] # 0
    BY <1>1, <2>2
  <2> QED BY <2>1, <2>3 DEF m
<1>5. ASSUME NEW i \in DOMAIN r PROVE r[i] \in Packets /\ rf[r[i][1]] # 0
  <2>1. r[i] \in Packets /\ r[i][1] \in Mbufs /\ Holders(r[i][1], r) >= 1
    BY <1>2
  <2> DEFINE m == r[i][1]
  <2> HIDE DEF m
  <2>2. m \in Mbufs /\ Holders(m, r) >= 1
    BY <2>1 DEF m
  <2>3. rf[m] # 0
    BY <1>1, <2>2
  <2> QED BY <2>1, <2>3 DEF m
<1> QED BY <1>3, <1>4, <1>5

\* What a packet under way has in its mbufs is not cleared.
LEMMA ClearedKeeps ==
    ASSUME NEW b \in Seq(Packets), NEW t \in Seq(Packets), NEW r \in Seq(Packets),
           NEW k \in [Mbufs -> Nat], NEW rf, Exact(rf, b, t, r, k),
           content \in [Mbufs -> FrameType \cup {NoFrame}],
           Known(content, b), Known(content, t), Known(content, r)
    PROVE  LET c == Cleared(rf)
           IN  /\ c \in [Mbufs -> FrameType \cup {NoFrame}]
               /\ Known(c, b) /\ Known(c, t) /\ Known(c, r)
<1> DEFINE c == Cleared(rf)
<1>1. c \in [Mbufs -> FrameType \cup {NoFrame}]
  BY DEF Cleared
<1>2. ASSUME NEW m \in Mbufs, rf[m] # 0 PROVE c[m] = content[m]
  BY <1>2 DEF Cleared
<1> HIDE DEF c
<1>3. /\ \A i \in DOMAIN b : b[i] \in Packets /\ rf[b[i][1]] # 0
      /\ \A i \in DOMAIN t : t[i] \in Packets /\ rf[t[i][1]] # 0
      /\ \A i \in DOMAIN r : r[i] \in Packets /\ rf[r[i][1]] # 0
  BY StillUsed, ZenonT(40)
<1>4. \A p \in Packets : p[1] \in Mbufs
  BY HeadIn
<1>5. Known(c, b)
  BY <1>2, <1>3, <1>4 DEF Known
<1>6. Known(c, t)
  BY <1>2, <1>3, <1>4 DEF Known
<1>7. Known(c, r)
  BY <1>2, <1>3, <1>4 DEF Known
<1> QED BY <1>1, <1>5, <1>6, <1>7 DEF c

\* A flipped byte of the body leaves a damaged frame of the same type.
LEMMA ArpFlipsType ==
    ASSUME NEW f \in FrameType, NEW g \in ArpFlips(f)
    PROVE  g \in FrameType /\ g.damaged /\ g.eth = f.eth
<1> DEFINE h == [f EXCEPT !.damaged = TRUE]
<1>1. h \in FrameType /\ h.damaged /\ h.eth = f.eth
  BY DEF FrameType
<1>2. \/ g = [h EXCEPT !.fails = @ \cup {"arp"}]
      \/ g = [h EXCEPT !.mac = "flipped"]
      \/ \E o \in {"request", "reply"} : g = [h EXCEPT !.op = o]
      \/ \E ip \in Ips : g = [h EXCEPT !.sender = ip]
      \/ \E ip \in Ips : g = [h EXCEPT !.target = ip]
  BY DEF ArpFlips
<1> HIDE DEF h
<1>3. CASE g = [h EXCEPT !.fails = @ \cup {"arp"}]
  BY <1>1, <1>3 DEF FrameType, Checks
<1>4. CASE g = [h EXCEPT !.mac = "flipped"]
  BY <1>1, <1>4 DEF FrameType, Macs
<1>5. CASE \E o \in {"request", "reply"} : g = [h EXCEPT !.op = o]
  BY <1>1, <1>5 DEF FrameType
<1>6. CASE \E ip \in Ips : g = [h EXCEPT !.sender = ip]
  BY <1>1, <1>6 DEF FrameType
<1>7. CASE \E ip \in Ips : g = [h EXCEPT !.target = ip]
  BY <1>1, <1>7 DEF FrameType
<1> QED BY <1>2, <1>3, <1>4, <1>5, <1>6, <1>7

LEMMA Ipv4FlipsType ==
    ASSUME FlipMtus \subseteq Nat, NEW f \in FrameType, NEW g \in Ipv4Flips(f)
    PROVE  g \in FrameType /\ g.damaged /\ g.eth = f.eth /\ g.proto = f.proto
<1> DEFINE h == [f EXCEPT !.damaged = TRUE]
<1>1. h \in FrameType /\ h.damaged /\ h.eth = f.eth /\ h.proto = f.proto
  BY DEF FrameType
<1>2. \/ \E c \in {"ip_csum", "icmp", "tcp_csum"} : g = [h EXCEPT !.fails = @ \cup {c}]
      \/ \E mtu \in FlipMtus : g = [h EXCEPT !.mtu = mtu]
      \/ \E ip \in Ips : g = [h EXCEPT !.about = ip]
  BY DEF Ipv4Flips
<1> HIDE DEF h
<1>3. CASE \E c \in {"ip_csum", "icmp", "tcp_csum"} : g = [h EXCEPT !.fails = @ \cup {c}]
  <2>1. PICK c \in Checks : g = [h EXCEPT !.fails = @ \cup {c}]
    BY <1>3 DEF Checks
  <2> QED BY <1>1, <2>1 DEF FrameType
<1>4. CASE \E mtu \in FlipMtus : g = [h EXCEPT !.mtu = mtu]
  BY <1>1, <1>4 DEF FrameType
<1>5. CASE \E ip \in Ips : g = [h EXCEPT !.about = ip]
  BY <1>1, <1>5 DEF FrameType
<1> QED BY <1>2, <1>3, <1>4, <1>5

\* A flipped byte leaves a frame that fails the checksum over it, if one is
\* verified.
LEMMA FlipsSound ==
    ASSUME RxDispatchParams, NEW f, Sound(f), NEW w \in {"no", "mac", "type", "body"},
           NEW g \in Flips(f, w)
    PROVE  Sound(g)
<1>1. f \in FrameType /\ f.damaged \in BOOLEAN
  BY DEF Sound, FrameType
<1>2. CASE w = "no"
  BY <1>2 DEF Flips
<1>3. CASE w = "mac"
  BY <1>1, <1>3 DEF Flips, Sound, FrameType, Checks
<1>4. CASE w = "type"
  <2>1. PICK e \in {"ipv4", "arp", "other"} :
           g = [f EXCEPT !.eth = e, !.fails = @ \cup {"arp", "version"}]
    BY <1>4 DEF Flips
  <2>2. g \in FrameType /\ "version" \in g.fails
    BY <1>1, <2>1 DEF FrameType, Checks
  <2> QED BY <2>2 DEF Sound
<1>5. CASE w = "body" /\ f.eth = "arp"
  <2>1. g \in ArpFlips(f)
    BY <1>5 DEF Flips
  <2>2. g \in FrameType /\ g.eth = "arp"
    BY <1>1, <1>5, <2>1, ArpFlipsType
  <2> QED BY <2>2 DEF Sound
<1>6. CASE w = "body" /\ f.eth # "arp"
  <2>1. g \in Ipv4Flips(f)
    BY <1>6 DEF Flips
  <2>2. CASE g = [[f EXCEPT !.damaged = TRUE] EXCEPT !.fails = @ \cup {"ip_csum"}]
    BY <1>1, <2>2 DEF Sound, FrameType, Checks
  <2>3. CASE f.proto = "icmp" /\ g # [[f EXCEPT !.damaged = TRUE] EXCEPT !.fails = @ \cup {"ip_csum"}]
    <3>1. FlipMtus \subseteq Nat
      BY DEF RxDispatchParams
    <3>2. g \in FrameType /\ g.proto = "icmp"
      BY <1>1, <2>1, <2>3, <3>1, Ipv4FlipsType
    <3> QED BY <3>2 DEF Sound
  <2>4. CASE f.proto # "icmp" /\ g = [[f EXCEPT !.damaged = TRUE] EXCEPT !.fails = @ \cup {"tcp_csum"}]
    BY <1>1, <2>4 DEF Sound, FrameType, Checks
  <2> QED BY <2>1, <2>2, <2>3, <2>4 DEF Ipv4Flips
<1> QED BY <1>2, <1>3, <1>4, <1>5, <1>6

LEMMA Fronts ==
    ASSUME NEW S, NEW p \in S
    PROVE  Front(<<p>>) = <<>> /\ Front(<<p, p>>) = <<p>>
<1>1. /\ <<p>> \in Seq(S) /\ Len(<<p>>) = 1 /\ <<p>>[1] = p
      /\ <<p, p>> \in Seq(S) /\ Len(<<p, p>>) = 2 /\ <<p, p>>[1] = p
  OBVIOUS
<1> DEFINE s == <<p>>
           t == <<p, p>>
<1>2. SubSeq(s, 1, 0) = <<>>
  BY <1>1
<1>3. SubSeq(t, 1, 1) = <<p>>
  <2> HIDE DEF t
  <2>1. t \in Seq(S) /\ Len(t) = 2 /\ t[1] = p
    BY <1>1 DEF t
  <2>2. /\ SubSeq(t, 1, 1) \in Seq(S) /\ Len(SubSeq(t, 1, 1)) = 1 /\ SubSeq(t, 1, 1)[1] = p
    BY <2>1
  <2> DEFINE u == SubSeq(t, 1, 1)
  <2> HIDE DEF u
  <2>3. u \in Seq(S) /\ Len(u) = 1 /\ u[1] = p
    BY <2>2 DEF u
  <2>4. Len(u) = Len(s) /\ \A i \in 1 .. Len(u) : u[i] = s[i]
    BY <1>1, <2>3
  <2>5. u = s
    BY <1>1, <2>3, <2>4, SeqEqual
  <2> QED BY <2>5 DEF u
<1>4. Front(s) = SubSeq(s, 1, Len(s) - 1) /\ Front(t) = SubSeq(t, 1, Len(t) - 1)
  BY DEF Front
<1>5. Len(s) - 1 = 0 /\ Len(t) - 1 = 1
  BY <1>1
<1> QED BY <1>2, <1>3, <1>4, <1>5, Zenon

\* A path MTU is floored, and an entry only falls.
LEMMA PmtuSound ==
    ASSUME NEW ip, NEW mtu \in Nat, MinMtu \in Nat,
           \A k \in DOMAIN pmtu : pmtu[k] \in Nat /\ pmtu[k] >= MinMtu
    PROVE  LET q == PmtuUpdate(ip, mtu)
           IN  /\ \A k \in DOMAIN q : q[k] \in Nat /\ q[k] >= MinMtu
               /\ \A k \in DOMAIN pmtu : k \in DOMAIN q /\ q[k] <= pmtu[k]
<1> DEFINE g == Floored(mtu)
           q == PmtuUpdate(ip, mtu)
<1>1. g \in Nat /\ g >= MinMtu
  <2>1. \E x \in {mtu, MinMtu} : \A y \in {mtu, MinMtu} : x >= y
    <3>1. CASE mtu >= MinMtu
      BY <3>1
    <3>2. CASE ~(mtu >= MinMtu)
      BY <3>2
    <3> QED BY <3>1, <3>2
  <2>2. g \in {mtu, MinMtu} /\ \A y \in {mtu, MinMtu} : g >= y
    BY <2>1 DEF Floored, Max
  <2> QED BY <2>2
<1>2. q = IF ip \in DOMAIN pmtu /\ g >= pmtu[ip] THEN pmtu
          ELSE [k \in DOMAIN pmtu \cup {ip} |-> IF k = ip THEN g ELSE pmtu[k]]
  BY DEF PmtuUpdate
<1> HIDE DEF g, q
<1>3. CASE ip \in DOMAIN pmtu /\ g >= pmtu[ip]
  <2>1. q = pmtu
    BY <1>2, <1>3
  <2> QED BY <2>1 DEF q
<1>4. CASE ~(ip \in DOMAIN pmtu /\ g >= pmtu[ip])
  <2>1. q = [k \in DOMAIN pmtu \cup {ip} |-> IF k = ip THEN g ELSE pmtu[k]]
    BY <1>2, <1>4
  <2>2. \A k \in DOMAIN q : q[k] \in Nat /\ q[k] >= MinMtu
    BY <1>1, <2>1
  <2>3. \A k \in DOMAIN pmtu : k \in DOMAIN q /\ q[k] <= pmtu[k]
    BY <1>1, <1>4, <2>1
  <2> QED BY <2>2, <2>3 DEF q
<1> QED BY <1>3, <1>4

LEMMA KnownMono ==
    ASSUME NEW c, NEW d, NEW s \in Seq(Packets), Known(c, s),
           \A m \in Mbufs : Sound(c[m]) => Sound(d[m])
    PROVE  Known(d, s)
<1>1. \A i \in DOMAIN s : s[i] \in Packets
  OBVIOUS
<1>2. \A p \in Packets : p[1] \in Mbufs
  BY HeadIn
<1> QED BY <1>1, <1>2 DEF Known

LEMMA KnownAppend ==
    ASSUME NEW c, NEW s \in Seq(Packets), Known(c, s), NEW p \in Packets, Sound(c[p[1]])
    PROVE  Known(c, Append(s, p)) /\ Known(c, <<p>>) /\ Known(c, <<p, p>>) /\ Known(c, <<>>)
<1>1. \A i \in DOMAIN Append(s, p) : Append(s, p)[i] = p \/ (i \in DOMAIN s /\ Append(s, p)[i] = s[i])
  OBVIOUS
<1>2. Known(c, Append(s, p))
  BY <1>1 DEF Known
<1>3. Known(c, <<p>>) /\ Known(c, <<>>)
  BY DEF Known
<1>4. \A i \in DOMAIN <<p, p>> : <<p, p>>[i] = p
  OBVIOUS
<1>5. Known(c, <<p, p>>)
  BY <1>4, Zenon DEF Known
<1> QED BY <1>2, <1>3, <1>5

LEMMA KnownTail ==
    ASSUME NEW c, NEW s \in Seq(Packets), s # <<>>, Known(c, s)
    PROVE  Known(c, Tail(s)) /\ Sound(c[Head(s)[1]])
<1>1. \A i \in DOMAIN Tail(s) : i + 1 \in DOMAIN s /\ Tail(s)[i] = s[i + 1]
  OBVIOUS
<1>2. 1 \in DOMAIN s /\ Head(s) = s[1]
  OBVIOUS
<1> QED BY <1>1, <1>2 DEF Known

LEMMA RefsValue ==
    ASSUME refcnt \in [Mbufs -> Int], NEW p
    PROVE  /\ Refs(p, 1) \in [Mbufs -> Int] /\ Refs(p, -1) \in [Mbufs -> Int]
           /\ \A m \in Mbufs : Refs(p, 1)[m] = refcnt[m] + In(m, p)
           /\ \A m \in Mbufs : Refs(p, -1)[m] = refcnt[m] - In(m, p)
BY DEF Refs, In

\* A new frame: into the burst b, which is the old one or empty.
LEMMA Arrives ==
    ASSUME IInv, NEW f \in Frames, Cardinality(Free) >= f.segs, RxDispatchParams,
           refcnt' = Refs(Alloc(f.segs), 1),
           content' = [content EXCEPT ![Alloc(f.segs)[1]] = f],
           burst' = Append(burst, Alloc(f.segs)),
           UNCHANGED <<todo, ring, kept, pmtu, env, damaged_in>>
    PROVE  IInv'
<1> DEFINE a == Alloc(f.segs)
<1>1. Sound(f) /\ f \in FrameType /\ f.segs \in Nat \ {0} /\ NumMbufs \in Nat
  BY DEF RxDispatchParams, Sound, FrameType
<1>2. a \in Packets /\ a[1] \in Mbufs
  BY <1>1, AllocPacket DEF IInv, Types
<1> HIDE DEF a
<1>3. /\ refcnt' \in [Mbufs -> Int]
      /\ \A m \in Mbufs : refcnt'[m] = refcnt[m] + In(m, a)
  BY RefsValue DEF IInv, Types, a
<1>4. /\ content' \in [Mbufs -> FrameType \cup {NoFrame}]
      /\ content'[a[1]] = f
      /\ \A m \in Mbufs : Sound(content[m]) => Sound(content'[m])
  BY <1>1, <1>2 DEF IInv, Types, a
<1>5. burst' = Append(burst, a) /\ burst \in Seq(Packets) /\ burst' \in Seq(Packets)
  BY <1>2 DEF IInv, Types, a
<1>6. Types'
  BY <1>3, <1>4, <1>5 DEF IInv, Types
<1>7. FrameRefsExact'
  <2> SUFFICES ASSUME NEW m \in Mbufs
               PROVE refcnt'[m] = Holders(m, burst') + Holders(m, todo') + Holders(m, ring') + kept'[m]
    BY DEF FrameRefsExact
  <2>1. Holders(m, burst') = Holders(m, burst) + In(m, a) /\ Holders(m, burst) \in Nat
    BY <1>2, <1>5, Append1
  <2>2. /\ refcnt[m] = Holders(m, burst) + Holders(m, todo) + Holders(m, ring) + kept[m]
        /\ kept[m] \in Nat /\ Holders(m, todo) \in Nat /\ Holders(m, ring) \in Nat
        /\ In(m, a) \in Nat
    BY HoldersType, InType DEF IInv, Types, FrameRefsExact
  <2>3. todo' = todo /\ ring' = ring /\ kept' = kept
    OBVIOUS
  <2> QED BY <1>3, <2>1, <2>2, <2>3, SMTT(30)
<1>8. Known(content', burst) /\ Known(content', todo) /\ Known(content', ring)
  BY <1>4, KnownMono DEF IInv, Types
<1>9. Known(content', burst')
  <2>1. Sound(content'[a[1]])
    BY <1>1, <1>4
  <2> QED BY <1>2, <1>5, <1>8, <2>1, KnownAppend
<1> QED BY <1>6, <1>7, <1>8, <1>9 DEF IInv, DamageContained

\* The injector drops, passes on, duplicates or holds the first packet.
LEMMA DispatchOneRxMbufStep ==
    ASSUME IInv, RxDispatchParams, NEW d \in Faults, DispatchOneRxMbuf(d)
    PROVE  IInv'
<1> DEFINE p == Head(burst)
<1>1. /\ burst # <<>> /\ todo = <<>> /\ burst' = Tail(burst) /\ Process(p, d)
      /\ UNCHANGED <<kept, pmtu, env, damaged_in>>
  BY DEF DispatchOneRxMbuf, history
<1>2. Types /\ FrameRefsExact /\ Known(content, burst) /\ Known(content, ring) /\ DamageContained
  BY DEF IInv
<1>3. p \in Packets /\ Tail(burst) \in Seq(Packets)
  BY <1>1, <1>2, Tail1 DEF Types
<1>4. Known(content, Tail(burst)) /\ Sound(content[p[1]]) /\ p[1] \in Mbufs
  BY <1>1, <1>2, <1>3, KnownTail, HeadIn DEF Types
<1>5. ASSUME NEW m \in Mbufs
      PROVE  /\ Holders(m, Tail(burst)) \in Nat /\ Holders(m, ring) \in Nat /\ kept[m] \in Nat
             /\ In(m, p) \in Nat
             /\ refcnt[m] = Holders(m, Tail(burst)) + In(m, p) + Holders(m, ring) + kept[m]
  <2>1. /\ Holders(m, Tail(burst)) \in Nat
        /\ Holders(m, burst) = Holders(m, Tail(burst)) + In(m, p)
    BY <1>1, <1>2, Tail1 DEF Types
  <2>2. /\ refcnt[m] = Holders(m, burst) + Holders(m, todo) + Holders(m, ring) + kept[m]
        /\ kept[m] \in Nat /\ Holders(m, ring) \in Nat /\ In(m, p) \in Nat
    BY <1>2, HoldersType, InType DEF Types, FrameRefsExact
  <2>3. Holders(m, todo) = 0
    BY <1>1, HoldersEmpty
  <2> QED BY <2>1, <2>2, <2>3
<1> HIDE DEF p
<1>6. CASE d.drop
  <2>1. refcnt' = Refs(p, -1) /\ content' = Cleared(refcnt') /\ UNCHANGED <<todo, ring>>
    BY <1>1, <1>6 DEF Process
  <2>2. /\ refcnt' \in [Mbufs -> Int]
        /\ \A m \in Mbufs : refcnt'[m] = refcnt[m] - In(m, p)
    BY <1>2, <2>1, RefsValue DEF Types
  <2>3. Exact(refcnt', burst', todo', ring', kept')
    <3> SUFFICES ASSUME NEW m \in Mbufs
                 PROVE refcnt'[m] = Holders(m, burst') + Holders(m, todo') + Holders(m, ring') + kept'[m]
      BY DEF Exact
    <3>1. Holders(m, todo') = 0
      BY <1>1, <2>1, HoldersEmpty
    <3>2. burst' = Tail(burst) /\ ring' = ring /\ kept' = kept
      BY <1>1, <2>1
    <3>3. /\ Holders(m, Tail(burst)) \in Nat /\ Holders(m, ring) \in Nat /\ kept[m] \in Nat
          /\ In(m, p) \in Nat
          /\ refcnt[m] = Holders(m, Tail(burst)) + In(m, p) + Holders(m, ring) + kept[m]
      BY <1>5
    <3>4. refcnt'[m] = refcnt[m] - In(m, p)
      BY <2>2
    <3>5. refcnt'[m] = Holders(m, Tail(burst)) + 0 + Holders(m, ring) + kept[m]
      BY <3>3, <3>4
    <3> QED BY <3>1, <3>2, <3>5, Zenon
  <2>4. Known(content, burst') /\ Known(content, todo') /\ Known(content, ring')
    <3>1. Known(content, <<>>)
      BY DEF Known
    <3> QED BY <1>1, <1>2, <1>4, <2>1, <3>1
  <2>5. /\ content' \in [Mbufs -> FrameType \cup {NoFrame}]
        /\ Known(content', burst') /\ Known(content', todo') /\ Known(content', ring')
    <3>1. /\ burst' \in Seq(Packets) /\ todo' \in Seq(Packets) /\ ring' \in Seq(Packets)
          /\ kept' \in [Mbufs -> Nat] /\ content \in [Mbufs -> FrameType \cup {NoFrame}]
      BY <1>1, <1>2, <1>3, <2>1 DEF Types
    <3> QED BY <2>1, <2>3, <2>4, <3>1, ClearedKeeps, Zenon
  <2> QED BY <1>1, <1>2, <1>3, <2>1, <2>2, <2>3, <2>5 DEF IInv, Types, FrameRefsExact, Exact, DamageContained
<1>7. CASE ~d.drop
  <2> DEFINE out == IF d.dup THEN <<p, p>> ELSE <<p>>
  <2>1. /\ \E g \in Flips(content[p[1]], d.corrupt) : content' = [content EXCEPT ![p[1]] = g]
        /\ refcnt' = IF d.dup THEN Refs(p, 1) ELSE refcnt
        /\ todo' = IF d.hold THEN Front(out) \o Evicted(ring) ELSE out
        /\ ring' = IF d.hold THEN Held(ring, p) ELSE ring
    BY <1>1, <1>7 DEF Process, DupSegments
  <2>2. /\ content' \in [Mbufs -> FrameType \cup {NoFrame}]
        /\ \A m \in Mbufs : Sound(content[m]) => Sound(content'[m])
    <3>1. PICK g \in Flips(content[p[1]], d.corrupt) : content' = [content EXCEPT ![p[1]] = g]
      BY <2>1
    <3>2. d.corrupt \in {"no", "mac", "type", "body"}
      BY DEF Faults
    <3>3. Sound(g) /\ g \in FrameType
      BY <1>4, <3>2, FlipsSound DEF Sound
    <3> QED BY <1>2, <1>4, <3>1, <3>3 DEF Types
  <2>3. Known(content', Tail(burst)) /\ Known(content', ring) /\ Sound(content'[p[1]])
    BY <1>2, <1>3, <1>4, <2>2, KnownMono DEF Types
  <2>4. RingDepth \in Nat \ {0} /\ ring \in Seq(Packets)
    BY <1>2 DEF RxDispatchParams, Types
  <2>5. Front(<<p>>) = <<>> /\ Front(<<p, p>>) = <<p>> /\ <<>> \o Evicted(ring) = Evicted(ring)
    <3>1. Evicted(ring) \in Seq(Packets)
      BY <1>3, <2>4, HoldMoves
    <3>2. <<>> \o Evicted(ring) = Evicted(ring)
      BY <3>1
    <3> QED BY <1>3, <3>2, Fronts
  <2>6. /\ refcnt' \in [Mbufs -> Int]
        /\ \A m \in Mbufs : refcnt'[m] = refcnt[m] + IF d.dup THEN In(m, p) ELSE 0
    <3>1. CASE d.dup
      BY <1>2, <2>1, <3>1, RefsValue DEF Types
    <3>2. CASE ~d.dup
      BY <1>2, <2>1, <3>2 DEF Types
    <3> QED BY <3>1, <3>2
  <2> HIDE DEF out
  <2>7. /\ todo' \in Seq(Packets) /\ ring' \in Seq(Packets)
        /\ Known(content', todo') /\ Known(content', ring')
        /\ \A m \in Mbufs : Holders(m, todo') + Holders(m, ring')
                              = Holders(m, ring) + In(m, p) + IF d.dup THEN In(m, p) ELSE 0
    <3>1. CASE ~d.hold
      <4>1. todo' = out /\ ring' = ring
        BY <2>1, <3>1
      <4>2. CASE d.dup
        <5>1. todo' = <<p, p>>
          BY <4>1, <4>2 DEF out
        <5>2. ASSUME NEW m \in Mbufs
              PROVE  /\ <<p, p>> \in Seq(Packets) /\ Holders(m, <<p, p>>) = In(m, p) + In(m, p)
                     /\ Holders(m, ring) \in Nat /\ In(m, p) \in Nat
          BY <1>3, <2>4, Pair, InType, HoldersType
        <5>3. Known(content', <<p, p>>)
          BY <1>3, <2>3, <2>4, KnownAppend
        <5>4. <<p, p>> \in Seq(Packets)
          BY <1>3, TwoTuple
        <5>5. \A m \in Mbufs : Holders(m, <<p, p>>) + Holders(m, ring)
                                = Holders(m, ring) + In(m, p) + In(m, p)
          BY <5>2
        <5> HIDE DEF p
        <5> QED BY <2>3, <2>4, <4>1, <4>2, <5>1, <5>3, <5>4, <5>5, Zenon
      <4>3. CASE ~d.dup
        <5>1. todo' = <<p>>
          BY <4>1, <4>3 DEF out
        <5>2. ASSUME NEW m \in Mbufs
              PROVE  /\ Holders(m, <<p>>) = In(m, p)
                     /\ Holders(m, ring) \in Nat /\ In(m, p) \in Nat
          BY <1>3, <2>4, Singleton, InType, HoldersType
        <5>3. Known(content', <<p>>)
          BY <1>3, <2>3, <2>4, KnownAppend
        <5>4. <<p>> \in Seq(Packets)
          BY <1>3
        <5> QED BY <2>3, <2>4, <4>1, <4>3, <5>1, <5>2, <5>3, <5>4
      <4> QED BY <4>2, <4>3
    <3>2. CASE d.hold
      <4> DEFINE H == Held(ring, p)
                 E == Evicted(ring)
                 P == <<p>> \o E
      <4>1. ASSUME NEW m \in Mbufs
            PROVE  /\ Holders(m, E) + Holders(m, H) = Holders(m, ring) + In(m, p)
                   /\ Holders(m, P) + Holders(m, H) = Holders(m, ring) + In(m, p) + In(m, p)
                   /\ Holders(m, ring) \in Nat /\ In(m, p) \in Nat
        BY <1>3, <2>4, HoldMoves, HoldersType, InType
      <4>2. /\ H \in Seq(Packets) /\ E \in Seq(Packets) /\ P \in Seq(Packets)
            /\ \A i \in DOMAIN H : H[i] = p \/ \E j \in DOMAIN ring : H[i] = ring[j]
            /\ \A i \in DOMAIN E : \E j \in DOMAIN ring : E[i] = ring[j]
            /\ \A i \in DOMAIN P : P[i] = p \/ \E j \in DOMAIN ring : P[i] = ring[j]
        BY <1>3, <2>4, HoldMoves
      <4>3. ring' = H /\ (d.dup => todo' = P) /\ (~d.dup => todo' = E)
        BY <2>1, <2>5, <3>2 DEF out
      <4> HIDE DEF H, E, P
      <4>4. Known(content', H) /\ Known(content', E) /\ Known(content', P)
        BY <2>3, <4>2 DEF Known
      <4>5. CASE d.dup
        BY <4>1, <4>2, <4>3, <4>4, <4>5
      <4>6. CASE ~d.dup
        BY <4>1, <4>2, <4>3, <4>4, <4>6
      <4> QED BY <4>5, <4>6
    <3> QED BY <3>1, <3>2
  <2>8. FrameRefsExact'
    <3> SUFFICES ASSUME NEW m \in Mbufs
                 PROVE refcnt'[m] = Holders(m, burst') + Holders(m, todo') + Holders(m, ring') + kept'[m]
      BY DEF FrameRefsExact
    <3>1. burst' = Tail(burst) /\ kept' = kept
      BY <1>1
    <3>2. Holders(m, todo') \in Nat /\ Holders(m, ring') \in Nat
      BY <2>7, HoldersType
    <3>3. Holders(m, todo') + Holders(m, ring')
             = Holders(m, ring) + In(m, p) + IF d.dup THEN In(m, p) ELSE 0
      BY <2>7
    <3>4. refcnt'[m] = refcnt[m] + IF d.dup THEN In(m, p) ELSE 0
      BY <2>6
    <3>5. (IF d.dup THEN In(m, p) ELSE 0) \in Nat
      BY <1>5
    <3>6. PICK x \in Nat : x = IF d.dup THEN In(m, p) ELSE 0
      BY <3>5
    <3>7. /\ Holders(m, todo') + Holders(m, ring') = Holders(m, ring) + In(m, p) + x
          /\ refcnt'[m] = refcnt[m] + x
      BY <3>3, <3>4, <3>6
    <3>8. /\ Holders(m, Tail(burst)) \in Nat /\ Holders(m, ring) \in Nat /\ kept[m] \in Nat
          /\ In(m, p) \in Nat
          /\ refcnt[m] = Holders(m, Tail(burst)) + In(m, p) + Holders(m, ring) + kept[m]
      BY <1>5
    <3>9. refcnt'[m] = Holders(m, Tail(burst)) + Holders(m, todo') + Holders(m, ring') + kept[m]
      BY <3>2, <3>6, <3>7, <3>8
    <3> QED BY <3>1, <3>9, Zenon
  <2> QED BY <1>1, <1>2, <1>3, <2>2, <2>3, <2>6, <2>7, <2>8 DEF IInv, Types, DamageContained
<1> QED BY <1>6, <1>7

\* A frame is decoded: it is freed, or a connection keeps its reference.
LEMMA DispatchOneRealMbufStep ==
    ASSUME IInv, RxDispatchParams, NEW keep \in BOOLEAN, DispatchOneRealMbuf(keep)
    PROVE  IInv'
<1> DEFINE p == Head(todo)
           f == content[p[1]]
           bumps == RxFrame(f)
           ours == bumps \cap {"rx_arp", "rx_icmp", "matched"}
<1>1. /\ todo # <<>> /\ todo' = Tail(todo)
      /\ keep => Len(p) = 1
      /\ refcnt' = IF keep THEN refcnt ELSE Refs(p, -1)
      /\ kept' = IF keep THEN [kept EXCEPT ![p[1]] = @ + 1] ELSE kept
      /\ content' = Cleared(refcnt')
      /\ IF "rx_icmp" \in ours THEN IcmpInput(f) ELSE UNCHANGED pmtu
      /\ damaged_in' = IF "matched" \in ours /\ f.damaged
                       THEN damaged_in \cup {f.nic = "good"} ELSE damaged_in
      /\ UNCHANGED <<burst, ring, env>>
  BY DEF DispatchOneRealMbuf
<1>2. /\ Types /\ FrameRefsExact /\ DamageContained
      /\ Known(content, burst) /\ Known(content, todo) /\ Known(content, ring)
  BY DEF IInv
<1>3. p \in Packets /\ Tail(todo) \in Seq(Packets)
  BY <1>1, <1>2, Tail1 DEF Types
<1>4. Known(content, Tail(todo)) /\ Sound(content[p[1]]) /\ p[1] \in Mbufs
  BY <1>1, <1>2, <1>3, KnownTail, HeadIn DEF Types
<1>5. ASSUME NEW m \in Mbufs
      PROVE  /\ Holders(m, Tail(todo)) \in Nat /\ Holders(m, ring) \in Nat /\ kept[m] \in Nat
             /\ Holders(m, burst) \in Nat /\ In(m, p) \in Nat
             /\ refcnt[m] = Holders(m, burst) + Holders(m, Tail(todo)) + In(m, p)
                               + Holders(m, ring) + kept[m]
  <2>1. /\ Holders(m, Tail(todo)) \in Nat
        /\ Holders(m, todo) = Holders(m, Tail(todo)) + In(m, p)
    BY <1>1, <1>2, Tail1 DEF Types
  <2>2. /\ refcnt[m] = Holders(m, burst) + Holders(m, todo) + Holders(m, ring) + kept[m]
        /\ kept[m] \in Nat /\ Holders(m, ring) \in Nat /\ In(m, p) \in Nat
        /\ Holders(m, burst) \in Nat
    BY <1>2, HoldersType, InType DEF Types, FrameRefsExact
  <2> QED BY <2>1, <2>2
<1>6. (env.cksum_offload \in BOOLEAN) /\ (env'.cksum_offload = env.cksum_offload)
  BY <1>1, <1>2 DEF Types
<1>7. DamageContained'
  <2>1. CASE "matched" \in ours /\ f.damaged
    <3>1. "matched" \in RxFrame(f) /\ Sound(f)
      BY <1>4, <2>1
    <3>2. env.cksum_offload /\ f.nic = "good"
      BY <1>6, <2>1, <3>1, DamagedMatched
    <3>3. damaged_in' = damaged_in \cup {TRUE}
      BY <1>1, <2>1, <3>2
    <3>4. damaged_in = {} \/ damaged_in = {TRUE}
      BY <1>2 DEF DamageContained
    <3>5. damaged_in' = {TRUE}
      BY <3>3, <3>4
    <3> QED BY <1>6, <3>2, <3>5 DEF DamageContained
  <2>2. CASE ~("matched" \in ours /\ f.damaged)
    <3>1. damaged_in' = damaged_in
      BY <1>1, <2>2
    <3> QED BY <1>2, <1>6, <3>1 DEF DamageContained
  <2> QED BY <2>1, <2>2
<1>8. \A ip \in DOMAIN pmtu' : pmtu'[ip] \in Nat /\ pmtu'[ip] >= MinMtu
  <2>1. CASE pmtu' = pmtu
    BY <1>2, <2>1 DEF Types
  <2>2. CASE pmtu' = PmtuUpdate(f.about, f.mtu)
    BY <1>2, <1>4, <2>2, PmtuSound DEF RxDispatchParams, Types, Sound, FrameType
  <2> QED BY <1>1, <2>1, <2>2 DEF IcmpInput
<1> HIDE DEF p, f, bumps, ours
<1>9. /\ refcnt' \in [Mbufs -> Int] /\ kept' \in [Mbufs -> Nat]
      /\ \A m \in Mbufs : refcnt'[m] - kept'[m] = refcnt[m] - kept[m] - In(m, p)
  <2>1. CASE keep
    <3>1. refcnt' = refcnt /\ kept' = [kept EXCEPT ![p[1]] = @ + 1] /\ Len(p) = 1
      BY <1>1, <2>1
    <3>2. \A m \in Mbufs : In(m, p) = IF m = p[1] THEN 1 ELSE 0
      BY <1>3, <3>1 DEF In, ToSet, Packets
    <3>3. kept' \in [Mbufs -> Nat]
      BY <1>2, <1>4, <3>1 DEF Types
    <3>4. ASSUME NEW m \in Mbufs PROVE kept'[m] = kept[m] + In(m, p)
      BY <1>2, <1>4, <3>1, <3>2 DEF Types
    <3>5. ASSUME NEW m \in Mbufs
          PROVE  refcnt'[m] - kept'[m] = refcnt[m] - kept[m] - In(m, p)
      <4>1. refcnt[m] \in Int /\ kept[m] \in Nat /\ In(m, p) \in Nat
        BY <1>2, <1>5 DEF Types
      <4>2. refcnt'[m] = refcnt[m] /\ kept'[m] = kept[m] + In(m, p)
        BY <3>1, <3>4
      <4> QED BY <4>1, <4>2
    <3> QED BY <1>2, <3>1, <3>3, <3>5 DEF Types
  <2>2. CASE ~keep
    <3>1. refcnt' = Refs(p, -1) /\ kept' = kept
      BY <1>1, <2>2
    <3>2. /\ refcnt' \in [Mbufs -> Int]
          /\ \A m \in Mbufs : refcnt'[m] = refcnt[m] - In(m, p)
      BY <1>2, <3>1, RefsValue DEF Types
    <3> QED BY <1>2, <1>5, <3>1, <3>2, SMTT(30) DEF Types
  <2> QED BY <2>1, <2>2
<1>10. Exact(refcnt', burst', todo', ring', kept')
  <2> SUFFICES ASSUME NEW m \in Mbufs
               PROVE refcnt'[m] = Holders(m, burst') + Holders(m, todo') + Holders(m, ring') + kept'[m]
    BY DEF Exact
  <2>1. burst' = burst /\ ring' = ring /\ todo' = Tail(todo)
    BY <1>1
  <2>2. /\ refcnt'[m] - kept'[m] = refcnt[m] - kept[m] - In(m, p)
        /\ refcnt'[m] \in Int /\ kept'[m] \in Nat
    BY <1>9
  <2>3. refcnt'[m] = Holders(m, burst) + Holders(m, Tail(todo)) + Holders(m, ring) + kept'[m]
    BY <1>5, <2>2
  <2> QED BY <2>1, <2>3, Zenon
<1>11. /\ content' \in [Mbufs -> FrameType \cup {NoFrame}]
       /\ Known(content', burst') /\ Known(content', todo') /\ Known(content', ring')
  <2>1. /\ burst' \in Seq(Packets) /\ todo' \in Seq(Packets) /\ ring' \in Seq(Packets)
        /\ kept' \in [Mbufs -> Nat] /\ content \in [Mbufs -> FrameType \cup {NoFrame}]
    BY <1>1, <1>2, <1>3, <1>9 DEF Types
  <2>2. Known(content, burst') /\ Known(content, todo') /\ Known(content, ring')
    BY <1>1, <1>2, <1>4
  <2>3. content' = Cleared(refcnt')
    BY <1>1
  <2> QED BY <1>10, <2>1, <2>2, <2>3, ClearedKeeps, Zenon
<1> QED BY <1>1, <1>2, <1>3, <1>7, <1>8, <1>9, <1>10, <1>11 DEF IInv, Types, FrameRefsExact, Exact

\* A connection frees what it kept.
LEMMA ReleaseStep ==
    ASSUME IInv, NEW n \in Mbufs, Release(n)
    PROVE  IInv'
<1>1. /\ kept[n] > 0 /\ kept' = [kept EXCEPT ![n] = @ - 1] /\ refcnt' = Refs(<<n>>, -1)
      /\ content' = Cleared(refcnt') /\ UNCHANGED <<burst, todo, ring, pmtu, env, damaged_in>>
  BY DEF Release, history
<1>2. /\ Types /\ FrameRefsExact /\ DamageContained
      /\ Known(content, burst) /\ Known(content, todo) /\ Known(content, ring)
  BY DEF IInv
<1>3. kept' \in [Mbufs -> Nat]
  BY <1>1, <1>2 DEF Types
<1>4. \A m \in Mbufs : In(m, <<n>>) = IF m = n THEN 1 ELSE 0
  BY DEF In, ToSet
<1>5. /\ refcnt' \in [Mbufs -> Int]
      /\ \A m \in Mbufs : refcnt'[m] = refcnt[m] - In(m, <<n>>)
  BY <1>1, <1>2, RefsValue DEF Types
<1>6. ASSUME NEW m \in Mbufs PROVE kept'[m] = kept[m] - In(m, <<n>>)
  <2>1. kept[m] \in Nat /\ In(m, <<n>>) = IF m = n THEN 1 ELSE 0
    BY <1>2, <1>4 DEF Types
  <2>2. kept'[m] = IF m = n THEN kept[m] - 1 ELSE kept[m]
    BY <1>1, <1>2 DEF Types
  <2> QED BY <2>1, <2>2
<1>7. Exact(refcnt', burst', todo', ring', kept')
  <2> SUFFICES ASSUME NEW m \in Mbufs
               PROVE refcnt'[m] = Holders(m, burst') + Holders(m, todo') + Holders(m, ring') + kept'[m]
    BY DEF Exact
  <2>1. /\ refcnt[m] = Holders(m, burst) + Holders(m, todo) + Holders(m, ring) + kept[m]
        /\ kept[m] \in Nat /\ Holders(m, ring) \in Nat /\ In(m, <<n>>) \in Nat
        /\ Holders(m, burst) \in Nat /\ Holders(m, todo) \in Nat
    BY <1>2, HoldersType, InType DEF Types, FrameRefsExact
  <2>2. refcnt'[m] = refcnt[m] - In(m, <<n>>) /\ kept'[m] = kept[m] - In(m, <<n>>)
    BY <1>5, <1>6
  <2>3. refcnt'[m] = Holders(m, burst) + Holders(m, todo) + Holders(m, ring) + kept'[m]
    BY <2>1, <2>2
  <2>4. burst' = burst /\ todo' = todo /\ ring' = ring
    BY <1>1
  <2> QED BY <2>3, <2>4, Zenon
<1>8. /\ content' \in [Mbufs -> FrameType \cup {NoFrame}]
      /\ Known(content', burst') /\ Known(content', todo') /\ Known(content', ring')
  <2>1. /\ burst' \in Seq(Packets) /\ todo' \in Seq(Packets) /\ ring' \in Seq(Packets)
        /\ kept' \in [Mbufs -> Nat] /\ content \in [Mbufs -> FrameType \cup {NoFrame}]
    BY <1>1, <1>2, <1>3 DEF Types
  <2>2. Known(content, burst') /\ Known(content, todo') /\ Known(content, ring')
    BY <1>1, <1>2
  <2>3. content' = Cleared(refcnt')
    BY <1>1
  <2> QED BY <1>7, <2>1, <2>2, <2>3, ClearedKeeps, Zenon
<1> QED BY <1>1, <1>2, <1>3, <1>5, <1>7, <1>8
        DEF IInv, Types, FrameRefsExact, Exact, DamageContained

\* The injector goes and frees what it held.
LEMMA DropInjectorStep ==
    ASSUME IInv, DropInjector
    PROVE  IInv'
<1>1. /\ refcnt' = [m \in Mbufs |-> refcnt[m] - Holders(m, ring)]
      /\ content' = Cleared(refcnt') /\ ring' = <<>>
      /\ env' = [env EXCEPT !.injector = FALSE]
      /\ UNCHANGED <<burst, todo, kept, pmtu, damaged_in>>
  BY DEF DropInjector, Holders, history
<1>2. /\ Types /\ FrameRefsExact /\ DamageContained
      /\ Known(content, burst) /\ Known(content, todo) /\ Known(content, ring)
  BY DEF IInv
<1>3. \A m \in Mbufs : Holders(m, ring) \in Nat
  BY <1>2, HoldersType DEF Types
<1>4. refcnt' \in [Mbufs -> Int]
  BY <1>1, <1>2, <1>3 DEF Types
<1>5. env' \in [injector : BOOLEAN, cksum_offload : BOOLEAN] /\ env'.cksum_offload = env.cksum_offload
  BY <1>1, <1>2 DEF Types
<1>6. Exact(refcnt', burst', todo', ring', kept')
  <2> SUFFICES ASSUME NEW m \in Mbufs
               PROVE refcnt'[m] = Holders(m, burst') + Holders(m, todo') + Holders(m, ring') + kept'[m]
    BY DEF Exact
  <2>1. /\ refcnt[m] = Holders(m, burst) + Holders(m, todo) + Holders(m, ring) + kept[m]
        /\ kept[m] \in Nat /\ Holders(m, ring) \in Nat
        /\ Holders(m, burst) \in Nat /\ Holders(m, todo) \in Nat
    BY <1>2, HoldersType DEF Types, FrameRefsExact
  <2>2. refcnt'[m] = refcnt[m] - Holders(m, ring)
    BY <1>1
  <2>3. refcnt'[m] = Holders(m, burst) + Holders(m, todo) + 0 + kept[m]
    BY <2>1, <2>2
  <2>4. burst' = burst /\ todo' = todo /\ kept' = kept /\ Holders(m, ring') = 0
    BY <1>1, HoldersEmpty
  <2> QED BY <2>3, <2>4, Zenon
<1>7. /\ content' \in [Mbufs -> FrameType \cup {NoFrame}]
      /\ Known(content', burst') /\ Known(content', todo') /\ Known(content', ring')
  <2>1. /\ burst' \in Seq(Packets) /\ todo' \in Seq(Packets) /\ ring' \in Seq(Packets)
        /\ kept' \in [Mbufs -> Nat] /\ content \in [Mbufs -> FrameType \cup {NoFrame}]
    BY <1>1, <1>2 DEF Types
  <2>2. Known(content, burst') /\ Known(content, todo') /\ Known(content, ring')
    BY <1>1, <1>2 DEF Known
  <2>3. content' = Cleared(refcnt')
    BY <1>1
  <2> QED BY <1>6, <2>1, <2>2, <2>3, ClearedKeeps, Zenon
<1>8. Types'
  BY <1>1, <1>2, <1>4, <1>5, <1>7 DEF Types
<1>9. DamageContained'
  BY <1>1, <1>2, <1>5 DEF DamageContained
<1> QED BY <1>6, <1>7, <1>8, <1>9 DEF IInv, FrameRefsExact, Exact

-----------------------------------------------------------------------------
LEMMA InitInv ==
    ASSUME RxDispatchParams, Init
    PROVE  IInv
<1>1. Types
  BY DEF Init, Types
<1>2. FrameRefsExact
  <2> SUFFICES ASSUME NEW m \in Mbufs
               PROVE refcnt[m] = Holders(m, burst) + Holders(m, todo) + Holders(m, ring) + kept[m]
    BY DEF FrameRefsExact
  <2>1. Holders(m, burst) = 0 /\ Holders(m, todo) = 0 /\ Holders(m, ring) = 0
    BY HoldersEmpty DEF Init
  <2> QED BY <2>1 DEF Init
<1>3. Known(content, burst) /\ Known(content, todo) /\ Known(content, ring)
  BY DEF Init, Known
<1> QED BY <1>1, <1>2, <1>3 DEF Init, IInv, DamageContained

\* A step that touches no packet.
LEMMA QuietStep ==
    ASSUME IInv, UNCHANGED <<refcnt, content, burst, todo, ring, kept, pmtu, env, damaged_in>>
    PROVE  IInv'
BY DEF IInv, Types, FrameRefsExact, Known, DamageContained

\* Whatever an injection took before it failed, its clean-up gives back.
LEMMA CleanUpBalances ==
    ASSUME IInv, NEW taken, InjectAbandoned(taken)
    PROVE  refcnt' = refcnt
<1>1. refcnt \in [Mbufs -> Int]
  BY DEF IInv, Types
<1>2. ASSUME NEW m \in Mbufs
      PROVE  Refs(taken, 1)[m] - (IF m \in ToSet(CleanedUp(taken)) THEN 1 ELSE 0) = refcnt[m]
  BY <1>1 DEF Refs, CleanedUp
<1>3. refcnt' = [m \in Mbufs |-> refcnt[m]]
  BY <1>2 DEF InjectAbandoned
<1> QED BY <1>1, <1>3

LEMMA NextInv ==
    ASSUME RxDispatchParams, IInv, [Next]_vars
    PROVE  IInv'
<1>1. ASSUME NEW f \in Frames, PollOnce(f) PROVE IInv'
  <2>1. /\ Cardinality(Free) >= f.segs /\ refcnt' = Refs(Alloc(f.segs), 1)
        /\ content' = [content EXCEPT ![Alloc(f.segs)[1]] = f]
        /\ burst' = Append(burst, Alloc(f.segs))
        /\ UNCHANGED <<todo, ring, kept, pmtu, env, damaged_in>>
    BY <1>1 DEF PollOnce
  <2> QED BY <2>1, Arrives, Zenon
<1>2. ASSUME NEW f \in Frames, InjectRx(f) PROVE IInv'
  <2>1. CASE Cardinality(Free) >= f.segs /\ ~f.huge
    <3>1. /\ Cardinality(Free) >= f.segs /\ refcnt' = Refs(Alloc(f.segs), 1)
          /\ content' = [content EXCEPT ![Alloc(f.segs)[1]] = f]
          /\ burst = <<>> /\ burst' = <<Alloc(f.segs)>>
          /\ UNCHANGED <<todo, ring, kept, pmtu, env, damaged_in>>
      BY <1>2, <2>1 DEF InjectRx
    <3>2. <<Alloc(f.segs)>> = Append(<<>>, Alloc(f.segs))
      OBVIOUS
    <3>3. burst' = Append(burst, Alloc(f.segs))
      BY <3>1, <3>2, Zenon
    <3> QED BY <3>1, <3>3, Arrives, Zenon
  <2>2. CASE ~(Cardinality(Free) >= f.segs /\ ~f.huge)
    <3> DEFINE a == Alloc(Min({Cardinality(Free), f.segs}))
    <3>1. /\ InjectAbandoned(a)
          /\ UNCHANGED <<content, burst, todo, ring, kept, pmtu, env, damaged_in>>
      BY <1>2, <2>2 DEF InjectRx
    <3> HIDE DEF a
    <3>2. refcnt' = refcnt
      BY <3>1, CleanUpBalances
    <3> QED BY <3>1, <3>2, QuietStep
  <2> QED BY <2>1, <2>2
<1>3. ASSUME NEW ip, BurstEnds \/ PollEnds \/ AddLocalIp(ip) \/ Connect(ip) \/ UNCHANGED vars
      PROVE  IInv'
  <2>1. UNCHANGED <<refcnt, content, burst, todo, ring, kept, pmtu, env, damaged_in>>
    BY <1>3 DEF BurstEnds, PollEnds, AddLocalIp, Connect, vars, history
  <2> QED BY <2>1, QuietStep
<1>4. ASSUME NEW d \in Faults, DispatchOneRxMbuf(d) PROVE IInv'
  BY <1>4, DispatchOneRxMbufStep
<1>5. ASSUME NEW keep \in BOOLEAN, DispatchOneRealMbuf(keep) PROVE IInv'
  BY <1>5, DispatchOneRealMbufStep
<1>6. ASSUME NEW m \in Mbufs, Release(m) PROVE IInv'
  BY <1>6, ReleaseStep
<1>7. CASE DropInjector
  BY <1>7, DropInjectorStep
<1> QED BY <1>1, <1>2, <1>3, <1>4, <1>5, <1>6, <1>7 DEF Next

\* The invariant holds in every state of the reception path.
THEOREM Invariance == Spec => []IInv
<1>1. Init => IInv
  BY InitInv, RxDispatchParams
<1>2. IInv /\ [Next]_vars => IInv'
  BY NextInv, RxDispatchParams
<1> QED BY <1>1, <1>2, PTL DEF Spec

\* Every mbuf has exactly one reference for each of the burst, the packets on
\* their way to the decoder, the injector's ring and the connections that will
\* free it, whatever the pool, the ring's depth and the frames.
THEOREM ReferencesAreExact == Spec => []FrameRefsExact
<1>1. IInv => FrameRefsExact
  BY DEF IInv
<1> QED BY <1>1, Invariance, PTL

\* A segment that the injector damaged gets past ip_decode and parse_segment
\* only when the NIC had approved the checksums and its verdict is used.
THEOREM DamageIsContained == Spec => []DamageContained
<1>1. IInv => DamageContained
  BY DEF IInv
<1> QED BY <1>1, Invariance, PTL

-----------------------------------------------------------------------------
\* What is learned: a frame in an mbuf is damaged, or says what it said when it
\* arrived if its decoder still takes it.

Genuine(f, all) ==
    \/ f.damaged
    \/ /\ f.eth = "arp" /\ "arp" \notin f.fails
          => \E g \in all : g.eth = "arp" /\ g.sender = f.sender /\ g.mac = f.mac
       /\ f.eth = "ipv4" /\ f.proto = "icmp" /\ "version" \notin f.fails
          => \E g \in all : g.eth = "ipv4" /\ g.about = f.about /\ g.mtu = f.mtu

AllGenuine(c, all) == \A m \in Mbufs : c[m] \in FrameType => Genuine(c[m], all)

GInv == AllGenuine(content, arrived) /\ LearnedSound

LEMMA NoFrameIsNone == NoFrame \notin FrameType
<1>1. \A f \in FrameType : f.eth # "none"
  BY DEF FrameType
<1>2. NoFrame.eth = "none"
  BY DEF NoFrame
<1> QED BY <1>1, <1>2

LEMMA FlipsGenuine ==
    ASSUME RxDispatchParams, NEW all, NEW f \in FrameType, Genuine(f, all),
           NEW w \in {"no", "mac", "type", "body"}, NEW g \in Flips(f, w)
    PROVE  Genuine(g, all)
<1>1. CASE w = "no"
  BY <1>1 DEF Flips
<1>2. CASE w = "mac"
  <2>1. /\ g.damaged = f.damaged /\ g.eth = f.eth /\ g.proto = f.proto /\ g.sender = f.sender
        /\ g.mac = f.mac /\ g.about = f.about /\ g.mtu = f.mtu /\ f.fails \subseteq g.fails
    BY <1>2 DEF Flips, FrameType
  <2> QED BY <2>1 DEF Genuine
<1>3. CASE w = "type"
  <2>1. {"arp", "version"} \subseteq g.fails
    <3>1. PICK e \in {"ipv4", "arp", "other"} :
             g = [f EXCEPT !.eth = e, !.fails = @ \cup {"arp", "version"}]
      BY <1>3 DEF Flips
    <3> QED BY <3>1 DEF FrameType
  <2> QED BY <2>1 DEF Genuine
<1>4. CASE w = "body"
  <2>1. g.damaged
    <3>1. FlipMtus \subseteq Nat
      BY DEF RxDispatchParams
    <3>2. g \in ArpFlips(f) \/ g \in Ipv4Flips(f)
      BY <1>4 DEF Flips
    <3> QED BY <3>1, <3>2, ArpFlipsType, Ipv4FlipsType
  <2> QED BY <2>1 DEF Genuine
<1> QED BY <1>1, <1>2, <1>3, <1>4

\* Steps that teach nothing; what arrived only grows.
LEMMA NothingLearned ==
    ASSUME GInv, UNCHANGED <<gateway_mac, pmtu, told, misled>>, arrived \subseteq arrived',
           AllGenuine(content', arrived')
    PROVE  GInv'
<1>1. AnnouncedMacs \subseteq AnnouncedMacs' /\ AnnouncedMtus \subseteq AnnouncedMtus'
  BY DEF AnnouncedMacs, AnnouncedMtus
<1>2. LearnedSound'
  <2>1. LearnedSound
    BY DEF GInv
  <2> QED BY <1>1, <2>1 DEF LearnedSound, Floored
<1> QED BY <1>2 DEF GInv

\* Mbufs that are cleared leave genuine frames.
LEMMA ClearedGenuine ==
    ASSUME AllGenuine(content, arrived), NEW rf
    PROVE  AllGenuine(Cleared(rf), arrived)
<1>1. ASSUME NEW m \in Mbufs, Cleared(rf)[m] \in FrameType
      PROVE  Genuine(Cleared(rf)[m], arrived)
  <2>1. Cleared(rf)[m] = content[m]
    BY <1>1, NoFrameIsNone DEF Cleared
  <2> QED BY <1>1, <2>1 DEF AllGenuine
<1> QED BY <1>1 DEF AllGenuine

\* A new frame is remembered if the engine may learn from it.
LEMMA ArrivesGenuine ==
    ASSUME RxDispatchParams, IInv, AllGenuine(content, arrived), NEW f \in Frames,
           arrived' = arrived \cup Teachers(f), NEW h,
           content' = [content EXCEPT ![h] = f]
    PROVE  AllGenuine(content', arrived') /\ arrived \subseteq arrived'
<1>1. f \in FrameType /\ Genuine(f, arrived')
  <2>1. f.eth = "arp" \/ (f.eth = "ipv4" /\ f.proto = "icmp") => f \in arrived'
    BY DEF Teachers
  <2>2. f \in FrameType
    BY DEF RxDispatchParams
  <2> QED BY <2>1, <2>2 DEF Genuine
<1>2. ASSUME NEW m \in Mbufs, content'[m] \in FrameType PROVE Genuine(content'[m], arrived')
  <2>1. content'[m] = f \/ content'[m] = content[m]
    BY DEF IInv, Types
  <2>2. CASE content'[m] = f
    BY <1>1, <2>2
  <2>3. CASE content'[m] = content[m]
    BY <1>2, <2>3 DEF AllGenuine, Genuine
  <2> QED BY <2>1, <2>2, <2>3
<1> QED BY <1>2 DEF AllGenuine

\* Floored is one of its two arguments.
LEMMA FlooredNat ==
    ASSUME NEW mtu \in Nat, MinMtu \in Nat
    PROVE  Floored(mtu) \in Nat
<1>1. \E x \in {mtu, MinMtu} : \A y \in {mtu, MinMtu} : x >= y
  <2>1. CASE mtu >= MinMtu
    BY <2>1
  <2>2. CASE ~(mtu >= MinMtu)
    BY <2>2
  <2> QED BY <2>1, <2>2
<1>2. Floored(mtu) \in {mtu, MinMtu}
  BY <1>1 DEF Floored, Max
<1> QED BY <1>2

\* A table q has the least, floored, of the MTUs of all.
LeastOf(q, all) ==
    /\ \A t \in all : t[1] \in DOMAIN q /\ q[t[1]] <= Floored(t[2])
    /\ \A k \in DOMAIN q : \E t \in all : t[1] = k /\ q[k] = Floored(t[2])

FlooredAll(all) == \A t \in all : Floored(t[2]) \in Nat

\* The least of what was told, when one more MTU is read.
LEMMA LeastTold ==
    ASSUME NEW ip, NEW mtu \in Nat, MinMtu \in Nat,
           \A k \in DOMAIN pmtu : pmtu[k] \in Nat,
           NEW all, LeastOf(pmtu, all), FlooredAll(all)
    PROVE  LeastOf(PmtuUpdate(ip, mtu), all \cup {<<ip, mtu>>})
<1>0. /\ \A t \in all : t[1] \in DOMAIN pmtu /\ pmtu[t[1]] <= Floored(t[2])
      /\ \A t \in all : Floored(t[2]) \in Nat
      /\ \A k \in DOMAIN pmtu : \E t \in all : t[1] = k /\ pmtu[k] = Floored(t[2])
  BY DEF LeastOf, FlooredAll
<1> DEFINE g == Floored(mtu)
           more == all \cup {<<ip, mtu>>}
           q == PmtuUpdate(ip, mtu)
           u == <<ip, mtu>>
<1>1. g \in Nat
  BY FlooredNat
<1>2. q = IF ip \in DOMAIN pmtu /\ g >= pmtu[ip] THEN pmtu
          ELSE [k \in DOMAIN pmtu \cup {ip} |-> IF k = ip THEN g ELSE pmtu[k]]
  BY DEF PmtuUpdate
<1>3. u[1] = ip /\ Floored(u[2]) = g /\ more = all \cup {u}
  OBVIOUS
<1> HIDE DEF g, q, u, more
<1>4. CASE ip \in DOMAIN pmtu /\ g >= pmtu[ip]
  <2>1. q = pmtu
    BY <1>2, <1>4
  <2>2. \A t \in more : t[1] \in DOMAIN q /\ q[t[1]] <= Floored(t[2])
    BY <1>0, <1>1, <1>3, <1>4, <2>1
  <2>3. \A k \in DOMAIN q : \E t \in more : t[1] = k /\ q[k] = Floored(t[2])
    BY <1>0, <1>3, <2>1
  <2> QED BY <2>2, <2>3 DEF q, more, LeastOf
<1>5. CASE ~(ip \in DOMAIN pmtu /\ g >= pmtu[ip])
  <2>1. q = [k \in DOMAIN pmtu \cup {ip} |-> IF k = ip THEN g ELSE pmtu[k]]
    BY <1>2, <1>5
  <2>2. ASSUME NEW t \in more PROVE t[1] \in DOMAIN q /\ q[t[1]] <= Floored(t[2])
    <3>1. CASE t = u
      BY <1>1, <1>3, <2>1, <3>1
    <3>2. CASE t \in all
      <4>1. t[1] \in DOMAIN pmtu /\ pmtu[t[1]] <= Floored(t[2]) /\ Floored(t[2]) \in Nat
            /\ pmtu[t[1]] \in Nat
        BY <1>0, <3>2
      <4>2. CASE t[1] = ip
        <5>1. g < pmtu[ip]
          BY <1>1, <1>5, <4>1, <4>2
        <5> QED BY <1>1, <2>1, <4>1, <4>2, <5>1
      <4>3. CASE t[1] # ip
        BY <2>1, <4>1, <4>3
      <4> QED BY <4>2, <4>3
    <3> QED BY <1>3, <2>2, <3>1, <3>2
  <2>3. ASSUME NEW k \in DOMAIN q PROVE \E t \in more : t[1] = k /\ q[k] = Floored(t[2])
    <3>1. CASE k = ip
      BY <1>3, <2>1, <3>1
    <3>2. CASE k # ip
      BY <1>0, <1>3, <2>1, <2>3, <3>2
    <3> QED BY <3>1, <3>2
  <2> QED BY <2>2, <2>3 DEF q, more, LeastOf
<1> QED BY <1>4, <1>5

\* A frame is decoded, and may teach.
LEMMA DecodedLearned ==
    ASSUME RxDispatchParams, IInv, GInv, \A t \in told : Floored(t[2]) \in Nat,
           NEW keep \in BOOLEAN, DispatchOneRealMbuf(keep)
    PROVE  GInv' /\ \A t \in told' : Floored(t[2]) \in Nat
<1> DEFINE f == content[Head(todo)[1]]
           bumps == RxFrame(f)
           lesson == Teaches(f, bumps)
<1>1. /\ todo # <<>> /\ content' = Cleared(refcnt') /\ arrived' = arrived
      /\ IF "rx_arp" \in bumps THEN HandleArp(f) ELSE UNCHANGED gateway_mac
      /\ IF "rx_icmp" \in bumps THEN IcmpInput(f) ELSE UNCHANGED pmtu
      /\ told' = IF "mtu" \in lesson THEN told \cup {<<f.about, f.mtu>>} ELSE told
      /\ misled' = IF f.damaged THEN misled \cup lesson ELSE misled
  BY DEF DispatchOneRealMbuf
<1>2. f \in FrameType /\ Genuine(f, arrived)
  <2>1. todo \in Seq(Packets) /\ Known(content, todo)
    BY DEF IInv, Types
  <2>2. Sound(f)
    BY <1>1, <2>1, KnownTail, Zenon
  <2>3. Head(todo) \in Packets
    BY <1>1, <2>1, Tail1
  <2>4. Head(todo)[1] \in Mbufs
    BY <2>3, HeadIn
  <2> QED BY <2>2, <2>4 DEF Sound, GInv, AllGenuine
<1>3. AllGenuine(content', arrived')
  BY <1>1, ClearedGenuine, Zenon DEF GInv
<1>4. /\ "rx_arp" \in bumps => f.eth = "arp"
      /\ "rx_icmp" \in bumps => f.eth = "ipv4" /\ f.proto = "icmp" /\ "version" \notin f.fails
  <2>1. f.eth \in {"ipv4", "arp", "other"}
    BY <1>2 DEF FrameType
  <2> HIDE DEF f
  <2>2. /\ "rx_arp" \in RxFrame(f) => f.eth = "arp"
        /\ "rx_icmp" \in RxFrame(f) => f.eth = "ipv4" /\ f.proto = "icmp" /\ "version" \notin f.fails
    BY <1>2, <2>1, TakenAs
  <2> QED BY <2>2
<1>5. f.damaged \in BOOLEAN /\ f.mtu \in Nat /\ MinMtu \in Nat
  BY <1>2 DEF FrameType, RxDispatchParams
<1> HIDE DEF f, bumps
<1>6. AnnouncedMacs' = AnnouncedMacs /\ AnnouncedMtus' = AnnouncedMtus
  BY <1>1 DEF AnnouncedMacs, AnnouncedMtus
<1>7. LearnedSound /\ \A k \in DOMAIN pmtu : pmtu[k] \in Nat
  BY DEF GInv, IInv, Types
<1>8. gateway_mac' \in ConfiguredMacs \cup AnnouncedMacs' \/ "mac" \in misled'
  <2>1. CASE "rx_arp" \in bumps /\ ClassifyArp(f) = "learn"
    <3>1. gateway_mac' = f.mac /\ "mac" \in lesson
      BY <1>1, <2>1 DEF HandleArp, Teaches
    <3>2. CASE f.damaged
      BY <1>1, <3>1, <3>2
    <3>3. CASE ~f.damaged
      <4>1. f.eth = "arp" /\ "arp" \notin f.fails /\ f.sender = GatewayIp
        BY <1>4, <2>1 DEF ClassifyArp
      <4>2. PICK g \in arrived : g.eth = "arp" /\ g.sender = f.sender /\ g.mac = f.mac
        BY <1>2, <3>3, <4>1 DEF Genuine
      <4>3. f.mac \in AnnouncedMacs
        BY <4>1, <4>2 DEF AnnouncedMacs
      <4> QED BY <1>6, <3>1, <4>3
    <3> QED BY <3>2, <3>3
  <2>2. CASE ~("rx_arp" \in bumps /\ ClassifyArp(f) = "learn")
    <3>1. gateway_mac' = gateway_mac
      BY <1>1, <2>2 DEF HandleArp
    <3>2. misled \subseteq misled'
      BY <1>1
    <3> QED BY <1>6, <1>7, <3>1, <3>2 DEF LearnedSound
  <2> QED BY <2>1, <2>2
<1>9. CASE "rx_icmp" \in bumps /\ NamesMtu(f)
  <2>1. /\ pmtu' = PmtuUpdate(f.about, f.mtu) /\ "mtu" \in lesson
        /\ told' = told \cup {<<f.about, f.mtu>>}
    BY <1>1, <1>9 DEF IcmpInput, Teaches
  <2>2. /\ \A t \in told' : t[1] \in DOMAIN pmtu' /\ pmtu'[t[1]] <= Floored(t[2])
        /\ \A k \in DOMAIN pmtu' : \E t \in told' : t[1] = k /\ pmtu'[k] = Floored(t[2])
    <3>1. /\ \A t \in told : t[1] \in DOMAIN pmtu /\ pmtu[t[1]] <= Floored(t[2])
          /\ \A k \in DOMAIN pmtu : \E t \in told : t[1] = k /\ pmtu[k] = Floored(t[2])
      BY <1>7 DEF LearnedSound
    <3>2. LeastOf(pmtu, told) /\ FlooredAll(told)
      BY <3>1 DEF LeastOf, FlooredAll
    <3>3. LeastOf(pmtu', told')
      BY <1>5, <1>7, <2>1, <3>2, LeastTold
    <3> QED BY <3>3 DEF LeastOf
  <2>3. told' \subseteq AnnouncedMtus' \/ "mtu" \in misled'
    <3>1. CASE f.damaged
      BY <1>1, <2>1, <3>1
    <3>2. CASE ~f.damaged
      <4>1. PICK g \in arrived : g.eth = "ipv4" /\ g.about = f.about /\ g.mtu = f.mtu
        BY <1>2, <1>4, <1>9, <3>2 DEF Genuine
      <4>2. <<f.about, f.mtu>> \in AnnouncedMtus
        BY <4>1 DEF AnnouncedMtus
      <4>3. misled' = misled
        BY <1>1, <3>2
      <4> QED BY <1>6, <1>7, <2>1, <4>2, <4>3 DEF LearnedSound
    <3> QED BY <3>1, <3>2
  <2>4. \A t \in told' : Floored(t[2]) \in Nat
    <3>1. Floored(f.mtu) \in Nat
      BY <1>5, FlooredNat
    <3> QED BY <2>1, <3>1
  <2>5. \A mtu : Floored(mtu)' = Floored(mtu)
    BY DEF Floored
  <2> QED BY <1>3, <1>8, <2>2, <2>3, <2>4, <2>5 DEF GInv, LearnedSound, Floored
<1>10. CASE ~("rx_icmp" \in bumps /\ NamesMtu(f))
  <2>1. pmtu' = pmtu /\ told' = told /\ misled \subseteq misled'
    BY <1>1, <1>10 DEF IcmpInput, Teaches
  <2> QED BY <1>3, <1>6, <1>7, <1>8, <2>1 DEF GInv, LearnedSound, Floored
<1> QED BY <1>9, <1>10

LEMMA NextLearned ==
    ASSUME RxDispatchParams, IInv, GInv, \A t \in told : Floored(t[2]) \in Nat, [Next]_vars
    PROVE  GInv' /\ \A t \in told' : Floored(t[2]) \in Nat
<1>0. AllGenuine(content, arrived)
  BY DEF GInv
<1>1. ASSUME NEW f \in Frames, PollOnce(f) PROVE GInv' /\ told' = told
  <2>1. /\ UNCHANGED <<gateway_mac, pmtu, told, misled>>
        /\ content' = [content EXCEPT ![Alloc(f.segs)[1]] = f]
        /\ arrived' = arrived \cup Teachers(f)
    BY <1>1 DEF PollOnce
  <2>2. AllGenuine(content', arrived') /\ arrived \subseteq arrived'
    BY <1>0, <2>1, ArrivesGenuine, Zenon
  <2> QED BY <2>1, <2>2, NothingLearned
<1>2. ASSUME NEW f \in Frames, InjectRx(f) PROVE GInv' /\ told' = told
  <2>1. UNCHANGED <<gateway_mac, pmtu, told, misled>>
    BY <1>2 DEF InjectRx
  <2>2. CASE Cardinality(Free) >= f.segs /\ ~f.huge
    <3>1. /\ content' = [content EXCEPT ![Alloc(f.segs)[1]] = f]
          /\ arrived' = arrived \cup Teachers(f)
      BY <1>2, <2>2 DEF InjectRx
    <3>2. AllGenuine(content', arrived') /\ arrived \subseteq arrived'
      BY <1>0, <3>1, ArrivesGenuine, Zenon
    <3> QED BY <2>1, <3>2, NothingLearned
  <2>3. CASE ~(Cardinality(Free) >= f.segs /\ ~f.huge)
    <3>1. UNCHANGED <<content, arrived>>
      BY <1>2, <2>3 DEF InjectRx
    <3> QED BY <1>0, <2>1, <3>1, NothingLearned
  <2> QED BY <2>2, <2>3
<1>3. ASSUME NEW d \in Faults, DispatchOneRxMbuf(d) PROVE GInv' /\ told' = told
  <2> DEFINE p == Head(burst)
  <2>1. /\ burst # <<>> /\ Process(p, d)
        /\ UNCHANGED <<gateway_mac, pmtu, told, misled, arrived>>
    BY <1>3 DEF DispatchOneRxMbuf, history
  <2>2. AllGenuine(content', arrived)
    <3>1. CASE d.drop
      <4>1. content' = Cleared(refcnt')
        BY <2>1, <3>1 DEF Process
      <4> QED BY <1>0, <4>1, ClearedGenuine, Zenon
    <3>2. CASE ~d.drop
      <4>1. PICK g \in Flips(content[p[1]], d.corrupt) : content' = [content EXCEPT ![p[1]] = g]
        BY <2>1, <3>2 DEF Process
      <4>2. content[p[1]] \in FrameType /\ p[1] \in Mbufs
        <5>1. burst \in Seq(Packets) /\ Known(content, burst)
          BY DEF IInv, Types
        <5>2. Sound(content[p[1]]) /\ p \in Packets
          BY <2>1, <5>1, KnownTail, Tail1, Zenon
        <5> QED BY <5>2, HeadIn DEF Sound
      <4>3. Genuine(content[p[1]], arrived)
        BY <1>0, <4>2 DEF AllGenuine
      <4>4. d.corrupt \in {"no", "mac", "type", "body"}
        BY DEF Faults
      <4>5. Genuine(g, arrived)
        BY <4>2, <4>3, <4>4, FlipsGenuine
      <4>6. ASSUME NEW m \in Mbufs, content'[m] \in FrameType PROVE Genuine(content'[m], arrived)
        <5>1. content'[m] = g \/ content'[m] = content[m]
          BY <4>1 DEF IInv, Types
        <5> QED BY <1>0, <4>5, <4>6, <5>1 DEF AllGenuine
      <4> QED BY <4>6 DEF AllGenuine
    <3> QED BY <3>1, <3>2
  <2> QED BY <2>1, <2>2, NothingLearned
<1>4. ASSUME NEW keep \in BOOLEAN, DispatchOneRealMbuf(keep)
      PROVE  GInv' /\ \A t \in told' : Floored(t[2]) \in Nat
  BY <1>4, DecodedLearned
<1>5. ASSUME NEW m, Release(m) \/ DropInjector PROVE GInv' /\ told' = told
  <2>1. content' = Cleared(refcnt') /\ UNCHANGED <<gateway_mac, pmtu, told, misled, arrived>>
    BY <1>5 DEF Release, DropInjector, history
  <2>2. AllGenuine(content', arrived')
    BY <1>0, <2>1, ClearedGenuine, Zenon
  <2> QED BY <2>1, <2>2, NothingLearned
<1>6. ASSUME NEW ip, BurstEnds \/ PollEnds \/ AddLocalIp(ip) \/ Connect(ip) \/ UNCHANGED vars
      PROVE  GInv' /\ told' = told
  <2>1. UNCHANGED <<gateway_mac, pmtu, told, misled, arrived, content>>
    BY <1>6 DEF BurstEnds, PollEnds, AddLocalIp, Connect, vars, history
  <2> QED BY <1>0, <2>1, NothingLearned
<1> QED BY <1>1, <1>2, <1>3, <1>4, <1>5, <1>6 DEF Next

\* handle_arp, icmp_input and PmtuTable::update behind the injector: the
\* gateway's address is the configured one or was in a frame of the gateway when
\* it arrived, and the path MTU to an address is the least, floored, of those
\* that were read for it, which were in frames when they arrived, unless a frame
\* with a flipped byte taught them.
THEOREM LearningIsSound == Spec => []LearnedSound
<1> DEFINE J == GInv /\ \A t \in told : Floored(t[2]) \in Nat
<1>1. Init => J
  <2> SUFFICES ASSUME Init PROVE J
    OBVIOUS
  <2>1. AllGenuine(content, arrived)
    BY NoFrameIsNone DEF Init, AllGenuine
  <2>2. LearnedSound
    BY DEF Init, LearnedSound
  <2>3. told = {}
    BY DEF Init
  <2> QED BY <2>1, <2>2, <2>3 DEF GInv
<1>2. IInv /\ J /\ [Next]_vars => J'
  BY NextLearned, RxDispatchParams DEF Floored
<1>3. J => LearnedSound
  BY DEF GInv
<1> QED BY <1>1, <1>2, <1>3, Invariance, PTL DEF Spec

-----------------------------------------------------------------------------
\* Where frames are counted.

\* What a set of names adds to the groups of counters.
One(c, n) == IF c \in n THEN 1 ELSE 0

InSum(n)  == One("rx_pkts", n) + One("chains", n) + One("fi_dups", n)
FiSum(n)  == One("fi_drops", n) + One("fi_freed", n)
EthSum(n) == One("short", n) + One("miss_mac", n) + One("unknown_ethertype", n)
IpSum(n)  == One("ip_short", n) + One("bad_version", n) + One("bad_hl", n) + One("csum_bad", n)
                 + One("ttl_zero", n) + One("frag", n) + One("not_ours", n)
                 + One("unsupported_proto", n)
TcpSum(n) == One("tcp_short", n) + One("bad_flags", n) + One("bad_csum", n)
                 + One("unmatched", n) + One("listener", n) + One("matched", n)
PassSum(n) == One("rx_arp", n) + One("rx_tcp", n) + One("rx_icmp", n)

\* What is dropped on the driver's word is in a layer's counter, too.
Vouched(n) == One("rx_drop_cksum_bad", n) <= One("csum_bad", n) + One("bad_csum", n)

\* The names of one frame that is counted once, z: on the driver's word.
LEMMA SumsOfDrop ==
    ASSUME NEW x \in EthDrops \cup IpDrops \cup {"rx_arp", "rx_icmp"},
           NEW z \in {{}, {"rx_drop_cksum_bad"}}, z # {} => x = "csum_bad"
    PROVE  LET n == {x} \cup z
           IN  /\ InSum(n) = 0 /\ FiSum(n) = 0 /\ EthSum(n) + IpSum(n) + PassSum(n) = 1
               /\ EthSum(n) \in Nat /\ IpSum(n) \in Nat /\ PassSum(n) \in Nat
               /\ TcpSum(n) = 0 /\ One("rx_tcp", n) = 0 /\ Vouched(n)
<1> DEFINE n == {x} \cup z
<1>1. ASSUME NEW c, c # "rx_drop_cksum_bad" PROVE One(c, n) = One(c, {x})
  BY <1>1 DEF One
<1>2. Vouched(n)
  <2>1. CASE z = {}
    <3>1. "rx_drop_cksum_bad" \notin n
      BY <2>1 DEF EthDrops, IpDrops
    <3> HIDE DEF n
    <3> QED BY <3>1 DEF Vouched, One
  <2>2. CASE z = {"rx_drop_cksum_bad"}
    <3>1. "csum_bad" \in n
      BY <2>2
    <3> HIDE DEF n
    <3> QED BY <3>1 DEF Vouched, One
  <2> QED BY <2>1, <2>2
<1>3. /\ InSum({x}) = 0 /\ FiSum({x}) = 0 /\ EthSum({x}) + IpSum({x}) + PassSum({x}) = 1
      /\ EthSum({x}) \in Nat /\ IpSum({x}) \in Nat /\ PassSum({x}) \in Nat
      /\ TcpSum({x}) = 0 /\ One("rx_tcp", {x}) = 0
  BY DEF EthDrops, IpDrops, One, InSum, FiSum, EthSum, IpSum, TcpSum, PassSum
<1> HIDE DEF n
<1>4. /\ InSum(n) = InSum({x}) /\ FiSum(n) = FiSum({x}) /\ EthSum(n) = EthSum({x})
      /\ IpSum(n) = IpSum({x}) /\ PassSum(n) = PassSum({x}) /\ TcpSum(n) = TcpSum({x})
      /\ One("rx_tcp", n) = One("rx_tcp", {x})
  BY <1>1 DEF InSum, FiSum, EthSum, IpSum, TcpSum, PassSum
<1> QED BY <1>2, <1>3, <1>4 DEF n

LEMMA SumsOfSegment ==
    ASSUME NEW t \in TcpDrops \cup {"matched", "listener"},
           NEW z \in {{}, {"rx_drop_cksum_bad"}}, z # {} => t = "bad_csum"
    PROVE  LET n == {"rx_tcp", t} \cup z
           IN  /\ InSum(n) = 0 /\ FiSum(n) = 0 /\ EthSum(n) = 0 /\ IpSum(n) = 0
               /\ PassSum(n) = 1 /\ TcpSum(n) = 1 /\ One("rx_tcp", n) = 1 /\ Vouched(n)
<1> DEFINE n == {"rx_tcp", t} \cup z
           y == {"rx_tcp", t}
<1>1. ASSUME NEW c, c # "rx_drop_cksum_bad" PROVE One(c, n) = One(c, y)
  BY <1>1 DEF One
<1>2. Vouched(n)
  <2>1. CASE z = {}
    <3>1. "rx_drop_cksum_bad" \notin n
      BY <2>1 DEF TcpDrops
    <3> HIDE DEF n
    <3> QED BY <3>1 DEF Vouched, One
  <2>2. CASE z = {"rx_drop_cksum_bad"}
    <3>1. "bad_csum" \in n
      BY <2>2
    <3> HIDE DEF n
    <3> QED BY <3>1 DEF Vouched, One
  <2> QED BY <2>1, <2>2
<1>3. /\ InSum(y) = 0 /\ FiSum(y) = 0 /\ EthSum(y) = 0 /\ IpSum(y) = 0
      /\ PassSum(y) = 1 /\ TcpSum(y) = 1 /\ One("rx_tcp", y) = 1
  BY DEF TcpDrops, One, InSum, FiSum, EthSum, IpSum, TcpSum, PassSum
<1> HIDE DEF n, y
<1>4. /\ InSum(n) = InSum(y) /\ FiSum(n) = FiSum(y) /\ EthSum(n) = EthSum(y)
      /\ IpSum(n) = IpSum(y) /\ PassSum(n) = PassSum(y) /\ TcpSum(n) = TcpSum(y)
      /\ One("rx_tcp", n) = One("rx_tcp", y)
  BY <1>1 DEF InSum, FiSum, EthSum, IpSum, TcpSum, PassSum
<1> QED BY <1>2, <1>3, <1>4 DEF n

LEMMA SumsOfOthers ==
    /\ \A x \in {"rx_pkts", "chains", "fi_dups"} :
          /\ InSum({x}) = 1 /\ FiSum({x}) = 0 /\ EthSum({x}) = 0 /\ IpSum({x}) = 0
          /\ PassSum({x}) = 0 /\ TcpSum({x}) = 0 /\ One("rx_tcp", {x}) = 0 /\ Vouched({x})
    /\ /\ InSum({"fi_drops"}) = 0 /\ FiSum({"fi_drops"}) = 1 /\ EthSum({"fi_drops"}) = 0
       /\ IpSum({"fi_drops"}) = 0 /\ PassSum({"fi_drops"}) = 0 /\ TcpSum({"fi_drops"}) = 0
       /\ One("rx_tcp", {"fi_drops"}) = 0 /\ Vouched({"fi_drops"})
    /\ /\ InSum({}) = 0 /\ FiSum({}) = 0 /\ EthSum({}) = 0 /\ IpSum({}) = 0
       /\ PassSum({}) = 0 /\ TcpSum({}) = 0 /\ One("rx_tcp", {}) = 0 /\ Vouched({})
BY DEF One, Vouched, InSum, FiSum, EthSum, IpSum, TcpSum, PassSum

\* A step that counts the names n.
LEMMA BumpSums ==
    ASSUME count \in [Counters -> Nat], NEW n, count' = Bump(n)
    PROVE  /\ count' \in [Counters -> Nat]
           /\ count'["rx_pkts"] + count'["chains"] + count'["fi_dups"]
                = count["rx_pkts"] + count["chains"] + count["fi_dups"] + InSum(n)
           /\ count'["fi_drops"] + count'["fi_freed"] = count["fi_drops"] + count["fi_freed"] + FiSum(n)
           /\ EthDropped' = EthDropped + EthSum(n) /\ IpDropped' = IpDropped + IpSum(n)
           /\ TcpEnded' = TcpEnded + TcpSum(n) /\ PassedOn' = PassedOn + PassSum(n)
           /\ count'["rx_tcp"] = count["rx_tcp"] + One("rx_tcp", n)
           /\ \A c \in {"rx_drop_cksum_bad", "csum_bad", "bad_csum"} :
                 count'[c] = count[c] + One(c, n) /\ count[c] \in Nat /\ One(c, n) \in Nat
<1>1. \A c \in Counters : count'[c] = count[c] + One(c, n) /\ count[c] \in Nat /\ One(c, n) \in Nat
  BY DEF Bump, One
<1>2. count' \in [Counters -> Nat]
  BY DEF Bump
<1>3. /\ count'["rx_pkts"] + count'["chains"] + count'["fi_dups"]
           = count["rx_pkts"] + count["chains"] + count["fi_dups"] + InSum(n)
      /\ count'["fi_drops"] + count'["fi_freed"] = count["fi_drops"] + count["fi_freed"] + FiSum(n)
      /\ count'["rx_tcp"] = count["rx_tcp"] + One("rx_tcp", n)
  <2>1. {"rx_pkts", "chains", "fi_dups", "fi_drops", "fi_freed", "rx_tcp"} \subseteq Counters
    BY DEF Counters, Passed
  <2> QED BY <1>1, <2>1 DEF InSum, FiSum
<1>4. EthDropped' = EthDropped + EthSum(n)
  <2>1. {"short", "miss_mac", "unknown_ethertype"} \subseteq Counters
    BY DEF Counters, EthDrops
  <2> QED BY <1>1, <2>1 DEF EthDropped, EthSum
<1>5. IpDropped' = IpDropped + IpSum(n)
  <2>1. {"ip_short", "bad_version", "bad_hl", "csum_bad", "ttl_zero", "frag",
         "not_ours", "unsupported_proto"} \subseteq Counters
    BY DEF Counters, IpDrops
  <2> QED BY <1>1, <2>1 DEF IpDropped, IpSum
<1>6. TcpEnded' = TcpEnded + TcpSum(n)
  <2>1. {"tcp_short", "bad_flags", "bad_csum", "unmatched", "listener", "matched"} \subseteq Counters
    BY DEF Counters, TcpDrops
  <2> QED BY <1>1, <2>1 DEF TcpEnded, TcpSum
<1>7. PassedOn' = PassedOn + PassSum(n)
  <2>1. {"rx_arp", "rx_tcp", "rx_icmp"} \subseteq Counters
    BY DEF Counters, Passed
  <2> QED BY <1>1, <2>1 DEF PassedOn, PassSum
<1>8. {"rx_drop_cksum_bad", "csum_bad", "bad_csum"} \subseteq Counters
  BY DEF Counters, IpDrops, TcpDrops
<1>9. \A c \in {"rx_drop_cksum_bad", "csum_bad", "bad_csum"} :
         count'[c] = count[c] + One(c, n) /\ count[c] \in Nat /\ One(c, n) \in Nat
  BY <1>1, <1>8, Zenon
<1> QED BY <1>2, <1>3, <1>4, <1>5, <1>6, <1>7, <1>9

LEMMA SumTypes ==
    ASSUME count \in [Counters -> Nat]
    PROVE  /\ EthDropped \in Nat /\ IpDropped \in Nat /\ TcpEnded \in Nat /\ PassedOn \in Nat
           /\ count["rx_pkts"] \in Nat /\ count["chains"] \in Nat /\ count["fi_dups"] \in Nat
           /\ count["fi_drops"] \in Nat /\ count["fi_freed"] \in Nat /\ count["rx_tcp"] \in Nat
<1>1. \A c \in Counters : count[c] \in Nat
  OBVIOUS
<1>2. EthDropped \in Nat
  BY <1>1 DEF EthDropped, Counters, EthDrops
<1>3. IpDropped \in Nat
  BY <1>1 DEF IpDropped, Counters, IpDrops
<1>4. TcpEnded \in Nat
  BY <1>1 DEF TcpEnded, Counters, TcpDrops
<1>5. PassedOn \in Nat
  BY <1>1 DEF PassedOn, Counters, Passed
<1>6. {"rx_pkts", "chains", "fi_dups", "fi_drops", "fi_freed", "rx_tcp"} \subseteq Counters
  BY DEF Counters, Passed
<1> QED BY <1>1, <1>2, <1>3, <1>4, <1>5, <1>6

\* A frame is dropped by one layer or taken by one.
LEMMA OneVerdict ==
    ASSUME NEW f \in FrameType
    PROVE  \E z \in {{}, {"rx_drop_cksum_bad"}} :
              \/ \E x \in EthDrops \cup IpDrops \cup {"rx_arp", "rx_icmp"} :
                    (z # {} => x = "csum_bad") /\ RxFrame(f) = {x} \cup z
              \/ \E t \in TcpDrops \cup {"matched", "listener"} :
                    (z # {} => t = "bad_csum") /\ RxFrame(f) = {"rx_tcp", t} \cup z
<1>1. L2Decode(f) = "ok" \/ L2Decode(f) \in EthDrops
  BY DEF L2Decode, EthDrops
<1>2. \A b \in BOOLEAN : IpDecode(f, b) = "ok" \/ IpDecode(f, b) \in IpDrops
  BY IpFirst DEF IpDecode, IpDrops
<1>3. \A b \in BOOLEAN : ParseSegment(f, b) = "ok" \/ ParseSegment(f, b) \in TcpDrops
  BY TcpFirst DEF ParseSegment, TcpDrops
<1>4. IpDecodeOffloadAware(f) = "ok" \/ IpDecodeOffloadAware(f) \in IpDrops
  BY <1>2 DEF IpDecodeOffloadAware, IpDrops
<1>5. TcpInput(f) \in TcpDrops \cup {"matched", "listener"}
  BY <1>3 DEF TcpInput, TcpDrops
<1>6. L2Decode(f) # "ok" => RxFrame(f) = {L2Decode(f)} \cup {}
  BY DEF RxFrame
<1>7. L2Decode(f) = "ok" /\ f.eth = "arp" => RxFrame(f) = {"rx_arp"} \cup {}
  BY DEF RxFrame
<1>8. L2Decode(f) = "ok" /\ f.eth # "arp" => RxFrame(f) = HandleIpv4(f)
  BY DEF RxFrame
<1>9. \/ /\ HandleIpv4(f) = {IpDecodeOffloadAware(f)} \cup NicDrop(f, "bad")
         /\ IpDecodeOffloadAware(f) # "ok"
      \/ HandleIpv4(f) = {"rx_icmp"} \cup {}
      \/ HandleIpv4(f) = {"rx_tcp", TcpInput(f)} \cup NicDrop(f, "bad_l4")
  BY DEF HandleIpv4
<1>10. \A v : NicDrop(f, v) \in {{}, {"rx_drop_cksum_bad"}}
  BY DEF NicDrop
<1>11. NicDrop(f, "bad") # {} => IpDecodeOffloadAware(f) = "csum_bad"
  BY DEF NicDrop, IpDecodeOffloadAware
<1>12. NicDrop(f, "bad_l4") # {} => TcpInput(f) = "bad_csum"
  BY DEF NicDrop, TcpInput
<1>13. {} \in {{}, {"rx_drop_cksum_bad"}}
  OBVIOUS
<1>14. CASE L2Decode(f) # "ok"
  BY <1>1, <1>6, <1>13, <1>14, Zenon
<1>15. CASE L2Decode(f) = "ok" /\ f.eth = "arp"
  <2>1. "rx_arp" \in EthDrops \cup IpDrops \cup {"rx_arp", "rx_icmp"}
    OBVIOUS
  <2> QED BY <1>7, <1>13, <1>15, <2>1, Zenon
<1>16. CASE L2Decode(f) = "ok" /\ f.eth # "arp"
  <2>1. CASE /\ HandleIpv4(f) = {IpDecodeOffloadAware(f)} \cup NicDrop(f, "bad")
             /\ IpDecodeOffloadAware(f) # "ok"
    <3>1. IpDecodeOffloadAware(f) \in EthDrops \cup IpDrops \cup {"rx_arp", "rx_icmp"}
      BY <1>4, <2>1
    <3> QED BY <1>8, <1>10, <1>11, <1>16, <2>1, <3>1, Zenon
  <2>2. CASE HandleIpv4(f) = {"rx_icmp"} \cup {}
    <3>1. "rx_icmp" \in EthDrops \cup IpDrops \cup {"rx_arp", "rx_icmp"}
      OBVIOUS
    <3> QED BY <1>8, <1>13, <1>16, <2>2, <3>1, Zenon
  <2>3. CASE HandleIpv4(f) = {"rx_tcp", TcpInput(f)} \cup NicDrop(f, "bad_l4")
    BY <1>5, <1>8, <1>10, <1>12, <1>16, <2>3, Zenon
  <2> QED BY <1>9, <2>1, <2>2, <2>3
<1> QED BY <1>14, <1>15, <1>16

-----------------------------------------------------------------------------
\* The accounts: with IInv, inductive.
AInv == count \in [Counters -> Nat] /\ FramesAccounted

\* The names n are counted while k packets come into the queues.
Balanced(n, k) ==
    /\ k \in Int
    /\ InSum(n) \in Nat /\ FiSum(n) \in Nat /\ EthSum(n) \in Nat /\ IpSum(n) \in Nat
    /\ PassSum(n) \in Nat /\ TcpSum(n) \in Nat
    /\ TcpSum(n) = One("rx_tcp", n) /\ Vouched(n)
    /\ InSum(n) = k + FiSum(n) + EthSum(n) + IpSum(n) + PassSum(n)

InQueues == Len(burst) + Len(todo) + Len(ring)

LEMMA AccountStep ==
    ASSUME AInv, NEW n, count' = Bump(n), NEW k, Balanced(n, k),
           InQueues \in Nat, InQueues' = InQueues + k
    PROVE  AInv'
<1>0. /\ k \in Int
      /\ InSum(n) \in Nat /\ FiSum(n) \in Nat /\ EthSum(n) \in Nat /\ IpSum(n) \in Nat
      /\ PassSum(n) \in Nat /\ TcpSum(n) \in Nat
      /\ TcpSum(n) = One("rx_tcp", n) /\ Vouched(n)
      /\ InSum(n) = k + FiSum(n) + EthSum(n) + IpSum(n) + PassSum(n)
  BY DEF Balanced
<1>1. count \in [Counters -> Nat] /\ FramesAccounted
  BY DEF AInv
<1>2. /\ count' \in [Counters -> Nat]
      /\ count'["rx_pkts"] + count'["chains"] + count'["fi_dups"]
           = count["rx_pkts"] + count["chains"] + count["fi_dups"] + InSum(n)
      /\ count'["fi_drops"] + count'["fi_freed"] = count["fi_drops"] + count["fi_freed"] + FiSum(n)
      /\ EthDropped' = EthDropped + EthSum(n) /\ IpDropped' = IpDropped + IpSum(n)
      /\ TcpEnded' = TcpEnded + TcpSum(n) /\ PassedOn' = PassedOn + PassSum(n)
      /\ count'["rx_tcp"] = count["rx_tcp"] + One("rx_tcp", n)
      /\ \A c \in {"rx_drop_cksum_bad", "csum_bad", "bad_csum"} :
            count'[c] = count[c] + One(c, n) /\ count[c] \in Nat /\ One(c, n) \in Nat
  BY <1>1, BumpSums, Zenon
<1>3. /\ EthDropped \in Nat /\ IpDropped \in Nat /\ TcpEnded \in Nat /\ PassedOn \in Nat
      /\ count["rx_pkts"] \in Nat /\ count["chains"] \in Nat /\ count["fi_dups"] \in Nat
      /\ count["fi_drops"] \in Nat /\ count["fi_freed"] \in Nat /\ count["rx_tcp"] \in Nat
  BY <1>1, SumTypes, Zenon
<1> DEFINE L == InQueues
           M == InQueues'
<1>4. L \in Nat /\ M = L + k
  OBVIOUS
<1>5. /\ count["rx_pkts"] + count["chains"] + count["fi_dups"] =
           L + count["fi_drops"] + count["fi_freed"] + EthDropped + IpDropped + PassedOn
      /\ count["rx_tcp"] = TcpEnded
      /\ count["rx_drop_cksum_bad"] <= count["csum_bad"] + count["bad_csum"]
  BY <1>1 DEF FramesAccounted, InQueues
<1> HIDE DEF L, M
<1>6. /\ count'["fi_drops"] \in Nat /\ count'["fi_freed"] \in Nat /\ EthDropped' \in Nat
      /\ IpDropped' \in Nat /\ PassedOn' \in Nat
  <2>1. count'["fi_drops"] \in Nat /\ count'["fi_freed"] \in Nat
    BY <1>2 DEF Counters
  <2> QED BY <1>0, <1>2, <1>3, <2>1
<1>7. count'["rx_pkts"] + count'["chains"] + count'["fi_dups"] =
           M + (count'["fi_drops"] + count'["fi_freed"]) + EthDropped' + IpDropped' + PassedOn'
  BY <1>0, <1>2, <1>3, <1>4, <1>5
<1>8. count'["rx_pkts"] + count'["chains"] + count'["fi_dups"] =
           M + count'["fi_drops"] + count'["fi_freed"] + EthDropped' + IpDropped' + PassedOn'
  <2>1. M \in Int
    BY <1>0, <1>4
  <2>2. M + (count'["fi_drops"] + count'["fi_freed"]) = M + count'["fi_drops"] + count'["fi_freed"]
    BY <1>6, <2>1
  <2> QED BY <1>7, <2>2
<1>9. count'["rx_tcp"] = TcpEnded'
  BY <1>0, <1>2, <1>3, <1>5
<1>10. count'["rx_drop_cksum_bad"] <= count'["csum_bad"] + count'["bad_csum"]
  <2> DEFINE C == {"rx_drop_cksum_bad", "csum_bad", "bad_csum"}
  <2>1. /\ count'["rx_drop_cksum_bad"] = count["rx_drop_cksum_bad"] + One("rx_drop_cksum_bad", n)
        /\ count'["csum_bad"] = count["csum_bad"] + One("csum_bad", n)
        /\ count'["bad_csum"] = count["bad_csum"] + One("bad_csum", n)
        /\ count["rx_drop_cksum_bad"] \in Nat /\ One("rx_drop_cksum_bad", n) \in Nat
        /\ count["csum_bad"] \in Nat /\ One("csum_bad", n) \in Nat
        /\ count["bad_csum"] \in Nat /\ One("bad_csum", n) \in Nat
    BY <1>2
  <2>2. One("rx_drop_cksum_bad", n) <= One("csum_bad", n) + One("bad_csum", n)
    BY <1>0 DEF Vouched
  <2> QED BY <1>5, <2>1, <2>2
<1> QED BY <1>2, <1>8, <1>9, <1>10 DEF AInv, FramesAccounted, InQueues, M

\* Nothing is counted and nothing moves.
LEMMA AccountQuiet ==
    ASSUME AInv, UNCHANGED <<burst, todo, ring, count>>
    PROVE  AInv'
BY DEF AInv, FramesAccounted, EthDropped, IpDropped, TcpEnded, PassedOn

\* The lengths when a packet is held.
LEMMA HoldLens ==
    ASSUME NEW r \in Seq(Packets), NEW p \in Packets, RingDepth \in Nat \ {0}
    PROVE  /\ Len(Evicted(r)) + Len(Held(r, p)) = Len(r) + 1
           /\ Len(<<p>> \o Evicted(r)) + Len(Held(r, p)) = Len(r) + 2
<1>1. CASE Len(r) = RingDepth
  <2>1. r # <<>> /\ Evicted(r) = <<Head(r)>> /\ Held(r, p) = Append(Tail(r), p)
    BY <1>1 DEF Evicted, Held
  <2>2. Head(r) \in Packets /\ Tail(r) \in Seq(Packets) /\ Len(Tail(r)) = Len(r) - 1
    BY <2>1, HeadTailProperties
  <2>3. /\ Len(Append(Tail(r), p)) = Len(r) /\ Len(<<Head(r)>>) = 1
        /\ Len(<<p>> \o <<Head(r)>>) = 2 /\ Len(r) \in Nat
    BY <2>2
  <2> QED BY <2>1, <2>3
<1>2. CASE Len(r) # RingDepth
  <2>1. Evicted(r) = <<>> /\ Held(r, p) = Append(r, p)
    BY <1>2 DEF Evicted, Held
  <2>2. /\ Len(Append(r, p)) = Len(r) + 1 /\ Len(<<>>) = 0
        /\ Len(<<p>> \o <<>>) = 1 /\ Len(r) \in Nat
    OBVIOUS
  <2> QED BY <2>1, <2>2
<1> QED BY <1>1, <1>2

LEMMA NextAccounts ==
    ASSUME RxDispatchParams, IInv, AInv, [Next]_vars
    PROVE  AInv'
<1>0. burst \in Seq(Packets) /\ todo \in Seq(Packets) /\ ring \in Seq(Packets)
  BY DEF IInv, Types
<1>1. Len(burst) \in Nat /\ Len(todo) \in Nat /\ Len(ring) \in Nat
  BY <1>0
<1>8. InQueues \in Nat
  BY <1>1 DEF InQueues
<1>9. /\ \A x \in {"rx_pkts", "chains", "fi_dups"} : Balanced({x}, 1)
      /\ Balanced({"fi_drops"}, -1) /\ Balanced({}, 0)
  BY SumsOfOthers DEF Balanced
<1>2. ASSUME NEW f \in Frames, PollOnce(f) PROVE AInv'
  <2>1. /\ count' = Bump({"rx_pkts"}) /\ todo' = todo /\ ring' = ring
        /\ burst' = Append(burst, Alloc(f.segs))
    BY <1>2 DEF PollOnce
  <2>2. Len(burst') = Len(burst) + 1
    BY <1>0, <2>1
  <2>3. InQueues' = InQueues + 1
    BY <1>1, <2>1, <2>2 DEF InQueues
  <2>4. Balanced({"rx_pkts"}, 1)
    BY <1>9
  <2> QED BY <1>8, <2>1, <2>3, <2>4, AccountStep, Zenon
<1>3. ASSUME NEW f \in Frames, InjectRx(f) PROVE AInv'
  <2>1. CASE Cardinality(Free) >= f.segs /\ ~f.huge
    <3> DEFINE x == IF f.segs = 1 THEN "rx_pkts" ELSE "chains"
    <3>1. /\ count' = Bump({x}) /\ x \in {"rx_pkts", "chains", "fi_dups"}
          /\ todo' = todo /\ ring' = ring
          /\ burst = <<>> /\ burst' = <<Alloc(f.segs)>>
      BY <1>3, <2>1 DEF InjectRx
    <3> HIDE DEF x
    <3>2. Len(burst') = Len(burst) + 1
      BY <3>1
    <3>3. InQueues' = InQueues + 1
      BY <1>1, <3>1, <3>2 DEF InQueues
    <3>4. Balanced({x}, 1)
      BY <1>9, <3>1
    <3> QED BY <1>8, <3>1, <3>3, <3>4, AccountStep, Zenon
  <2>2. CASE ~(Cardinality(Free) >= f.segs /\ ~f.huge)
    <3>1. UNCHANGED <<burst, todo, ring, count>>
      BY <1>3, <2>2 DEF InjectRx
    <3> QED BY <3>1, AccountQuiet
  <2> QED BY <2>1, <2>2
<1>4. ASSUME NEW d \in Faults, DispatchOneRxMbuf(d) PROVE AInv'
  <2> DEFINE p == Head(burst)
             out == IF d.dup THEN <<p, p>> ELSE <<p>>
  <2>1. burst # <<>> /\ todo = <<>> /\ burst' = Tail(burst) /\ Process(p, d)
    BY <1>4 DEF DispatchOneRxMbuf
  <2>2. p \in Packets /\ Len(burst') = Len(burst) - 1 /\ Len(todo) = 0
    BY <1>0, <2>1, HeadTailProperties
  <2>3. RingDepth \in Nat \ {0}
    BY DEF RxDispatchParams
  <2>4. CASE d.drop
    <3>1. count' = Bump({"fi_drops"}) /\ todo' = todo /\ ring' = ring
      BY <2>1, <2>4 DEF Process
    <3>2. InQueues' = InQueues + (-1)
      BY <1>1, <2>2, <3>1 DEF InQueues
    <3>3. Balanced({"fi_drops"}, -1)
      BY <1>9
    <3> QED BY <1>8, <3>1, <3>2, <3>3, AccountStep, Zenon
  <2>5. CASE ~d.drop
    <3>1. /\ count' = Bump(IF d.dup THEN {"fi_dups"} ELSE {})
          /\ todo' = IF d.hold THEN Front(out) \o Evicted(ring) ELSE out
          /\ ring' = IF d.hold THEN Held(ring, p) ELSE ring
      BY <2>1, <2>5 DEF Process
    <3>2. Front(<<p>>) = <<>> /\ Front(<<p, p>>) = <<p>> /\ <<>> \o Evicted(ring) = Evicted(ring)
      <4>1. Evicted(ring) \in Seq(Packets)
        BY <1>0, <2>2, <2>3, HoldMoves
      <4>2. <<>> \o Evicted(ring) = Evicted(ring)
        BY <4>1
      <4> QED BY <2>2, <4>2, Fronts
    <3> HIDE DEF p
    <3>3. Len(<<p, p>>) = 2 /\ Len(<<p>>) = 1
      OBVIOUS
    <3>4. /\ Len(Evicted(ring)) + Len(Held(ring, p)) = Len(ring) + 1
          /\ Len(<<p>> \o Evicted(ring)) + Len(Held(ring, p)) = Len(ring) + 2
      BY <1>0, <2>2, <2>3, HoldLens
    <3>5. CASE d.dup
      <4>1. count' = Bump({"fi_dups"})
        BY <3>1, <3>5
      <4>2. Len(todo') + Len(ring') = Len(ring) + 2
        <5>1. CASE d.hold
          BY <3>1, <3>2, <3>4, <3>5, <5>1
        <5>2. CASE ~d.hold
          <6>1. todo' = <<p, p>> /\ ring' = ring
            BY <3>1, <3>5, <5>2
          <6> QED BY <1>1, <3>3, <6>1
        <5> QED BY <5>1, <5>2
      <4>3. Len(todo') \in Nat /\ Len(ring') \in Nat
        BY <1>0, <1>4, DispatchOneRxMbufStep DEF IInv, Types
      <4>4. InQueues' = InQueues + 1
        BY <1>1, <2>2, <4>2, <4>3 DEF InQueues
      <4>5. Balanced({"fi_dups"}, 1)
        BY <1>9
      <4> QED BY <1>8, <4>1, <4>4, <4>5, AccountStep, Zenon
    <3>6. CASE ~d.dup
      <4>1. count' = Bump({})
        BY <3>1, <3>6
      <4>2. Len(todo') + Len(ring') = Len(ring) + 1
        <5>1. CASE d.hold
          BY <3>1, <3>2, <3>4, <3>6, <5>1
        <5>2. CASE ~d.hold
          <6>1. todo' = <<p>> /\ ring' = ring
            BY <3>1, <3>6, <5>2
          <6> QED BY <1>1, <3>3, <6>1
        <5> QED BY <5>1, <5>2
      <4>3. Len(todo') \in Nat /\ Len(ring') \in Nat
        BY <1>0, <1>4, DispatchOneRxMbufStep DEF IInv, Types
      <4>4. InQueues' = InQueues + 0
        BY <1>1, <2>2, <4>2, <4>3 DEF InQueues
      <4>5. Balanced({}, 0)
        BY <1>9
      <4> QED BY <1>8, <4>1, <4>4, <4>5, AccountStep, Zenon
    <3> QED BY <3>5, <3>6
  <2> QED BY <2>4, <2>5
<1>5. ASSUME NEW keep \in BOOLEAN, DispatchOneRealMbuf(keep) PROVE AInv'
  <2> DEFINE f == content[Head(todo)[1]]
  <2>1. todo # <<>> /\ todo' = Tail(todo) /\ burst' = burst /\ ring' = ring
        /\ count' = Bump(RxFrame(f))
    BY <1>5 DEF DispatchOneRealMbuf
  <2>2. f \in FrameType
    <3>1. Known(content, todo)
      BY DEF IInv
    <3>2. Sound(content[Head(todo)[1]])
      BY <1>0, <2>1, <3>1, KnownTail, Zenon
    <3> QED BY <3>2 DEF Sound
  <2> HIDE DEF f
  <2>3. Len(todo') = Len(todo) - 1
    BY <1>0, <2>1, HeadTailProperties
  <2>4. InQueues' = InQueues + (-1)
    BY <1>1, <2>1, <2>3 DEF InQueues
  <2>5. ASSUME NEW z \in {{}, {"rx_drop_cksum_bad"}},
               NEW x \in EthDrops \cup IpDrops \cup {"rx_arp", "rx_icmp"},
               z # {} => x = "csum_bad", RxFrame(f) = {x} \cup z
        PROVE  AInv'
    <3> DEFINE n == {x} \cup z
    <3>1. /\ InSum(n) = 0 /\ FiSum(n) = 0 /\ EthSum(n) + IpSum(n) + PassSum(n) = 1
          /\ EthSum(n) \in Nat /\ IpSum(n) \in Nat /\ PassSum(n) \in Nat
          /\ TcpSum(n) = 0 /\ One("rx_tcp", n) = 0 /\ Vouched(n)
      BY <2>5, SumsOfDrop
    <3>3. count' = Bump(n)
      BY <2>1, <2>5
    <3> HIDE DEF n
    <3>2. InSum(n) = (-1) + FiSum(n) + EthSum(n) + IpSum(n) + PassSum(n)
      BY <3>1
    <3>4. Balanced(n, -1)
      BY <3>1, <3>2 DEF Balanced
    <3> QED BY <1>8, <2>4, <3>3, <3>4, AccountStep, Zenon
  <2>6. ASSUME NEW z \in {{}, {"rx_drop_cksum_bad"}}, NEW t \in TcpDrops \cup {"matched", "listener"},
               z # {} => t = "bad_csum", RxFrame(f) = {"rx_tcp", t} \cup z
        PROVE  AInv'
    <3> DEFINE n == {"rx_tcp", t} \cup z
    <3>1. /\ InSum(n) = 0 /\ FiSum(n) = 0 /\ EthSum(n) = 0 /\ IpSum(n) = 0
          /\ PassSum(n) = 1 /\ TcpSum(n) = 1 /\ One("rx_tcp", n) = 1 /\ Vouched(n)
      BY <2>6, SumsOfSegment
    <3>2. count' = Bump(n)
      BY <2>1, <2>6
    <3> HIDE DEF n
    <3>3. Balanced(n, -1)
      BY <3>1 DEF Balanced
    <3> QED BY <1>8, <2>4, <3>2, <3>3, AccountStep, Zenon
  <2> QED BY <2>2, <2>5, <2>6, OneVerdict
<1>6. CASE DropInjector
  <2>1. /\ count' = [count EXCEPT !["fi_freed"] = @ + Len(ring)] /\ ring' = <<>>
        /\ burst' = burst /\ todo' = todo
    BY <1>6 DEF DropInjector
  <2>2. count \in [Counters -> Nat] /\ FramesAccounted /\ "fi_freed" \in Counters
    BY DEF AInv, Counters
  <2>3. /\ count' \in [Counters -> Nat] /\ count'["fi_freed"] = count["fi_freed"] + Len(ring)
        /\ \A c \in Counters \ {"fi_freed"} : count'[c] = count[c]
    BY <1>1, <2>1, <2>2
  <2>4. /\ EthDropped' = EthDropped /\ IpDropped' = IpDropped /\ TcpEnded' = TcpEnded
        /\ PassedOn' = PassedOn
        /\ count'["rx_pkts"] = count["rx_pkts"] /\ count'["chains"] = count["chains"]
        /\ count'["fi_dups"] = count["fi_dups"] /\ count'["fi_drops"] = count["fi_drops"]
        /\ count'["rx_tcp"] = count["rx_tcp"]
        /\ count'["rx_drop_cksum_bad"] = count["rx_drop_cksum_bad"]
        /\ count'["csum_bad"] = count["csum_bad"] /\ count'["bad_csum"] = count["bad_csum"]
    BY <2>3 DEF EthDropped, IpDropped, TcpEnded, PassedOn, Counters, EthDrops, IpDrops,
                TcpDrops, Passed
  <2>5. /\ EthDropped \in Nat /\ IpDropped \in Nat /\ TcpEnded \in Nat /\ PassedOn \in Nat
        /\ count["rx_pkts"] \in Nat /\ count["chains"] \in Nat /\ count["fi_dups"] \in Nat
        /\ count["fi_drops"] \in Nat /\ count["fi_freed"] \in Nat /\ count["rx_tcp"] \in Nat
    BY <2>2, SumTypes, Zenon
  <2>6. Len(ring') = 0
    BY <2>1
  <2>7. /\ count["rx_pkts"] + count["chains"] + count["fi_dups"] =
             Len(burst) + Len(todo) + Len(ring) + count["fi_drops"] + count["fi_freed"]
                 + EthDropped + IpDropped + PassedOn
        /\ count["rx_tcp"] = TcpEnded
        /\ count["rx_drop_cksum_bad"] <= count["csum_bad"] + count["bad_csum"]
    BY <2>2 DEF FramesAccounted
  <2>8. count["rx_pkts"] + count["chains"] + count["fi_dups"] =
           Len(burst) + Len(todo) + 0 + count["fi_drops"] + (count["fi_freed"] + Len(ring))
               + EthDropped + IpDropped + PassedOn
    BY <1>1, <2>5, <2>7, SMTT(30)
  <2> QED BY <2>1, <2>3, <2>4, <2>6, <2>7, <2>8 DEF AInv, FramesAccounted
<1>7. ASSUME NEW ip, NEW m, BurstEnds \/ PollEnds \/ AddLocalIp(ip) \/ Connect(ip)
                              \/ Release(m) \/ UNCHANGED vars
      PROVE  AInv'
  <2>1. UNCHANGED <<burst, todo, ring, count>>
    BY <1>7 DEF BurstEnds, PollEnds, AddLocalIp, Connect, Release, vars
  <2> QED BY <2>1, AccountQuiet
<1> QED BY <1>2, <1>3, <1>4, <1>5, <1>6, <1>7 DEF Next

\* Every frame that came in or was duplicated is still on its way, was dropped
\* by the injector, or is in exactly one counter of the layer that dropped or
\* took it; every segment that IP passed on is in exactly one counter of TCP,
\* and what is dropped on the NIC's word is counted by its layer, too.
THEOREM FramesAreAccounted == Spec => []FramesAccounted
<1>1. Init => AInv
  <2> SUFFICES ASSUME Init PROVE AInv
    OBVIOUS
  <2>1. count \in [Counters -> Nat] /\ \A c \in Counters : count[c] = 0
    BY DEF Init
  <2>2. EthDropped = 0 /\ IpDropped = 0 /\ TcpEnded = 0 /\ PassedOn = 0
    BY <2>1 DEF EthDropped, IpDropped, TcpEnded, PassedOn, Counters, EthDrops, IpDrops,
                TcpDrops, Passed
  <2>3. /\ count["rx_pkts"] = 0 /\ count["chains"] = 0 /\ count["fi_dups"] = 0
        /\ count["fi_drops"] = 0 /\ count["fi_freed"] = 0 /\ count["rx_tcp"] = 0
        /\ count["rx_drop_cksum_bad"] = 0 /\ count["csum_bad"] = 0 /\ count["bad_csum"] = 0
    BY <2>1 DEF Counters, Passed, IpDrops, TcpDrops
  <2>4. Len(burst) = 0 /\ Len(todo) = 0 /\ Len(ring) = 0
    BY DEF Init
  <2> QED BY <2>1, <2>2, <2>3, <2>4 DEF AInv, FramesAccounted
<1>2. IInv /\ AInv /\ [Next]_vars => AInv'
  BY NextAccounts, RxDispatchParams
<1>3. AInv => FramesAccounted
  BY DEF AInv
<1> QED BY <1>1, <1>2, <1>3, Invariance, PTL DEF Spec
=============================================================================
