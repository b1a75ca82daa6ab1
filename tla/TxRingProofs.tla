---------------------------- MODULE TxRingProofs ----------------------------
(***************************************************************************)
(* Proofs, for every pool and every size of the ring, of what the run of   *)
(* TxRing checks on a small instance: the reference counts are exact, and  *)
(* what is handed to the driver can be sent.                               *)
(***************************************************************************)
EXTENDS TxRing, FiniteSetTheorems, SequenceTheorems, TLAPS

Mbufs     == DataMbufs \cup HdrMbufs
RingFrame == {Frame(h, m) : h \in HdrMbufs \cup {NoMbuf}, m \in DataMbufs}
AnyFrame  == RingFrame \cup {Frame(h, NoMbuf) : h \in HdrMbufs}
PrefixStates == {"whole", "part", "none"}

States ==
    [refcnt : [Mbufs -> Int], prefix : [DataMbufs -> PrefixStates],
     ring : Seq(RingFrame), nic : SUBSET AnyFrame]

\* No mbuf is in two frames of a sequence.
Apart(s) == \A i, j \in DOMAIN s : i # j => MbufsOf(s[i]) \cap MbufsOf(s[j]) = {}

InFrames(m, s) == \E i \in DOMAIN s : m \in MbufsOf(s[i])

\* What a frame needs of its data mbuf.
Sendable(f, pre) == pre[f.data] = IF f.hdr = NoMbuf THEN "whole" ELSE "none"

\* The frames of a set that hold the mbuf m.
Of(m, fs) == {f \in fs : m \in MbufsOf(f)}

\* The books of a state record, with x[m] references to m that are held outside
\* of ring and driver: by the retransmission queue, and by the step that is
\* under way.
Exact(st, x) ==
    \A m \in Mbufs : st.refcnt[m] = Holds(m, st.ring) + Cardinality(Of(m, st.nic)) + x[m]

StOK(st, x) ==
    /\ st \in States
    /\ IsFiniteSet(st.nic)
    /\ Len(st.ring) <= RingSize
    /\ Apart(st.ring)
    /\ \A i \in DOMAIN st.ring : Sendable(st.ring[i], st.prefix) /\ st.ring[i] \notin st.nic
    /\ Exact(st, x)

\* What the retransmission queue holds.
InQueue(m, q) == Cardinality({i \in DOMAIN q : q[i] = m})
Queued(q) == [m \in Mbufs |-> InQueue(m, q)]

IInv ==
    /\ StOK(St, Queued(snd_retrans))
    /\ snd_retrans \in Seq(DataMbufs)
    /\ \A i, j \in DOMAIN snd_retrans : snd_retrans[i] = snd_retrans[j] => i = j
    /\ tap \in BOOLEAN

-----------------------------------------------------------------------------
\* Frames.

LEMMA FrameFacts ==
    /\ \A h, m : Frame(h, m).hdr = h /\ Frame(h, m).data = m
    /\ \A f \in RingFrame :
          f.data \in DataMbufs /\ f.hdr \in HdrMbufs \cup {NoMbuf} /\ f = Frame(f.hdr, f.data)
    /\ \A f \in AnyFrame : MbufsOf(f) # {} /\ MbufsOf(f) \subseteq Mbufs
    /\ RingFrame \subseteq AnyFrame
<1>1. \A h, m : Frame(h, m).hdr = h /\ Frame(h, m).data = m
  BY DEF Frame
<1>2. \A f \in RingFrame :
          f.data \in DataMbufs /\ f.hdr \in HdrMbufs \cup {NoMbuf} /\ f = Frame(f.hdr, f.data)
  BY <1>1 DEF RingFrame
<1>3. \A f \in AnyFrame : MbufsOf(f) # {} /\ MbufsOf(f) \subseteq Mbufs
  BY <1>1, <1>2, TxRingParams DEF AnyFrame, MbufsOf, Mbufs
<1> QED BY <1>1, <1>2, <1>3 DEF AnyFrame

\* Counting in frames that are apart.
LEMMA HoldsIs ==
    ASSUME NEW s, Apart(s), NEW m
    PROVE  Holds(m, s) = IF InFrames(m, s) THEN 1 ELSE 0
<1> DEFINE T == {i \in DOMAIN s : m \in MbufsOf(s[i])}
<1>1. Holds(m, s) = Cardinality(T)
  BY DEF Holds
<1>2. CASE InFrames(m, s)
  <2>1. PICK i \in DOMAIN s : m \in MbufsOf(s[i])
    BY <1>2 DEF InFrames
  <2>2. T = {i}
    BY <2>1 DEF Apart
  <2>3. Cardinality({i}) = 1
    BY FS_Singleton
  <2> QED BY <1>1, <1>2, <2>2, <2>3
<1>3. CASE ~InFrames(m, s)
  <2>1. T = {}
    BY <1>3 DEF InFrames
  <2>2. Cardinality({}) = 0
    BY FS_EmptySet
  <2> QED BY <1>1, <1>3, <2>1, <2>2
<1> QED BY <1>2, <1>3

LEMMA OfFinite ==
    ASSUME NEW fs, IsFiniteSet(fs), NEW m
    PROVE  IsFiniteSet(Of(m, fs)) /\ Cardinality(Of(m, fs)) \in Nat
<1>1. Of(m, fs) \in SUBSET fs
  BY DEF Of
<1>2. IsFiniteSet(Of(m, fs))
  BY <1>1, FS_Subset
<1> QED BY <1>2, FS_CardinalityType

\* A driver that takes frames it does not have counts them once more.
LEMMA NicTakes ==
    ASSUME NEW fs, IsFiniteSet(fs), NEW S, NEW s \in Seq(S), Apart(s), NEW m,
           \A i \in DOMAIN s : s[i] \notin fs
    PROVE  /\ IsFiniteSet(fs \cup ToSet(s))
           /\ Cardinality(Of(m, fs \cup ToSet(s))) = Cardinality(Of(m, fs)) + Holds(m, s)
<1>1. IsFiniteSet(ToSet(s))
  <2>1. DOMAIN s = 1 .. Len(s) /\ Len(s) \in Nat
    BY LenProperties
  <2>2. IsFiniteSet(1 .. Len(s))
    BY <2>1, FS_Interval
  <2>3. s \in Surjection(1 .. Len(s), ToSet(s))
    BY <2>1, LenProperties DEF Surjection, ToSet
  <2> QED BY <2>2, <2>3, FS_Surjection
<1>2. IsFiniteSet(fs \cup ToSet(s))
  BY <1>1, FS_Union
<1>3. CASE InFrames(m, s)
  <2>1. PICK i \in DOMAIN s : m \in MbufsOf(s[i])
    BY <1>3 DEF InFrames
  <2>2. Of(m, fs \cup ToSet(s)) = Of(m, fs) \cup {s[i]} /\ s[i] \notin Of(m, fs)
    BY <2>1 DEF Of, ToSet, Apart
  <2>3. IsFiniteSet(Of(m, fs)) /\ Cardinality(Of(m, fs)) \in Nat
    BY OfFinite
  <2>4. Cardinality(Of(m, fs) \cup {s[i]}) = Cardinality(Of(m, fs)) + 1
    BY <2>2, <2>3, FS_AddElement
  <2>5. Holds(m, s) = 1
    BY <1>3, HoldsIs
  <2> QED BY <1>2, <2>2, <2>4, <2>5
<1>4. CASE ~InFrames(m, s)
  <2>1. Of(m, fs \cup ToSet(s)) = Of(m, fs)
    BY <1>4 DEF Of, ToSet, InFrames
  <2>2. Holds(m, s) = 0 /\ Cardinality(Of(m, fs)) \in Nat
    BY <1>4, HoldsIs, OfFinite
  <2> QED BY <1>2, <2>1, <2>2
<1> QED BY <1>3, <1>4

\* The two parts of a ring of which the driver takes n frames.
LEMMA Split ==
    ASSUME NEW S, NEW s \in Seq(S), Apart(s), NEW n \in 0 .. Len(s)
    PROVE  LET a == SubSeq(s, 1, n)
               b == SubSeq(s, n + 1, Len(s))
           IN  /\ a \in Seq(S) /\ b \in Seq(S) /\ Apart(a) /\ Apart(b)
               /\ \A i \in DOMAIN a : i \in DOMAIN s /\ a[i] = s[i]
               /\ \A m : Holds(m, a) + Holds(m, b) = Holds(m, s)
<1> DEFINE a == SubSeq(s, 1, n)
           b == SubSeq(s, n + 1, Len(s))
<1> SUFFICES /\ a \in Seq(S) /\ b \in Seq(S) /\ Apart(a) /\ Apart(b)
             /\ \A i \in DOMAIN a : i \in DOMAIN s /\ a[i] = s[i]
             /\ \A m : Holds(m, a) + Holds(m, b) = Holds(m, s)
  OBVIOUS
<1>1. Len(s) \in Nat /\ DOMAIN s = 1 .. Len(s) /\ \A i \in 1 .. Len(s) : s[i] \in S
  BY LenProperties, ElementOfSeq
<1>2. /\ a \in Seq(S) /\ Len(a) = n /\ \A i \in 1 .. n : a[i] = s[i]
      /\ b \in Seq(S) /\ Len(b) = Len(s) - n
      /\ \A i \in 1 .. Len(s) - n : b[i] = s[n + i]
  <2>1. /\ a \in Seq(S) /\ Len(a) = IF 1 <= n THEN n - 1 + 1 ELSE 0
        /\ \A i \in 1 .. n - 1 + 1 : a[i] = s[1 + i - 1]
    BY <1>1, SubSeqProperties
  <2>2. /\ b \in Seq(S)
        /\ Len(b) = IF n + 1 <= Len(s) THEN Len(s) - (n + 1) + 1 ELSE 0
        /\ \A i \in 1 .. Len(s) - (n + 1) + 1 : b[i] = s[n + 1 + i - 1]
    BY <1>1, SubSeqProperties
  <2> HIDE DEF a, b
  <2>3. n - 1 + 1 = n /\ Len(s) - (n + 1) + 1 = Len(s) - n
    BY <1>1
  <2>4. Len(a) = n /\ Len(b) = Len(s) - n
    <3>1. n \in Int /\ Len(s) \in Int /\ 0 <= n /\ n <= Len(s)
      BY <1>1
    <3>2. Len(a) = n
      BY <2>1, <3>1
    <3>3. Len(b) = Len(s) - n
      BY <2>2, <3>1
    <3> QED BY <3>2, <3>3
  <2>5. \A i \in 1 .. n : a[i] = s[i]
    <3> SUFFICES ASSUME NEW i \in 1 .. n PROVE a[i] = s[i]
      OBVIOUS
    <3>1. 1 + i - 1 = i
      OBVIOUS
    <3> QED BY <2>1, <2>3, <3>1
  <2>6. \A i \in 1 .. Len(s) - n : b[i] = s[n + i]
    <3> SUFFICES ASSUME NEW i \in 1 .. Len(s) - n PROVE b[i] = s[n + i]
      OBVIOUS
    <3>1. n + 1 + i - 1 = n + i
      BY <1>1
    <3> QED BY <2>2, <2>3, <3>1
  <2> QED BY <2>1, <2>2, <2>4, <2>5, <2>6
<1> HIDE DEF a, b
<1>3. DOMAIN a = 1 .. n /\ DOMAIN b = 1 .. Len(s) - n
  BY <1>1, <1>2, LenProperties
<1>4. Apart(a) /\ Apart(b)
  <2>1. Apart(a)
    <3> SUFFICES ASSUME NEW i \in DOMAIN a, NEW j \in DOMAIN a, i # j
                 PROVE  MbufsOf(a[i]) \cap MbufsOf(a[j]) = {}
      BY DEF Apart
    <3>1. i \in DOMAIN s /\ j \in DOMAIN s /\ a[i] = s[i] /\ a[j] = s[j]
      BY <1>1, <1>2, <1>3
    <3> QED BY <3>1 DEF Apart
  <2>2. Apart(b)
    <3> SUFFICES ASSUME NEW i \in DOMAIN b, NEW j \in DOMAIN b, i # j
                 PROVE  MbufsOf(b[i]) \cap MbufsOf(b[j]) = {}
      BY DEF Apart
    <3>1. /\ n + i \in DOMAIN s /\ n + j \in DOMAIN s /\ n + i # n + j
          /\ b[i] = s[n + i] /\ b[j] = s[n + j]
      BY <1>1, <1>2, <1>3
    <3> QED BY <3>1 DEF Apart
  <2> QED BY <2>1, <2>2
<1>5. ASSUME NEW m PROVE Holds(m, a) + Holds(m, b) = Holds(m, s)
  <2>1. InFrames(m, s) <=> InFrames(m, a) \/ InFrames(m, b)
    <3>1. ASSUME NEW i \in DOMAIN s, m \in MbufsOf(s[i])
          PROVE  InFrames(m, a) \/ InFrames(m, b)
      <4>1. CASE i <= n
        BY <1>1, <1>2, <1>3, <3>1, <4>1 DEF InFrames
      <4>2. CASE i > n
        <5>1. i - n \in 1 .. Len(s) - n /\ b[i - n] = s[i]
          BY <1>1, <1>2, <4>2
        <5> QED BY <1>3, <3>1, <5>1 DEF InFrames
      <4> QED BY <1>1, <4>1, <4>2
    <3>2. InFrames(m, a) => InFrames(m, s)
      BY <1>1, <1>2, <1>3 DEF InFrames
    <3>3. ASSUME NEW i \in DOMAIN b, m \in MbufsOf(b[i]) PROVE InFrames(m, s)
      <4>1. n + i \in DOMAIN s /\ b[i] = s[n + i]
        BY <1>1, <1>2, <1>3
      <4> QED BY <3>3, <4>1 DEF InFrames
    <3> QED BY <3>1, <3>2, <3>3 DEF InFrames
  <2>2. ~(InFrames(m, a) /\ InFrames(m, b))
    <3> SUFFICES ASSUME NEW i \in DOMAIN a, m \in MbufsOf(a[i]),
                        NEW j \in DOMAIN b, m \in MbufsOf(b[j])
                 PROVE  FALSE
      BY DEF InFrames
    <3>1. i \in DOMAIN s /\ n + j \in DOMAIN s /\ i # n + j
          /\ a[i] = s[i] /\ b[j] = s[n + j]
      BY <1>1, <1>2, <1>3
    <3> QED BY <3>1 DEF Apart
  <2>3. /\ Holds(m, s) = IF InFrames(m, s) THEN 1 ELSE 0
        /\ Holds(m, a) = IF InFrames(m, a) THEN 1 ELSE 0
        /\ Holds(m, b) = IF InFrames(m, b) THEN 1 ELSE 0
    BY <1>4, HoldsIs
  <2>4. CASE InFrames(m, a)
    BY <2>1, <2>2, <2>3, <2>4
  <2>5. CASE InFrames(m, b)
    BY <2>1, <2>2, <2>3, <2>5
  <2>6. CASE ~InFrames(m, a) /\ ~InFrames(m, b)
    BY <2>1, <2>3, <2>6
  <2> QED BY <2>4, <2>5, <2>6
<1>6. \A i \in DOMAIN a : i \in DOMAIN s /\ a[i] = s[i]
  BY <1>1, <1>2, <1>3
<1> QED BY <1>2, <1>4, <1>5, <1>6

-----------------------------------------------------------------------------
\* The burst and the push.

LEMMA ReleasedIs ==
    ASSUME NEW ref \in [Mbufs -> Int], NEW s, Apart(s)
    PROVE  /\ Released(ref, s) \in [Mbufs -> Int]
           /\ \A m \in Mbufs : Released(ref, s)[m] = ref[m] - Holds(m, s)
<1>1. \A m : Holds(m, s) \in Int
  BY HoldsIs
<1>2. \A m \in Mbufs : ref[m] - Holds(m, s) \in Int
  BY <1>1
<1> QED BY <1>2 DEF Released

\* drain_tx_pending_data, whatever part of the ring the driver takes: each
\* reference that the ring held is dropped or is the driver's.
LEMMA DrainOK ==
    ASSUME NEW st, NEW x, x \in [Mbufs -> Nat], StOK(st, x), tap \in BOOLEAN,
           NEW n \in Takes(st)
    PROVE  LET d == DrainTxPendingData(st, n)
           IN  /\ StOK(d, x) /\ d.ring = <<>>
               /\ \A m \in DataMbufs : ~InFrames(m, st.ring) => d.prefix[m] = st.prefix[m]
               /\ \A f \in d.nic : f \in st.nic \/ \E i \in DOMAIN st.ring : f = st.ring[i]
<1> DEFINE a == SubSeq(st.ring, 1, n)
           b == SubSeq(st.ring, n + 1, Len(st.ring))
           u == Burst(st, a)
           d == DrainTxPendingData(st, n)
<1>1. /\ st \in States /\ IsFiniteSet(st.nic) /\ Apart(st.ring) /\ Exact(st, x)
      /\ st.ring \in Seq(RingFrame) /\ st.nic \subseteq AnyFrame
      /\ st.refcnt \in [Mbufs -> Int] /\ st.prefix \in [DataMbufs -> PrefixStates]
      /\ \A i \in DOMAIN st.ring : st.ring[i] \notin st.nic
  BY DEF StOK, States
<1>2. /\ a \in Seq(RingFrame) /\ b \in Seq(RingFrame) /\ Apart(a) /\ Apart(b)
      /\ \A i \in DOMAIN a : i \in DOMAIN st.ring /\ a[i] = st.ring[i]
      /\ \A m : Holds(m, a) + Holds(m, b) = Holds(m, st.ring)
  BY <1>1, Split DEF Takes
<1> SUFFICES /\ StOK(d, x) /\ d.ring = <<>>
             /\ \A m \in DataMbufs : ~InFrames(m, st.ring) => d.prefix[m] = st.prefix[m]
             /\ \A f \in d.nic : f \in st.nic \/ \E i \in DOMAIN st.ring : f = st.ring[i]
  OBVIOUS
<1>3. \A m : Holds(m, a) \in {0, 1} /\ Holds(m, b) \in {0, 1}
  BY <1>2, HoldsIs
<1>4. d = [u EXCEPT !.refcnt = Released(@, b), !.ring = <<>>]
  BY DEF DrainTxPendingData
<1> HIDE DEF a, b, d
<1>5. DOMAIN st.refcnt = Mbufs
  BY <1>1
<1>6. \A m : Holds(m, <<>>) = 0
  BY HoldsIs DEF Apart, InFrames
<1>7. /\ d \in States /\ d.ring = <<>> /\ IsFiniteSet(d.nic)
      /\ \A m \in Mbufs :
           d.refcnt[m] + Holds(m, st.ring) =
              st.refcnt[m] + (Cardinality(Of(m, d.nic)) - Cardinality(Of(m, st.nic)))
      /\ \A m \in DataMbufs : ~InFrames(m, st.ring) => d.prefix[m] = st.prefix[m]
      /\ \A f \in d.nic : f \in st.nic \/ \E i \in DOMAIN st.ring : f = st.ring[i]
  <2>1. CASE tap
    <3> DEFINE P == [m \in DataMbufs |->
                        IF st.prefix[m] = "whole" /\ Frame(NoMbuf, m) \in ToSet(a)
                        THEN "part" ELSE st.prefix[m]]
               R == Released(Released(st.refcnt, a), b)
    <3>1. u = [st EXCEPT !.refcnt = Released(st.refcnt, a), !.prefix = P]
      BY <2>1, <1>1 DEF Burst
    <3>2. /\ R \in [Mbufs -> Int]
          /\ \A m \in Mbufs : R[m] = st.refcnt[m] - Holds(m, a) - Holds(m, b)
      <4> DEFINE Q == Released(st.refcnt, a)
      <4>1. Q \in [Mbufs -> Int] /\ \A m \in Mbufs : Q[m] = st.refcnt[m] - Holds(m, a)
        BY <1>1, <1>2, ReleasedIs
      <4> HIDE DEF Q
      <4>2. /\ Released(Q, b) \in [Mbufs -> Int]
            /\ \A m \in Mbufs : Released(Q, b)[m] = Q[m] - Holds(m, b)
        BY <1>2, <4>1, ReleasedIs
      <4> QED BY <4>1, <4>2 DEF Q
    <3>3. P \in [DataMbufs -> PrefixStates]
      BY <1>1 DEF PrefixStates
    <3>4. ASSUME NEW m \in DataMbufs, ~InFrames(m, st.ring) PROVE P[m] = st.prefix[m]
      <4>1. Frame(NoMbuf, m) \notin ToSet(a)
        <5> SUFFICES ASSUME NEW i \in DOMAIN a, a[i] = Frame(NoMbuf, m) PROVE FALSE
          BY DEF ToSet
        <5>1. m \in MbufsOf(a[i])
          BY FrameFacts, TxRingParams DEF MbufsOf
        <5> QED BY <1>2, <3>4, <5>1 DEF InFrames
      <4> QED BY <4>1
    <3> HIDE DEF P
    <3>5. /\ d.refcnt = R /\ d.prefix = P /\ d.ring = <<>> /\ d.nic = st.nic
          /\ d = [refcnt |-> R, prefix |-> P, ring |-> <<>>, nic |-> st.nic]
      BY <1>1, <1>4, <3>1 DEF States
    <3> HIDE DEF R
    <3>6. d \in States
      BY <1>1, <3>2, <3>3, <3>5 DEF States
    <3>7. ASSUME NEW m \in Mbufs
          PROVE  d.refcnt[m] + Holds(m, st.ring) =
                   st.refcnt[m] + (Cardinality(Of(m, d.nic)) - Cardinality(Of(m, st.nic)))
      <4>1. Cardinality(Of(m, st.nic)) \in Nat
        BY <1>1, OfFinite
      <4>2. Holds(m, a) + Holds(m, b) = Holds(m, st.ring) /\ st.refcnt[m] \in Int
            /\ Holds(m, a) \in Int /\ Holds(m, b) \in Int
        BY <1>1, <1>2, <1>3
      <4>3. d.refcnt[m] = st.refcnt[m] - Holds(m, a) - Holds(m, b)
        BY <3>2, <3>5
      <4> QED BY <3>5, <4>1, <4>2, <4>3
    <3> QED BY <1>1, <3>4, <3>5, <3>6, <3>7
  <2>2. CASE ~tap
    <3> DEFINE N == st.nic \cup ToSet(a)
               R == Released(st.refcnt, b)
    <3>1. u = [st EXCEPT !.nic = N]
      BY <2>2, <1>1 DEF Burst
    <3>2. /\ R \in [Mbufs -> Int]
          /\ \A m \in Mbufs : R[m] = st.refcnt[m] - Holds(m, b)
      BY <1>1, <1>2, ReleasedIs
    <3>3. \A f \in ToSet(a) : \E i \in DOMAIN st.ring : f = st.ring[i]
      BY <1>2 DEF ToSet
    <3>4. /\ IsFiniteSet(N)
          /\ \A m : Cardinality(Of(m, N)) = Cardinality(Of(m, st.nic)) + Holds(m, a)
      <4>1. \A i \in DOMAIN a : a[i] \notin st.nic
        BY <1>1, <1>2
      <4> QED BY <1>1, <1>2, <4>1, NicTakes
    <3>5. N \subseteq AnyFrame
      <4>1. \A i \in DOMAIN st.ring : st.ring[i] \in RingFrame
        BY <1>1, LenProperties, ElementOfSeq
      <4> QED BY <1>1, <3>3, <4>1, FrameFacts
    <3>6. /\ d.refcnt = R /\ d.prefix = st.prefix /\ d.ring = <<>> /\ d.nic = N
          /\ d = [refcnt |-> R, prefix |-> st.prefix, ring |-> <<>>, nic |-> N]
      BY <1>1, <1>4, <3>1 DEF States
    <3> HIDE DEF R
    <3>7. \A f \in d.nic : f \in st.nic \/ \E i \in DOMAIN st.ring : f = st.ring[i]
      BY <3>3, <3>6
    <3> HIDE DEF N
    <3>8. d \in States
      BY <1>1, <3>2, <3>5, <3>6 DEF States
    <3>9. ASSUME NEW m \in Mbufs
          PROVE  d.refcnt[m] + Holds(m, st.ring) =
                   st.refcnt[m] + (Cardinality(Of(m, d.nic)) - Cardinality(Of(m, st.nic)))
      <4>1. Cardinality(Of(m, st.nic)) \in Nat
        BY <1>1, OfFinite
      <4>2. Holds(m, a) + Holds(m, b) = Holds(m, st.ring) /\ st.refcnt[m] \in Int
            /\ Holds(m, a) \in Int /\ Holds(m, b) \in Int
        BY <1>1, <1>2, <1>3
      <4>3. d.refcnt[m] = st.refcnt[m] - Holds(m, b)
        BY <3>2, <3>6
      <4>4. Cardinality(Of(m, d.nic)) = Cardinality(Of(m, st.nic)) + Holds(m, a)
        BY <3>4, <3>6
      <4> QED BY <4>1, <4>2, <4>3, <4>4
    <3> QED BY <3>4, <3>6, <3>7, <3>8, <3>9
  <2> QED BY <2>1, <2>2
<1>8. Exact(d, x)
  <2> SUFFICES ASSUME NEW m \in Mbufs
               PROVE  d.refcnt[m] = Holds(m, d.ring) + Cardinality(Of(m, d.nic)) + x[m]
    BY DEF Exact
  <2>1. /\ Cardinality(Of(m, st.nic)) \in Nat /\ Cardinality(Of(m, d.nic)) \in Nat
        /\ x[m] \in Nat /\ Holds(m, st.ring) \in {0, 1} /\ d.refcnt[m] \in Int
        /\ Holds(m, d.ring) = 0
    BY <1>1, <1>6, <1>7, OfFinite, HoldsIs DEF States
  <2>2. st.refcnt[m] = Holds(m, st.ring) + Cardinality(Of(m, st.nic)) + x[m]
    BY <1>1 DEF Exact
  <2>3. d.refcnt[m] + Holds(m, st.ring) =
           st.refcnt[m] + (Cardinality(Of(m, d.nic)) - Cardinality(Of(m, st.nic)))
    BY <1>7
  <2> QED BY <2>1, <2>2, <2>3
<1>9. StOK(d, x)
  <2>1. Len(d.ring) = 0 /\ DOMAIN d.ring = {}
    BY <1>7
  <2>2. Len(d.ring) <= RingSize
    BY <2>1, TxRingParams
  <2> QED BY <1>7, <1>8, <2>1, <2>2 DEF StOK, Apart
<1> QED BY <1>7, <1>9

\* A frame is put into the ring by a step that holds a reference to each of its
\* mbufs, none of which the ring has.
LEMMA AppendOK ==
    ASSUME NEW st, NEW x, x \in [Mbufs -> Nat], StOK(st, x), Len(st.ring) < RingSize,
           NEW f \in RingFrame, f \notin st.nic, Sendable(f, st.prefix),
           \A m \in MbufsOf(f) : ~InFrames(m, st.ring) /\ x[m] >= 1,
           NEW y, y = [m \in Mbufs |-> x[m] - IF m \in MbufsOf(f) THEN 1 ELSE 0]
    PROVE  StOK([st EXCEPT !.ring = Append(@, f)], y)
<1> DEFINE r == Append(st.ring, f)
           d == [st EXCEPT !.ring = Append(@, f)]
<1>1. /\ st \in States /\ IsFiniteSet(st.nic) /\ Apart(st.ring) /\ Exact(st, x)
      /\ st.ring \in Seq(RingFrame) /\ st.nic \subseteq AnyFrame
      /\ st.refcnt \in [Mbufs -> Int] /\ st.prefix \in [DataMbufs -> PrefixStates]
      /\ \A i \in DOMAIN st.ring : Sendable(st.ring[i], st.prefix) /\ st.ring[i] \notin st.nic
  BY DEF StOK, States
<1>2. /\ r \in Seq(RingFrame) /\ Len(r) = Len(st.ring) + 1 /\ DOMAIN r = 1 .. Len(st.ring) + 1
      /\ DOMAIN st.ring = 1 .. Len(st.ring) /\ Len(st.ring) \in Nat
      /\ \A i \in DOMAIN st.ring : r[i] = st.ring[i]
      /\ r[Len(st.ring) + 1] = f
  BY <1>1
<1>3. /\ d \in States /\ d.ring = r /\ d.nic = st.nic
      /\ d.refcnt = st.refcnt /\ d.prefix = st.prefix
  BY <1>1, <1>2 DEF States
<1> HIDE DEF r, d
<1>4. ASSUME NEW i \in DOMAIN r
      PROVE  (i \in DOMAIN st.ring /\ r[i] = st.ring[i]) \/ (i = Len(st.ring) + 1 /\ r[i] = f)
  BY <1>2
<1>5. Apart(r)
  <2> SUFFICES ASSUME NEW i \in DOMAIN r, NEW j \in DOMAIN r, i # j,
                      NEW m \in MbufsOf(r[i]), m \in MbufsOf(r[j])
               PROVE  FALSE
    BY DEF Apart
  <2>1. CASE i \in DOMAIN st.ring /\ j \in DOMAIN st.ring
    BY <1>1, <1>2, <2>1 DEF Apart
  <2>2. CASE r[i] = f /\ j \in DOMAIN st.ring
    BY <1>2, <2>2 DEF InFrames
  <2>3. CASE r[j] = f /\ i \in DOMAIN st.ring
    BY <1>2, <2>3 DEF InFrames
  <2> QED BY <1>4, <2>1, <2>2, <2>3
<1>6. \A m : InFrames(m, r) <=> InFrames(m, st.ring) \/ m \in MbufsOf(f)
  <2>1. ASSUME NEW m, InFrames(m, r) PROVE InFrames(m, st.ring) \/ m \in MbufsOf(f)
    BY <1>4, <2>1 DEF InFrames
  <2>2. Len(st.ring) + 1 \in DOMAIN r /\ \A i \in DOMAIN st.ring : i \in DOMAIN r
    BY <1>2
  <2>3. ASSUME NEW m, InFrames(m, st.ring) PROVE InFrames(m, r)
    BY <1>2, <2>2, <2>3 DEF InFrames
  <2>4. ASSUME NEW m \in MbufsOf(f) PROVE InFrames(m, r)
    BY <1>2, <2>2 DEF InFrames
  <2> QED BY <2>1, <2>3, <2>4
<1>7. Exact(d, y)
  <2> SUFFICES ASSUME NEW m \in Mbufs
               PROVE  d.refcnt[m] = Holds(m, d.ring) + Cardinality(Of(m, d.nic)) + y[m]
    BY DEF Exact
  <2>1. Cardinality(Of(m, st.nic)) \in Nat /\ x[m] \in Nat
    BY <1>1, OfFinite
  <2>2. st.refcnt[m] = Holds(m, st.ring) + Cardinality(Of(m, st.nic)) + x[m]
    BY <1>1 DEF Exact
  <2>3. /\ Holds(m, st.ring) = IF InFrames(m, st.ring) THEN 1 ELSE 0
        /\ Holds(m, r) = IF InFrames(m, r) THEN 1 ELSE 0
    BY <1>1, <1>5, HoldsIs
  <2>4. CASE m \in MbufsOf(f)
    <3>1. Holds(m, st.ring) = 0 /\ Holds(m, r) = 1 /\ y[m] = x[m] - 1
      BY <1>6, <2>3, <2>4
    <3> QED BY <1>3, <2>1, <2>2, <3>1
  <2>5. CASE m \notin MbufsOf(f)
    <3>1. Holds(m, st.ring) = Holds(m, r) /\ y[m] = x[m]
      BY <1>6, <2>1, <2>3, <2>5
    <3> QED BY <1>3, <2>1, <2>2, <3>1
  <2> QED BY <2>4, <2>5
<1>8. \A i \in DOMAIN r : Sendable(r[i], st.prefix) /\ r[i] \notin st.nic
  BY <1>1, <1>4
<1>9. Len(r) <= RingSize
  BY <1>2, TxRingParams
<1> QED BY <1>1, <1>3, <1>5, <1>7, <1>8, <1>9 DEF StOK, d

-----------------------------------------------------------------------------
\* The state and the queue.

Injective(q) == \A i, j \in DOMAIN q : q[i] = q[j] => i = j

LEMMA InQueueIs ==
    ASSUME NEW q, Injective(q), NEW m
    PROVE  InQueue(m, q) = IF \E i \in DOMAIN q : q[i] = m THEN 1 ELSE 0
<1> DEFINE T == {i \in DOMAIN q : q[i] = m}
<1>1. CASE \E i \in DOMAIN q : q[i] = m
  <2>1. PICK i \in DOMAIN q : q[i] = m
    BY <1>1
  <2>2. T = {i}
    BY <2>1 DEF Injective
  <2>3. Cardinality({i}) = 1
    BY FS_Singleton
  <2> QED BY <1>1, <2>2, <2>3 DEF InQueue
<1>2. CASE ~\E i \in DOMAIN q : q[i] = m
  <2>1. T = {}
    BY <1>2
  <2>2. Cardinality({}) = 0
    BY FS_EmptySet
  <2> QED BY <1>2, <2>1, <2>2 DEF InQueue
<1> QED BY <1>1, <1>2

LEMMA QueuedType ==
    ASSUME NEW q, Injective(q)
    PROVE  Queued(q) \in [Mbufs -> Nat] /\ \A m \in Mbufs : Queued(q)[m] = InQueue(m, q)
<1>1. \A m : InQueue(m, q) \in Nat
  BY InQueueIs
<1> QED BY <1>1 DEF Queued

LEMMA StIs ==
    ASSUME NEW st, NEW x, StOK(st, x), Becomes(st)
    PROVE  StOK(St', x)
<1>1. st \in States
  BY DEF StOK
<1>2. st = [refcnt |-> st.refcnt, prefix |-> st.prefix, ring |-> st.ring, nic |-> st.nic]
  BY <1>1 DEF States
<1>3. St' = st
  BY <1>2 DEF St, Becomes
<1> QED BY <1>3

LEMMA Facts ==
    ASSUME IInv
    PROVE  /\ St \in States /\ St.refcnt = refcnt /\ St.prefix = prefix
           /\ St.ring = ring /\ St.nic = nic
           /\ StOK(St, Queued(snd_retrans))
           /\ Queued(snd_retrans) \in [Mbufs -> Nat]
           /\ \A m \in Mbufs : Queued(snd_retrans)[m] = InQueue(m, snd_retrans)
           /\ snd_retrans \in Seq(DataMbufs) /\ Injective(snd_retrans)
           /\ DOMAIN snd_retrans = 1 .. Len(snd_retrans) /\ Len(snd_retrans) \in Nat
           /\ tap \in BOOLEAN /\ IsFiniteSet(nic) /\ Apart(ring) /\ nic \subseteq AnyFrame
           /\ refcnt \in [Mbufs -> Int] /\ ring \in Seq(RingFrame)
           /\ prefix \in [DataMbufs -> PrefixStates]
<1>1. StOK(St, Queued(snd_retrans)) /\ Injective(snd_retrans)
  BY DEF IInv, Injective
<1>2. St.refcnt = refcnt /\ St.prefix = prefix /\ St.ring = ring /\ St.nic = nic
  BY DEF St
<1>3. St \in States
  BY <1>1 DEF StOK
<1>4. /\ refcnt \in [Mbufs -> Int] /\ ring \in Seq(RingFrame) /\ nic \subseteq AnyFrame
      /\ prefix \in [DataMbufs -> PrefixStates]
  BY <1>2, <1>3 DEF States
<1>5. DOMAIN snd_retrans = 1 .. Len(snd_retrans) /\ Len(snd_retrans) \in Nat
  BY LenProperties DEF IInv
<1> QED BY <1>1, <1>2, <1>3, <1>4, <1>5, QueuedType DEF IInv, StOK

\* An mbuf that is in its pool is held by nobody.
LEMMA FreeIsFree ==
    ASSUME NEW st, NEW x, x \in [Mbufs -> Nat], StOK(st, x), NEW m \in Mbufs, st.refcnt[m] = 0
    PROVE  /\ ~InFrames(m, st.ring) /\ x[m] = 0
           /\ Holds(m, st.ring) = 0 /\ Cardinality(Of(m, st.nic)) = 0
           /\ \A f \in st.nic : m \notin MbufsOf(f)
<1>1. /\ IsFiniteSet(st.nic) /\ Apart(st.ring)
      /\ st.refcnt[m] = Holds(m, st.ring) + Cardinality(Of(m, st.nic)) + x[m]
  BY DEF StOK, Exact
<1>2. /\ Holds(m, st.ring) = IF InFrames(m, st.ring) THEN 1 ELSE 0
      /\ Cardinality(Of(m, st.nic)) \in Nat /\ x[m] \in Nat
      /\ IsFiniteSet(Of(m, st.nic))
  BY <1>1, HoldsIs, OfFinite
<1>3. Holds(m, st.ring) = 0 /\ Cardinality(Of(m, st.nic)) = 0 /\ x[m] = 0
  BY <1>1, <1>2
<1>4. Of(m, st.nic) = {}
  BY <1>2, <1>3, FS_EmptySet
<1> QED BY <1>2, <1>3, <1>4 DEF Of

\* A mbuf that leaves its pool with k references, all in the hands of the step.
LEMMA Taken ==
    ASSUME NEW st, NEW x, x \in [Mbufs -> Nat], StOK(st, x), NEW m \in Mbufs,
           st.refcnt[m] = 0, NEW k \in Nat, NEW u, u \in States,
           u.refcnt[m] = k, \A j \in Mbufs : j # m => u.refcnt[j] = st.refcnt[j],
           u.ring = st.ring, u.nic = st.nic,
           \A d \in DataMbufs : d # m => u.prefix[d] = st.prefix[d],
           NEW y, y[m] = k, \A j \in Mbufs : j # m => y[j] = x[j]
    PROVE  StOK(u, y)
<1>1. /\ ~InFrames(m, st.ring) /\ x[m] = 0
      /\ Holds(m, st.ring) = 0 /\ Cardinality(Of(m, st.nic)) = 0
  BY FreeIsFree
<1>2. /\ st.refcnt \in [Mbufs -> Int] /\ st.ring \in Seq(RingFrame) /\ Exact(st, x)
      /\ IsFiniteSet(st.nic) /\ Len(st.ring) <= RingSize /\ Apart(st.ring)
      /\ \A i \in DOMAIN st.ring : Sendable(st.ring[i], st.prefix) /\ st.ring[i] \notin st.nic
  BY DEF StOK, States
<1>3. ASSUME NEW i \in DOMAIN st.ring PROVE Sendable(st.ring[i], u.prefix)
  <2>1. st.ring[i] \in RingFrame
    BY <1>2, LenProperties, ElementOfSeq
  <2>2. st.ring[i].data \in DataMbufs /\ st.ring[i].data \in MbufsOf(st.ring[i])
    BY <2>1, FrameFacts, TxRingParams DEF MbufsOf
  <2>3. st.ring[i].data # m
    BY <1>1, <2>2 DEF InFrames
  <2> QED BY <1>2, <2>2, <2>3 DEF Sendable
<1>5. Exact(u, y)
  <2> SUFFICES ASSUME NEW j \in Mbufs
               PROVE  u.refcnt[j] = Holds(j, u.ring) + Cardinality(Of(j, u.nic)) + y[j]
    BY DEF Exact
  <2>1. CASE j = m
    <3>1. u.refcnt[m] = k /\ Holds(m, u.ring) = 0 /\ Cardinality(Of(m, u.nic)) = 0
      BY <1>1, <1>2
    <3> QED BY <2>1, <3>1
  <2>2. CASE j # m
    BY <1>2, <2>2 DEF Exact
  <2> QED BY <2>1, <2>2
<1> QED BY <1>2, <1>3, <1>5 DEF StOK

-----------------------------------------------------------------------------
\* The actions.

LEMMA FlushInv ==
    ASSUME IInv, NEW n, Flush(n)
    PROVE  IInv'
<1>1. n \in Takes(St) /\ Becomes(DrainTxPendingData(St, n))
      /\ snd_retrans' = snd_retrans /\ tap' = tap
  BY DEF Flush
<1>2. StOK(DrainTxPendingData(St, n), Queued(snd_retrans))
  BY <1>1, Facts, DrainOK
<1>3. StOK(St', Queued(snd_retrans))
  BY <1>1, <1>2, StIs
<1> QED BY <1>1, <1>3 DEF IInv

LEMMA SendSegmentInv ==
    ASSUME IInv, NEW n, SendSegment(n)
    PROVE  IInv'
<1>1. PICK m \in Free(DataMbufs) :
        /\ n \in Takes(St)
        /\ Becomes(PushFrame([St EXCEPT !.refcnt[m] = 2, !.prefix[m] = "whole"],
                             Frame(NoMbuf, m), n))
        /\ snd_retrans' = Append(snd_retrans, m) /\ tap' = tap
  BY DEF SendSegment
<1>2. m \in DataMbufs /\ m \in Mbufs /\ refcnt[m] = 0 /\ St.refcnt[m] = 0 /\ m # NoMbuf
  BY Facts, TxRingParams DEF Free, Mbufs
<1> DEFINE q == snd_retrans
           x == Queued(q)
           u == [St EXCEPT !.refcnt[m] = 2, !.prefix[m] = "whole"]
           z == [x EXCEPT ![m] = 2]
           f == Frame(NoMbuf, m)
           room == IF Len(u.ring) < RingSize THEN u ELSE DrainTxPendingData(u, n)
<1>3. /\ u \in States /\ u.refcnt = [St.refcnt EXCEPT ![m] = 2] /\ u.ring = St.ring
      /\ u.nic = St.nic /\ u.prefix = [St.prefix EXCEPT ![m] = "whole"]
  <2> DEFINE r == [St.refcnt EXCEPT ![m] = 2]
             w == [St.prefix EXCEPT ![m] = "whole"]
  <2>1. r \in [Mbufs -> Int] /\ w \in [DataMbufs -> PrefixStates]
    BY <1>2, Facts DEF PrefixStates
  <2>2. u = [St EXCEPT !.refcnt = r, !.prefix = w]
    OBVIOUS
  <2> HIDE DEF u, r, w
  <2>3. St \in States
    BY Facts
  <2>4. u \in States /\ u.refcnt = r /\ u.prefix = w /\ u.ring = St.ring /\ u.nic = St.nic
    BY <2>1, <2>2, <2>3 DEF States
  <2> QED BY <2>4 DEF r, w
<1>4. PushFrame(u, f, n) = [room EXCEPT !.ring = Append(@, f)]
  BY DEF PushFrame
<1>5. Becomes([room EXCEPT !.ring = Append(@, f)])
  BY <1>1, <1>4
<1> HIDE DEF u
<1>6. /\ ~InFrames(m, St.ring) /\ x[m] = 0 /\ \A g \in St.nic : m \notin MbufsOf(g)
  BY <1>2, Facts, FreeIsFree
<1>7. StOK(u, z) /\ z \in [Mbufs -> Nat] /\ u.prefix[m] = "whole"
  <2>1. \A d \in DataMbufs : d # m => u.prefix[d] = St.prefix[d]
    BY <1>3, Facts
  <2>2. u.prefix[m] = "whole"
    BY <1>2, <1>3, Facts
  <2>3. 2 \in Nat /\ x \in [Mbufs -> Nat] /\ StOK(St, x)
    BY Facts
  <2> HIDE DEF x
  <2>4. z \in [Mbufs -> Nat] /\ z[m] = 2 /\ \A j \in Mbufs : j # m => z[j] = x[j]
    BY <1>2, <2>3
  <2>5. u.refcnt[m] = 2 /\ \A j \in Mbufs : j # m => u.refcnt[j] = St.refcnt[j]
    BY <1>2, <1>3, Facts
  <2> HIDE DEF z
  <2>6. StOK(u, z)
    <3>1. m \in Mbufs /\ St.refcnt[m] = 0 /\ u \in States /\ u.ring = St.ring /\ u.nic = St.nic
      BY <1>2, <1>3
    <3> QED BY <2>1, <2>3, <2>4, <2>5, <3>1, Taken
  <2> QED BY <2>2, <2>4, <2>6
<1>8. n \in Takes(u)
  BY <1>1, <1>3 DEF Takes
<1> HIDE DEF x
<1>9. /\ z[m] = 2 /\ \A j \in Mbufs : j # m => z[j] = x[j]
  BY <1>2, Facts DEF x
<1> HIDE DEF z
<1>10. /\ StOK(room, z) /\ Len(room.ring) < RingSize /\ ~InFrames(m, room.ring)
       /\ room.prefix[m] = "whole" /\ \A g \in room.nic : m \notin MbufsOf(g)
  <2>1. CASE Len(u.ring) < RingSize
    BY <1>3, <1>6, <1>7, <2>1
  <2>2. CASE ~(Len(u.ring) < RingSize)
    <3> DEFINE d == DrainTxPendingData(u, n)
    <3>1. /\ StOK(d, z) /\ d.ring = <<>>
          /\ \A j \in DataMbufs : ~InFrames(j, u.ring) => d.prefix[j] = u.prefix[j]
          /\ \A g \in d.nic : g \in u.nic \/ \E i \in DOMAIN u.ring : g = u.ring[i]
      BY <1>7, <1>8, Facts, DrainOK
    <3> HIDE DEF d
    <3>2. Len(d.ring) < RingSize /\ ~InFrames(m, d.ring)
      BY <3>1, TxRingParams DEF InFrames
    <3>3. d.prefix[m] = "whole"
      BY <1>2, <1>3, <1>6, <1>7, <3>1
    <3>4. \A g \in d.nic : m \notin MbufsOf(g)
      BY <1>3, <1>6, <3>1 DEF InFrames
    <3>5. room = d
      BY <2>2 DEF d
    <3> QED BY <3>1, <3>2, <3>3, <3>4, <3>5
  <2> QED BY <2>1, <2>2
<1> HIDE DEF room
<1>11. /\ f \in RingFrame /\ MbufsOf(f) = {m} /\ f \notin room.nic /\ Sendable(f, room.prefix)
  <2>1. f \in RingFrame
    BY <1>2 DEF RingFrame
  <2>2. f.hdr = NoMbuf /\ f.data = m
    BY FrameFacts
  <2>3. MbufsOf(f) = {m}
    BY <1>2, <2>2 DEF MbufsOf
  <2> HIDE DEF f
  <2> QED BY <1>10, <2>1, <2>2, <2>3 DEF Sendable
<1> HIDE DEF f
<1> DEFINE y == [j \in Mbufs |-> z[j] - IF j \in MbufsOf(f) THEN 1 ELSE 0]
<1>12. StOK([room EXCEPT !.ring = Append(@, f)], y)
  <2>1. \A j \in MbufsOf(f) : ~InFrames(j, room.ring) /\ z[j] >= 1
    BY <1>9, <1>10, <1>11
  <2> QED BY <1>7, <1>10, <1>11, <2>1, AppendOK
<1>13. StOK(St', y)
  BY <1>5, <1>12, StIs
<1>14. /\ snd_retrans' \in Seq(DataMbufs)
       /\ DOMAIN snd_retrans' = 1 .. Len(q) + 1 /\ snd_retrans'[Len(q) + 1] = m
       /\ \A i \in DOMAIN q : snd_retrans'[i] = q[i]
  BY <1>1, <1>2, Facts
<1>15. \A i \in DOMAIN q : q[i] # m
  <2>1. InQueue(m, q) = 0
    BY <1>2, <1>6, Facts DEF x
  <2> QED BY <2>1, Facts, InQueueIs
<1>16. Injective(snd_retrans')
  <2> SUFFICES ASSUME NEW i \in DOMAIN snd_retrans', NEW j \in DOMAIN snd_retrans',
                      snd_retrans'[i] = snd_retrans'[j]
               PROVE  i = j
    BY DEF Injective
  <2>1. \A k \in DOMAIN snd_retrans' : k \in DOMAIN q \/ k = Len(q) + 1
    BY <1>14, Facts
  <2> QED BY <1>14, <1>15, <2>1, Facts DEF Injective
<1>17. y = Queued(snd_retrans')
  <2>1. ASSUME NEW j \in Mbufs PROVE y[j] = InQueue(j, snd_retrans')
    <3>1. CASE j = m
      <4>1. \E i \in DOMAIN snd_retrans' : snd_retrans'[i] = m
        BY <1>14, Facts
      <4>2. InQueue(m, snd_retrans') = 1
        BY <1>16, <4>1, InQueueIs
      <4> QED BY <1>9, <1>11, <3>1, <4>2
    <3>2. CASE j # m
      <4>0. /\ \A i \in DOMAIN q : i \in DOMAIN snd_retrans'
            /\ \A i \in DOMAIN snd_retrans' : i \in DOMAIN q \/ i = Len(q) + 1
        BY <1>14, Facts
      <4>1. (\E i \in DOMAIN snd_retrans' : snd_retrans'[i] = j) <=> \E i \in DOMAIN q : q[i] = j
        BY <1>14, <3>2, <4>0
      <4>2. InQueue(j, snd_retrans') = InQueue(j, q)
        <5>1. InQueue(j, snd_retrans') =
                 IF \E i \in DOMAIN snd_retrans' : snd_retrans'[i] = j THEN 1 ELSE 0
          BY <1>16, InQueueIs
        <5>2. InQueue(j, q) = IF \E i \in DOMAIN q : q[i] = j THEN 1 ELSE 0
          BY InQueueIs, Facts
        <5> QED BY <4>1, <5>1, <5>2
      <4>3. x[j] = InQueue(j, q) /\ x[j] \in Nat
        BY Facts DEF x
      <4> QED BY <1>9, <1>11, <3>2, <4>2, <4>3
    <3> QED BY <3>1, <3>2
  <2> QED BY <2>1 DEF Queued
<1> QED BY <1>1, <1>13, <1>14, <1>16, <1>17, Facts DEF IInv, Injective

\* A step that changes what it holds itself, and what it holds of, by the same
\* amount keeps the books.
LEMMA Rebooked ==
    ASSUME NEW st, NEW x, x \in [Mbufs -> Nat], StOK(st, x),
           NEW u, u \in States, u.ring = st.ring, u.nic = st.nic,
           NEW y, y \in [Mbufs -> Nat],
           \A j \in Mbufs : u.refcnt[j] - y[j] = st.refcnt[j] - x[j],
           \A i \in DOMAIN st.ring : Sendable(st.ring[i], u.prefix)
    PROVE  StOK(u, y)
<1>1. /\ st.refcnt \in [Mbufs -> Int] /\ Exact(st, x) /\ u.refcnt \in [Mbufs -> Int]
      /\ IsFiniteSet(st.nic) /\ Len(st.ring) <= RingSize /\ Apart(st.ring)
      /\ \A i \in DOMAIN st.ring : st.ring[i] \notin st.nic
  BY DEF StOK, States
<1>2. Exact(u, y)
  <2> SUFFICES ASSUME NEW j \in Mbufs
               PROVE  u.refcnt[j] = Holds(j, u.ring) + Cardinality(Of(j, u.nic)) + y[j]
    BY DEF Exact
  <2>1. st.refcnt[j] = Holds(j, st.ring) + Cardinality(Of(j, st.nic)) + x[j]
    BY <1>1 DEF Exact
  <2>2. Holds(j, st.ring) = IF InFrames(j, st.ring) THEN 1 ELSE 0
    BY <1>1, HoldsIs
  <2>3. /\ Holds(j, st.ring) \in Int /\ Cardinality(Of(j, st.nic)) \in Int
        /\ x[j] \in Int /\ y[j] \in Int /\ u.refcnt[j] \in Int /\ st.refcnt[j] \in Int
    BY <1>1, <2>2, OfFinite
  <2> QED BY <2>1, <2>3
<1> QED BY <1>1, <1>2 DEF StOK

\* The phases of a retransmission after the drain: the ring is empty, and the
\* data mbuf is in the queue.
LEMMA StripOK ==
    ASSUME NEW st, NEW x, x \in [Mbufs -> Nat], StOK(st, x), st.ring = <<>>,
           NEW m \in DataMbufs
    PROVE  LET u == [st EXCEPT !.prefix[m] = "none"]
           IN  /\ StOK(u, x) /\ u.ring = <<>> /\ u.prefix[m] = "none"
               /\ u.refcnt = st.refcnt /\ u.nic = st.nic
<1> DEFINE w == [st.prefix EXCEPT ![m] = "none"]
           u == [st EXCEPT !.prefix[m] = "none"]
<1> SUFFICES /\ StOK(u, x) /\ u.ring = <<>> /\ u.prefix[m] = "none"
             /\ u.refcnt = st.refcnt /\ u.nic = st.nic
  OBVIOUS
<1>1. st \in States /\ st.prefix \in [DataMbufs -> PrefixStates] /\ st.refcnt \in [Mbufs -> Int]
  BY DEF StOK, States
<1>2. w \in [DataMbufs -> PrefixStates] /\ w[m] = "none"
  BY <1>1 DEF PrefixStates
<1>3. u = [st EXCEPT !.prefix = w]
  OBVIOUS
<1> HIDE DEF u, w
<1>4. u \in States /\ u.refcnt = st.refcnt /\ u.prefix = w /\ u.ring = st.ring /\ u.nic = st.nic
  BY <1>1, <1>2, <1>3 DEF States
<1>5. StOK(u, x)
  <2>1. \A j \in Mbufs : u.refcnt[j] - x[j] = st.refcnt[j] - x[j]
    BY <1>4
  <2>2. \A i \in DOMAIN st.ring : Sendable(st.ring[i], u.prefix)
    OBVIOUS
  <2> QED BY <1>4, <2>1, <2>2, Rebooked
<1> QED BY <1>2, <1>4, <1>5

LEMMA ChainOK ==
    ASSUME NEW st, NEW x, x \in [Mbufs -> Nat], StOK(st, x), st.ring = <<>>,
           NEW m \in DataMbufs, st.prefix[m] = "none",
           NEW h \in HdrMbufs, st.refcnt[h] = 0
    PROVE  StOK(PushFrame([st EXCEPT !.refcnt[h] = 1, !.refcnt[m] = @ + 1], Frame(h, m), 0), x)
<1> DEFINE r == [[st.refcnt EXCEPT ![h] = 1] EXCEPT ![m] = @ + 1]
           u == [st EXCEPT !.refcnt[h] = 1, !.refcnt[m] = @ + 1]
           y == [j \in Mbufs |-> IF j \in {h, m} THEN x[j] + 1 ELSE x[j]]
           f == Frame(h, m)
<1>1. /\ st \in States /\ st.refcnt \in [Mbufs -> Int] /\ IsFiniteSet(st.nic)
  BY DEF StOK, States
<1>2. h \in Mbufs /\ m \in Mbufs /\ h # m /\ h # NoMbuf /\ m # NoMbuf
  BY TxRingParams DEF Mbufs
<1>3. /\ r \in [Mbufs -> Int] /\ r[h] = 1 /\ r[m] = st.refcnt[m] + 1
      /\ \A j \in Mbufs : j \notin {h, m} => r[j] = st.refcnt[j]
  BY <1>1, <1>2
<1>4. u = [st EXCEPT !.refcnt = r]
  BY <1>2
<1>5. x[h] = 0 /\ \A g \in st.nic : h \notin MbufsOf(g)
  BY <1>2, FreeIsFree
<1>6. /\ y \in [Mbufs -> Nat] /\ y[h] = 1 /\ y[m] = x[m] + 1
      /\ \A j \in Mbufs : j \notin {h, m} => y[j] = x[j]
  BY <1>2, <1>5
<1>7. x = [j \in Mbufs |-> y[j] - IF j \in {h, m} THEN 1 ELSE 0]
  <2>1. ASSUME NEW j \in Mbufs PROVE x[j] = y[j] - IF j \in {h, m} THEN 1 ELSE 0
    <3>1. x[j] \in Nat
      OBVIOUS
    <3>2. y[j] = IF j \in {h, m} THEN x[j] + 1 ELSE x[j]
      OBVIOUS
    <3> HIDE DEF y
    <3>3. CASE j \in {h, m}
      BY <3>1, <3>2, <3>3
    <3>4. CASE j \notin {h, m}
      BY <3>1, <3>2, <3>4
    <3> QED BY <3>3, <3>4
  <2> QED BY <2>1
<1>8. f \in RingFrame /\ f.hdr = h /\ f.data = m /\ MbufsOf(f) = {h, m}
  BY <1>2, FrameFacts DEF RingFrame, MbufsOf
<1> DEFINE p == PushFrame(u, f, 0)
<1> SUFFICES StOK(p, x)
  OBVIOUS
<1> HIDE DEF r, u, y, f
<1>9. /\ u \in States /\ u.refcnt = r /\ u.prefix = st.prefix
      /\ u.ring = st.ring /\ u.nic = st.nic
  BY <1>1, <1>3, <1>4 DEF States
<1>10. StOK(u, y)
  <2>1. ASSUME NEW j \in Mbufs PROVE u.refcnt[j] - y[j] = st.refcnt[j] - x[j]
    <3>1. x[j] \in Nat /\ st.refcnt[j] \in Int /\ u.refcnt[j] = r[j]
      BY <1>1, <1>9
    <3>2. CASE j = h
      BY <1>3, <1>5, <1>6, <3>1, <3>2
    <3>3. CASE j = m
      BY <1>3, <1>6, <3>1, <3>3
    <3>4. CASE j \notin {h, m}
      BY <1>3, <1>6, <3>1, <3>4
    <3> QED BY <3>2, <3>3, <3>4
  <2>2. \A i \in DOMAIN st.ring : Sendable(st.ring[i], u.prefix)
    OBVIOUS
  <2>3. u \in States /\ u.ring = st.ring /\ u.nic = st.nic /\ y \in [Mbufs -> Nat]
    BY <1>6, <1>9
  <2> QED BY <2>1, <2>2, <2>3, Rebooked
<1>11. Len(u.ring) < RingSize
  BY <1>9, TxRingParams
<1>12. p = [u EXCEPT !.ring = Append(@, f)]
  BY <1>11 DEF PushFrame
<1>13. f \notin u.nic
  BY <1>5, <1>8, <1>9
<1>14. Sendable(f, u.prefix)
  BY <1>2, <1>8, <1>9 DEF Sendable
<1>15. \A j \in MbufsOf(f) : ~InFrames(j, u.ring) /\ y[j] >= 1
  <2>1. y[h] >= 1 /\ y[m] >= 1
    BY <1>2, <1>6
  <2> QED BY <1>8, <1>9, <2>1 DEF InFrames
<1>16. x = [j \in Mbufs |-> y[j] - IF j \in MbufsOf(f) THEN 1 ELSE 0]
  BY <1>7, <1>8
<1>17. StOK([u EXCEPT !.ring = Append(@, f)], x)
  BY <1>6, <1>8, <1>10, <1>11, <1>13, <1>14, <1>15, <1>16, AppendOK
<1> QED BY <1>12, <1>17

LEMMA RetransmitInv ==
    ASSUME IInv, NEW i \in DOMAIN snd_retrans, NEW n, NEW chained, Retransmit(i, n, chained)
    PROVE  IInv'
<1> DEFINE m       == snd_retrans[i]
           drained == RetransmitPhase0(n)
           strip   == [drained EXCEPT !.prefix[m] = "none"]
           x       == Queued(snd_retrans)
<1>1. /\ n \in Takes(St) /\ snd_retrans' = snd_retrans /\ tap' = tap
      /\ \/ Becomes(drained)
         \/ Becomes(strip)
         \/ \E h \in HdrMbufs :
               /\ drained.refcnt[h] = 0
               /\ Becomes(PushFrame([strip EXCEPT !.refcnt[h] = 1, !.refcnt[m] = @ + 1],
                                    Frame(h, m), 0))
  BY DEF Retransmit
<1>2. m \in DataMbufs
  BY Facts, ElementOfSeq
<1>3. StOK(St, x) /\ x \in [Mbufs -> Nat] /\ tap \in BOOLEAN
  BY Facts
<1>4. drained = DrainTxPendingData(St, n)
  BY DEF RetransmitPhase0
<1> HIDE DEF m, x, drained
<1>5. StOK(drained, x) /\ drained.ring = <<>>
  BY <1>1, <1>3, <1>4, DrainOK
<1>6. /\ StOK(strip, x) /\ strip.ring = <<>> /\ strip.prefix[m] = "none"
      /\ strip.refcnt = drained.refcnt
  BY <1>2, <1>3, <1>5, StripOK
<1> HIDE DEF strip
<1>7. StOK(St', x)
  <2>1. CASE Becomes(drained)
    BY <1>5, <2>1, StIs
  <2>2. CASE Becomes(strip)
    BY <1>6, <2>2, StIs
  <2>3. ASSUME NEW h \in HdrMbufs, drained.refcnt[h] = 0,
               Becomes(PushFrame([strip EXCEPT !.refcnt[h] = 1, !.refcnt[m] = @ + 1],
                                 Frame(h, m), 0))
        PROVE  StOK(St', x)
    <3> DEFINE p == PushFrame([strip EXCEPT !.refcnt[h] = 1, !.refcnt[m] = @ + 1],
                              Frame(h, m), 0)
    <3>1. strip.refcnt[h] = 0
      BY <1>6, <2>3
    <3>2. StOK(p, x)
      <4>1. x \in [Mbufs -> Nat] /\ strip.ring = <<>> /\ strip.prefix[m] = "none" /\ StOK(strip, x)
        BY <1>3, <1>6
      <4> HIDE DEF p
      <4>2. p = PushFrame([strip EXCEPT !.refcnt[h] = 1, !.refcnt[m] = @ + 1], Frame(h, m), 0)
        BY DEF p
      <4> QED BY <1>2, <3>1, <4>1, <4>2, ChainOK
    <3>3. Becomes(p)
      BY <2>3
    <3> HIDE DEF p
    <3> QED BY <3>2, <3>3, StIs
  <2> QED BY <1>1, <2>1, <2>2, <2>3
<1> QED BY <1>1, <1>7 DEF IInv, x

LEMMA OneFrame ==
    ASSUME NEW f, NEW m
    PROVE  /\ Apart(<<f>>) /\ ToSet(<<f>>) = {f}
           /\ Holds(m, <<f>>) = IF m \in MbufsOf(f) THEN 1 ELSE 0
<1>1. DOMAIN <<f>> = {1} /\ <<f>>[1] = f
  OBVIOUS
<1> DEFINE s == <<f>>
<1> HIDE DEF s
<1>2. DOMAIN s = {1} /\ s[1] = f
  BY <1>1 DEF s
<1>3. Apart(s) /\ ToSet(s) = {f} /\ (InFrames(m, s) <=> m \in MbufsOf(f))
  BY <1>2 DEF Apart, ToSet, InFrames
<1>4. Holds(m, s) = IF InFrames(m, s) THEN 1 ELSE 0
  BY <1>3, HoldsIs
<1> QED BY <1>3, <1>4 DEF s

LEMMA SendControlInv ==
    ASSUME IInv, NEW h \in HdrMbufs, SendControl(h)
    PROVE  IInv'
<1> DEFINE f == Frame(h, NoMbuf)
           s == <<f>>
           x == Queued(snd_retrans)
           v == [St EXCEPT !.refcnt[h] = 1]
           r == [St.refcnt EXCEPT ![h] = 1]
           z == [x EXCEPT ![h] = 1]
           b == Burst(v, s)
<1>1. St.refcnt[h] = 0 /\ Becomes(b) /\ snd_retrans' = snd_retrans /\ tap' = tap
  BY Facts DEF SendControl
<1>2. /\ h \in Mbufs /\ h # NoMbuf /\ h \notin DataMbufs
  BY TxRingParams DEF Mbufs
<1>3. /\ StOK(St, x) /\ x \in [Mbufs -> Nat] /\ tap \in BOOLEAN /\ St \in States
      /\ St.refcnt \in [Mbufs -> Int] /\ St.nic \subseteq AnyFrame /\ IsFiniteSet(St.nic)
  BY Facts
<1>4. f.hdr = h /\ f.data = NoMbuf /\ MbufsOf(f) = {h} /\ f \in AnyFrame
  BY <1>2, FrameFacts DEF MbufsOf, AnyFrame
<1>5. \A m \in DataMbufs : Frame(NoMbuf, m) # f
  BY <1>2, FrameFacts
<1> HIDE DEF f
<1>6. /\ Apart(s) /\ ToSet(s) = {f} /\ s \in Seq(AnyFrame)
      /\ \A m : Holds(m, s) = IF m = h THEN 1 ELSE 0
  BY <1>4, OneFrame
<1>7. r \in [Mbufs -> Int] /\ r[h] = 1 /\ \A j \in Mbufs : j # h => r[j] = St.refcnt[j]
  BY <1>2, <1>3
<1>8. v = [St EXCEPT !.refcnt = r]
  OBVIOUS
<1> HIDE DEF s, x, v, r
<1>9. z \in [Mbufs -> Nat] /\ z[h] = 1 /\ \A j \in Mbufs : j # h => z[j] = x[j]
  BY <1>2, <1>3
<1>10. /\ v \in States /\ v.refcnt = r /\ v.prefix = St.prefix
       /\ v.ring = St.ring /\ v.nic = St.nic
  BY <1>3, <1>7, <1>8 DEF States
<1> HIDE DEF z
<1>11. StOK(v, z)
  <2>1. /\ v.refcnt[h] = 1 /\ \A j \in Mbufs : j # h => v.refcnt[j] = St.refcnt[j]
        /\ v.ring = St.ring /\ v.nic = St.nic /\ v \in States
        /\ \A d \in DataMbufs : d # h => v.prefix[d] = St.prefix[d]
    BY <1>7, <1>10
  <2>2. z[h] = 1 /\ \A j \in Mbufs : j # h => z[j] = x[j]
    BY <1>9
  <2>3. 1 \in Nat
    OBVIOUS
  <2> QED BY <1>1, <1>2, <1>3, <2>1, <2>2, <2>3, Taken
<1>12. x[h] = 0 /\ \A g \in St.nic : h \notin MbufsOf(g)
  BY <1>1, <1>2, <1>3, FreeIsFree
<1>13. /\ v.refcnt \in [Mbufs -> Int] /\ v.prefix \in [DataMbufs -> PrefixStates]
       /\ v.ring \in Seq(RingFrame) /\ v.nic \subseteq AnyFrame /\ IsFiniteSet(v.nic)
       /\ Apart(v.ring) /\ Len(v.ring) <= RingSize
       /\ \A i \in DOMAIN v.ring : Sendable(v.ring[i], v.prefix) /\ v.ring[i] \notin v.nic
       /\ Exact(v, z)
  BY <1>11 DEF StOK, States
<1>14. StOK(b, x)
  <2>1. CASE tap
    <3> DEFINE R == Released(v.refcnt, s)
    <3>1. R \in [Mbufs -> Int] /\ \A m \in Mbufs : R[m] = v.refcnt[m] - Holds(m, s)
      BY <1>6, <1>13, ReleasedIs
    <3>2. [m \in DataMbufs |-> IF v.prefix[m] = "whole" /\ Frame(NoMbuf, m) \in ToSet(s)
                               THEN "part" ELSE v.prefix[m]] = v.prefix
      BY <1>5, <1>6, <1>13
    <3>3. b = [v EXCEPT !.refcnt = R, !.prefix = v.prefix]
      BY <2>1, <3>2 DEF Burst
    <3> HIDE DEF b, R
    <3>4. /\ b \in States /\ b.refcnt = R /\ b.prefix = v.prefix
          /\ b.ring = v.ring /\ b.nic = v.nic
      BY <1>10, <1>13, <3>1, <3>3 DEF States
    <3>5. ASSUME NEW j \in Mbufs PROVE b.refcnt[j] - x[j] = v.refcnt[j] - z[j]
      <4>1. x[j] \in Nat /\ v.refcnt[j] \in Int /\ b.refcnt[j] = v.refcnt[j] - Holds(j, s)
        BY <1>3, <1>13, <3>1, <3>4
      <4>2. CASE j = h
        <5>1. Holds(j, s) = 1 /\ z[j] = 1 /\ x[j] = 0
          BY <1>6, <1>9, <1>12, <4>2
        <5> QED BY <4>1, <5>1
      <4>3. CASE j # h
        <5>1. Holds(j, s) = 0 /\ z[j] = x[j]
          BY <1>6, <1>9, <4>3
        <5> QED BY <4>1, <5>1
      <4> QED BY <4>2, <4>3
    <3>6. \A i \in DOMAIN v.ring : Sendable(v.ring[i], b.prefix)
      BY <1>13, <3>4
    <3>7. b \in States /\ b.ring = v.ring /\ b.nic = v.nic
      BY <3>4
    <3> QED BY <1>3, <1>9, <1>11, <3>5, <3>6, <3>7, Rebooked
  <2>2. CASE ~tap
    <3> DEFINE N == v.nic \cup ToSet(s)
    <3>1. b = [v EXCEPT !.nic = N]
      BY <2>2 DEF Burst
    <3>2. N \subseteq AnyFrame
      BY <1>4, <1>6, <1>13
    <3>3. \A i \in DOMAIN s : s[i] \notin v.nic
      <4>1. \A i \in DOMAIN s : s[i] \in ToSet(s)
        BY DEF ToSet
      <4> QED BY <1>4, <1>6, <1>10, <1>12, <4>1
    <3>4. /\ IsFiniteSet(N)
          /\ \A m : Cardinality(Of(m, N)) = Cardinality(Of(m, v.nic)) + Holds(m, s)
      BY <1>6, <1>13, <3>3, NicTakes
    <3>5. ASSUME NEW i \in DOMAIN v.ring PROVE v.ring[i] \notin N
      <4>1. v.ring[i] \in RingFrame
        BY <1>13, LenProperties, ElementOfSeq
      <4>2. v.ring[i] # f
        BY <1>4, <4>1, FrameFacts, TxRingParams
      <4> QED BY <1>6, <1>13, <4>2
    <3> HIDE DEF b, N
    <3>6. /\ b \in States /\ b.refcnt = v.refcnt /\ b.prefix = v.prefix
          /\ b.ring = v.ring /\ b.nic = N
      BY <1>10, <1>13, <3>1, <3>2 DEF States
    <3>7. Exact(b, x)
      <4> SUFFICES ASSUME NEW j \in Mbufs
                   PROVE  b.refcnt[j] = Holds(j, b.ring) + Cardinality(Of(j, b.nic)) + x[j]
        BY DEF Exact
      <4>1. v.refcnt[j] = Holds(j, v.ring) + Cardinality(Of(j, v.nic)) + z[j]
        BY <1>13 DEF Exact
      <4>2. /\ Cardinality(Of(j, v.nic)) \in Int /\ x[j] \in Int
            /\ Holds(j, v.ring) = IF InFrames(j, v.ring) THEN 1 ELSE 0
        BY <1>3, <1>13, OfFinite, HoldsIs
      <4>3. Cardinality(Of(j, N)) = Cardinality(Of(j, v.nic)) + Holds(j, s)
        BY <3>4
      <4>4. CASE j = h
        <5>1. Holds(j, s) = 1 /\ z[j] = 1 /\ x[j] = 0
          BY <1>6, <1>9, <1>12, <4>4
        <5> QED BY <3>6, <4>1, <4>2, <4>3, <5>1
      <4>5. CASE j # h
        <5>1. Holds(j, s) = 0 /\ z[j] = x[j]
          BY <1>6, <1>9, <4>5
        <5> QED BY <3>6, <4>1, <4>2, <4>3, <5>1
      <4> QED BY <4>4, <4>5
    <3> QED BY <1>13, <3>4, <3>5, <3>6, <3>7 DEF StOK
  <2> QED BY <1>3, <2>1, <2>2
<1> HIDE DEF b
<1>15. StOK(St', x)
  BY <1>1, <1>14, StIs
<1> QED BY <1>1, <1>15 DEF IInv, x

LEMMA TxCompleteInv ==
    ASSUME IInv, TxComplete
    PROVE  IInv'
<1>1. PICK f \in nic :
        /\ refcnt' = Released(refcnt, <<f>>) /\ nic' = nic \ {f}
        /\ prefix' = prefix /\ ring' = ring /\ snd_retrans' = snd_retrans /\ tap' = tap
  BY DEF TxComplete
<1> DEFINE x == Queued(snd_retrans)
<1>2. /\ StOK(St, x) /\ x \in [Mbufs -> Nat] /\ IsFiniteSet(nic) /\ Apart(ring)
      /\ refcnt \in [Mbufs -> Int] /\ nic \subseteq AnyFrame
      /\ prefix \in [DataMbufs -> PrefixStates] /\ ring \in Seq(RingFrame)
  BY Facts
<1> HIDE DEF x
<1>3. /\ Len(ring) <= RingSize
      /\ \A i \in DOMAIN ring : Sendable(ring[i], prefix) /\ ring[i] \notin nic
      /\ \A m \in Mbufs : refcnt[m] = Holds(m, ring) + Cardinality(Of(m, nic)) + x[m]
  BY <1>2, Facts DEF StOK, Exact
<1>4. /\ refcnt' \in [Mbufs -> Int]
      /\ \A m \in Mbufs : refcnt'[m] = refcnt[m] - IF m \in MbufsOf(f) THEN 1 ELSE 0
  <2>1. Apart(<<f>>) /\ \A m : Holds(m, <<f>>) = IF m \in MbufsOf(f) THEN 1 ELSE 0
    BY OneFrame
  <2> DEFINE s == <<f>>
  <2> HIDE DEF s
  <2>2. Apart(s) /\ \A m : Holds(m, s) = IF m \in MbufsOf(f) THEN 1 ELSE 0
    BY <2>1 DEF s
  <2>3. Released(refcnt, s) \in [Mbufs -> Int] /\ \A m \in Mbufs : Released(refcnt, s)[m] = refcnt[m] - Holds(m, s)
    BY <1>2, <2>2, ReleasedIs
  <2>4. refcnt' = Released(refcnt, s)
    BY <1>1 DEF s
  <2> QED BY <2>2, <2>3, <2>4
<1>5. ASSUME NEW m \in Mbufs
      PROVE  refcnt'[m] = Holds(m, ring) + Cardinality(Of(m, nic')) + x[m]
  <2>1. IsFiniteSet(Of(m, nic)) /\ Cardinality(Of(m, nic)) \in Nat
    BY <1>2, OfFinite
  <2>2. Holds(m, ring) = IF InFrames(m, ring) THEN 1 ELSE 0
    BY <1>2, HoldsIs
  <2>3. Holds(m, ring) \in Int /\ x[m] \in Int
    BY <1>2, <2>2
  <2>4. CASE m \in MbufsOf(f)
    <3>1. f \in Of(m, nic) /\ Of(m, nic') = Of(m, nic) \ {f}
      BY <1>1, <2>4 DEF Of
    <3>2. Cardinality(Of(m, nic')) = Cardinality(Of(m, nic)) - 1
      BY <2>1, <3>1, FS_RemoveElement
    <3>3. refcnt'[m] = refcnt[m] - 1
      BY <1>4, <2>4
    <3> QED BY <1>3, <2>1, <2>3, <3>2, <3>3
  <2>5. CASE m \notin MbufsOf(f)
    <3>1. Of(m, nic') = Of(m, nic)
      BY <1>1, <2>5 DEF Of
    <3>2. refcnt'[m] = refcnt[m]
      BY <1>2, <1>4, <2>5
    <3> QED BY <1>3, <3>1, <3>2
  <2> QED BY <2>4, <2>5
<1>6. /\ St'.refcnt = refcnt' /\ St'.prefix = prefix /\ St'.ring = ring /\ St'.nic = nic'
      /\ St' = [refcnt |-> refcnt', prefix |-> prefix, ring |-> ring, nic |-> nic']
  BY <1>1 DEF St
<1>7. IsFiniteSet(nic') /\ nic' \subseteq AnyFrame /\ nic' \subseteq nic
  BY <1>1, <1>2, FS_Subset
<1>8. St' \in States
  BY <1>2, <1>4, <1>6, <1>7 DEF States
<1>9. StOK(St', x)
  BY <1>2, <1>3, <1>5, <1>6, <1>7, <1>8 DEF StOK, Exact
<1> QED BY <1>1, <1>9 DEF IInv, x

LEMMA PruneInv ==
    ASSUME IInv, NEW k, Prune(k)
    PROVE  IInv'
<1> DEFINE q == snd_retrans
           x == Queued(q)
           s == [i \in 1 .. k |-> Frame(NoMbuf, q[i])]
<1>1. /\ k \in 1 .. Len(q) /\ refcnt' = Released(refcnt, s)
      /\ snd_retrans' = SubSeq(q, k + 1, Len(q))
      /\ prefix' = prefix /\ ring' = ring /\ tap' = tap /\ nic' = nic
  BY DEF Prune
<1>2. /\ StOK(St, x) /\ x \in [Mbufs -> Nat] /\ IsFiniteSet(nic) /\ Apart(ring)
      /\ refcnt \in [Mbufs -> Int] /\ nic \subseteq AnyFrame
      /\ prefix \in [DataMbufs -> PrefixStates] /\ ring \in Seq(RingFrame)
      /\ q \in Seq(DataMbufs) /\ Injective(q)
      /\ DOMAIN q = 1 .. Len(q) /\ Len(q) \in Nat
      /\ \A m \in Mbufs : x[m] = InQueue(m, q)
  BY Facts
<1>3. \A i \in DOMAIN q : q[i] \in DataMbufs /\ q[i] # NoMbuf
  BY <1>2, ElementOfSeq, TxRingParams
<1>4. /\ DOMAIN s = 1 .. k
      /\ \A i \in 1 .. k : i \in DOMAIN q /\ MbufsOf(s[i]) = {q[i]}
  BY <1>1, <1>2, <1>3, FrameFacts DEF MbufsOf
<1> HIDE DEF s, x
<1>5. Apart(s) /\ \A m : InFrames(m, s) <=> \E i \in 1 .. k : q[i] = m
  BY <1>2, <1>4 DEF Apart, InFrames, Injective
<1>6. /\ refcnt' \in [Mbufs -> Int]
      /\ \A m \in Mbufs : refcnt'[m] = refcnt[m] - Holds(m, s)
  BY <1>1, <1>2, <1>5, ReleasedIs
<1>7. /\ snd_retrans' \in Seq(DataMbufs)
      /\ DOMAIN snd_retrans' = 1 .. Len(q) - k
      /\ \A i \in 1 .. Len(q) - k : snd_retrans'[i] = q[k + i] /\ k + i \in DOMAIN q
  BY <1>1, <1>2
<1>8. Injective(snd_retrans')
  <2> SUFFICES ASSUME NEW i \in DOMAIN snd_retrans', NEW j \in DOMAIN snd_retrans',
                      snd_retrans'[i] = snd_retrans'[j]
               PROVE  i = j
    BY DEF Injective
  <2>1. k + i = k + j
    BY <1>2, <1>7 DEF Injective
  <2> QED BY <1>1, <1>2, <1>7, <2>1
<1>9. ASSUME NEW m \in Mbufs
      PROVE  InQueue(m, snd_retrans') = x[m] - Holds(m, s) /\ x[m] \in Nat /\ Holds(m, s) \in Nat
  <2>1. /\ InQueue(m, q) = IF \E i \in DOMAIN q : q[i] = m THEN 1 ELSE 0
        /\ InQueue(m, snd_retrans') =
              IF \E i \in DOMAIN snd_retrans' : snd_retrans'[i] = m THEN 1 ELSE 0
    BY <1>2, <1>8, InQueueIs
  <2>2. Holds(m, s) = IF InFrames(m, s) THEN 1 ELSE 0
    BY <1>5, HoldsIs
  <2>3. (\E i \in DOMAIN q : q[i] = m) <=>
           InFrames(m, s) \/ \E i \in DOMAIN snd_retrans' : snd_retrans'[i] = m
    <3>1. ASSUME NEW i \in DOMAIN q, q[i] = m, ~(i <= k)
          PROVE  \E j \in DOMAIN snd_retrans' : snd_retrans'[j] = m
      <4>0. i \in 1 .. Len(q) /\ k \in 1 .. Len(q) /\ Len(q) \in Nat
        BY <1>1, <1>2
      <4>1. i - k \in 1 .. Len(q) - k /\ k + (i - k) = i
        BY <3>1, <4>0
      <4> QED BY <1>7, <3>1, <4>1
    <3>2. \A i \in DOMAIN q : i <= k => i \in 1 .. k
      BY <1>1, <1>2
    <3> QED BY <1>4, <1>5, <1>7, <3>1, <3>2
  <2>4. ~(InFrames(m, s) /\ \E i \in DOMAIN snd_retrans' : snd_retrans'[i] = m)
    <3> SUFFICES ASSUME NEW i \in 1 .. k, q[i] = m,
                        NEW j \in DOMAIN snd_retrans', snd_retrans'[j] = m
                 PROVE  FALSE
      BY <1>5
    <3>1. i = k + j
      BY <1>2, <1>4, <1>7 DEF Injective
    <3> QED BY <1>1, <1>2, <1>7, <3>1
  <2>5. x[m] = InQueue(m, q)
    BY <1>2
  <2>6. CASE InFrames(m, s)
    BY <2>1, <2>2, <2>3, <2>4, <2>5, <2>6
  <2>7. CASE ~InFrames(m, s)
    BY <2>1, <2>2, <2>3, <2>5, <2>7
  <2> QED BY <2>6, <2>7
<1> DEFINE y == Queued(snd_retrans')
<1>10. y \in [Mbufs -> Nat] /\ \A m \in Mbufs : y[m] = InQueue(m, snd_retrans')
  BY <1>8, QueuedType
<1> HIDE DEF y
<1>11. /\ St' = [refcnt |-> refcnt', prefix |-> prefix, ring |-> ring, nic |-> nic]
       /\ St'.refcnt = refcnt' /\ St'.prefix = prefix /\ St'.ring = ring /\ St'.nic = nic
       /\ St.refcnt = refcnt /\ St.prefix = prefix /\ St.ring = ring /\ St.nic = nic
  BY <1>1 DEF St
<1>12. St' \in States
  BY <1>2, <1>6, <1>11 DEF States
<1>13. StOK(St', y)
  <2>1. ASSUME NEW j \in Mbufs PROVE St'.refcnt[j] - y[j] = St.refcnt[j] - x[j]
    <3>1. /\ y[j] = x[j] - Holds(j, s) /\ x[j] \in Nat /\ Holds(j, s) \in Nat
          /\ refcnt'[j] = refcnt[j] - Holds(j, s) /\ refcnt[j] \in Int
      BY <1>2, <1>6, <1>9, <1>10
    <3> QED BY <1>11, <3>1
  <2>2. \A i \in DOMAIN St.ring : Sendable(St.ring[i], St'.prefix)
    BY <1>2, <1>11 DEF StOK
  <2>3. St'.ring = St.ring /\ St'.nic = St.nic
    BY <1>11
  <2> DEFINE u == St'
  <2> HIDE DEF u
  <2>4. u \in States /\ u.ring = St.ring /\ u.nic = St.nic
        /\ (\A j \in Mbufs : u.refcnt[j] - y[j] = St.refcnt[j] - x[j])
        /\ (\A i \in DOMAIN St.ring : Sendable(St.ring[i], u.prefix))
    BY <1>12, <2>1, <2>2, <2>3 DEF u
  <2>5. StOK(u, y)
    <3>1. x \in [Mbufs -> Nat] /\ StOK(St, x) /\ y \in [Mbufs -> Nat]
      BY <1>2, <1>10
    <3> QED BY <2>4, <3>1, Rebooked
  <2> QED BY <2>5 DEF u
<1> QED BY <1>1, <1>7, <1>8, <1>13, Facts DEF IInv, Injective, y

-----------------------------------------------------------------------------
LEMMA InitInv == Init => IInv
<1> SUFFICES ASSUME Init PROVE IInv
  OBVIOUS
<1>1. /\ refcnt = [m \in Mbufs |-> 0] /\ prefix = [m \in DataMbufs |-> "none"]
      /\ ring = <<>> /\ snd_retrans = <<>> /\ tap \in BOOLEAN /\ nic = {}
  BY DEF Init, Mbufs
<1>2. /\ St = [refcnt |-> refcnt, prefix |-> prefix, ring |-> ring, nic |-> nic]
      /\ St.refcnt = refcnt /\ St.prefix = prefix /\ St.ring = ring /\ St.nic = nic
  BY DEF St
<1>3. Injective(snd_retrans) /\ snd_retrans \in Seq(DataMbufs)
  BY <1>1 DEF Injective
<1>4. /\ ring \in Seq(RingFrame) /\ Len(ring) <= RingSize /\ DOMAIN ring = {} /\ Apart(ring)
      /\ \A m : ~InFrames(m, ring)
  BY <1>1, TxRingParams DEF Apart, InFrames
<1>5. St \in States
  BY <1>1, <1>2, <1>4 DEF States, PrefixStates
<1>6. IsFiniteSet(nic) /\ \A m : Cardinality(Of(m, nic)) = 0
  BY <1>1, FS_EmptySet DEF Of
<1>7. \A m : Holds(m, ring) = 0
  BY <1>4, HoldsIs
<1>8. ASSUME NEW m \in Mbufs PROVE Queued(snd_retrans)[m] = 0
  <2>1. ~\E i \in DOMAIN snd_retrans : snd_retrans[i] = m
    BY <1>1
  <2>2. InQueue(m, snd_retrans) = 0
    BY <1>3, <2>1, InQueueIs
  <2> QED BY <1>3, <2>2, QueuedType
<1>9. Exact(St, Queued(snd_retrans))
  BY <1>1, <1>2, <1>6, <1>7, <1>8 DEF Exact
<1>10. StOK(St, Queued(snd_retrans))
  BY <1>2, <1>4, <1>5, <1>6, <1>9 DEF StOK
<1> QED BY <1>1, <1>3, <1>10 DEF IInv, Injective

LEMMA NextInv ==
    ASSUME IInv, [Next]_vars
    PROVE  IInv'
<1>1. CASE \E n \in 0 .. RingSize : SendSegment(n) \/ Flush(n)
  BY <1>1, SendSegmentInv, FlushInv
<1>2. CASE \E i \in DOMAIN snd_retrans, n \in 0 .. RingSize, chained \in BOOLEAN :
              Retransmit(i, n, chained)
  BY <1>2, RetransmitInv
<1>3. CASE \E h \in HdrMbufs : SendControl(h)
  BY <1>3, SendControlInv
<1>4. CASE \E k \in 1 .. Cardinality(DataMbufs) : Prune(k)
  BY <1>4, PruneInv
<1>5. CASE TxComplete
  BY <1>5, TxCompleteInv
<1>6. CASE UNCHANGED vars
  <2>1. St' = St /\ snd_retrans' = snd_retrans /\ tap' = tap
    BY <1>6 DEF vars, St
  <2>2. StOK(St', Queued(snd_retrans'))
    <3>1. StOK(St, Queued(snd_retrans))
      BY DEF IInv
    <3> QED BY <2>1, <3>1
  <2> QED BY <2>1, <2>2 DEF IInv
<1> QED BY <1>1, <1>2, <1>3, <1>4, <1>5, <1>6 DEF Next

\* For every pool and every size of the ring, the books of St and of the queue
\* stay exact and the ring stays sendable: the invariant that the results
\* below are read off.
THEOREM Invariance == Spec => []IInv
BY InitInv, NextInv, PTL DEF Spec

\* Every reference to an mbuf has exactly one holder: a frame in the ring, a
\* frame that the NIC has, or the retransmission queue.  So send_bytes,
\* retransmit, the burst with its partial tail, the ACK's prune and the NIC's
\* completion neither leak an mbuf nor free one that is still in use, in
\* whatever order they come.
THEOREM ReferencesAreExact == Spec => []RefsExact
<1>1. IInv => RefsExact
  <2> SUFFICES ASSUME IInv, NEW m \in DOMAIN refcnt
               PROVE  refcnt[m] = Holds(m, ring) + InNic(m)
                        + Cardinality({i \in DOMAIN snd_retrans : snd_retrans[i] = m})
    BY DEF RefsExact
  <2>1. m \in Mbufs /\ Queued(snd_retrans)[m] = InQueue(m, snd_retrans)
    BY Facts
  <2>2. Exact(St, Queued(snd_retrans))
    BY Facts DEF StOK
  <2>3. refcnt[m] = Holds(m, ring) + Cardinality(Of(m, nic)) + Queued(snd_retrans)[m]
    BY <2>1, <2>2, Facts DEF Exact
  <2> QED BY <2>1, <2>3 DEF InNic, Of, InQueue
<1> QED BY <1>1, Invariance, PTL

\* What drain_tx_pending_data hands to the driver can be sent: no mbuf is in
\* the ring twice, a first transmission has its headers and a retransmission
\* only payload behind the fresh header, and the ring is never above its size.
THEOREM BurstsAreSound == Spec => []BurstSound
<1>1. IInv => BurstSound
  <2> SUFFICES ASSUME IInv PROVE BurstSound
    OBVIOUS
  <2>1. /\ Apart(ring) /\ Len(ring) <= RingSize
        /\ \A i \in DOMAIN ring : Sendable(ring[i], prefix)
    BY Facts DEF StOK
  <2> QED BY <2>1 DEF BurstSound, Apart, Sendable
<1> QED BY <1>1, Invariance, PTL
=============================================================================
