--------------------------- MODULE SendPathProofs ---------------------------
(***************************************************************************)
(* Proofs, for every value of the constants, of the safety properties that *)
(* the runs of SendPath check on small instances.                          *)
(***************************************************************************)
EXTENDS SendPath, TLAPS

\* The queue in itself: entries follow each other, and none reaches beyond
\* the end of the data (which SMT cannot derive from the tiling: induction).
Tiled(s, end) ==
    /\ \A i \in 1 .. Len(s) - 1 : EndSeq(s[i]) = s[i + 1].seq
    /\ \A i \in 1 .. Len(s) : EndSeq(s[i]) <= end
    /\ s # <<>> => EndSeq(s[Len(s)]) = end

\* The queue against the acknowledgement point.
Covers(s, una, end) ==
    /\ s # <<>> => s[1].seq <= una
    /\ s = <<>> => end <= una

QueueInv ==
    state # "Closed" =>
        /\ Tiled(snd_retrans, DataEnd)
        /\ Covers(snd_retrans, snd_una, DataEnd)

\* Our FIN is the last thing sent, and not before close; an outcome is recorded
\* only on removal.
FinInv ==
    /\ state \in {"Established", "CloseWait"} => our_fin_seq = NoFin
    /\ our_fin_seq # NoFin => snd_nxt = our_fin_seq + 1
    /\ state # "Closed" => err = "none"

Edge == peer.read + PeerBuf

\* As long as our FIN is not out, nothing the peer said or holds is beyond the
\* right edge of its buffer.
EdgeInv ==
    /\ DataEnd <= Edge
    /\ \A b \in peer.ooo : b < Edge
    /\ state = "Established" => snd_una + snd_wnd <= Edge
    /\ our_fin_seq = NoFin =>
          /\ peer.nxt <= Edge
          /\ \A a \in acks : a.ack + a.wnd <= Edge
          /\ \A f \in wire : ~f.fin

IInv ==
    /\ TypeOK
    /\ QueueInv
    /\ FinInv
    /\ RtoCoversFlight
    /\ NothingLeftBehind
    /\ RefsMatch
    /\ EdgeInv

-----------------------------------------------------------------------------
\* Arithmetic with the segment size, which the solver needs spelled out.
LEMMA MssMultiples ==
    ASSUME NEW i \in Nat, NEW j \in Nat, i <= j
    PROVE  /\ i * MSS \in Nat
           /\ i * MSS <= j * MSS
           /\ (i + 1) * MSS = i * MSS + MSS
<1>1. MSS \in Nat
  BY SendPathParams
<1>2. PICK d \in Nat : j = i + d
  <2>1. j - i \in Nat /\ j = i + (j - i)
    OBVIOUS
  <2> QED BY <2>1
<1>3. d * MSS \in Nat /\ j * MSS = i * MSS + d * MSS /\ i * MSS \in Nat
  BY <1>1, <1>2, SMT
<1>4. (i + 1) * MSS = i * MSS + MSS
  BY <1>1, SMT
<1> QED BY <1>3, <1>4

\* An entry spans at least one byte.
LEMMA EntrySpan ==
    ASSUME NEW e \in Entry
    PROVE  /\ e.seq \in Nat /\ e.len \in Nat /\ EndSeq(e) \in Nat
           /\ e.seq < EndSeq(e)
BY DEF Entry, EndSeq

\* What the send loop pushes for `total` bytes: n entries that tile them.
LEMMA SegmentsTile ==
    ASSUME NEW base \in Nat, NEW total \in Nat, NEW n \in Nat, CutsInto(total, n)
    PROVE  /\ Segments(base, total, n) \in Seq(Entry)
           /\ Len(Segments(base, total, n)) = n
           /\ Tiled(Segments(base, total, n), base + total)
           /\ n > 0 => Segments(base, total, n)[1].seq = base
           /\ n = 0 => total = 0
<1> DEFINE S == Segments(base, total, n)
<1>1. MSS \in Nat /\ MSS > 0
  BY SendPathParams
<1>2. Len(S) = n /\ DOMAIN S = 1 .. n
  BY DEF Segments
<1>3. ASSUME NEW i \in 1 .. n
      PROVE  /\ S[i] \in Entry
             /\ S[i].seq = base + (i - 1) * MSS
             /\ i < n => EndSeq(S[i]) = base + i * MSS
             /\ i = n => EndSeq(S[i]) = base + total
             /\ EndSeq(S[i]) <= base + total
  <2>1. /\ (i - 1) * MSS \in Nat /\ (i - 1) * MSS <= (n - 1) * MSS
        /\ i * MSS = (i - 1) * MSS + MSS
    <3>1. i - 1 \in Nat /\ n - 1 \in Nat /\ i - 1 <= n - 1 /\ i = (i - 1) + 1
      OBVIOUS
    <3> HIDE DEF S
    <3> QED BY <3>1, MssMultiples
  <2>2. (n - 1) * MSS < total /\ (n - 1) * MSS \in Nat
    <3>1. n - 1 \in Nat /\ n # 0
      OBVIOUS
    <3> QED BY <3>1, MssMultiples DEF CutsInto
  <2>3. i < n => i * MSS <= (n - 1) * MSS
    <3>1. ASSUME i < n PROVE i \in Nat /\ n - 1 \in Nat /\ i <= n - 1
      BY <3>1
    <3> HIDE DEF S
    <3> QED BY <3>1, MssMultiples
  <2>4. S[i] = [seq |-> base + (i - 1) * MSS,
                len |-> IF i < n THEN MSS ELSE total - (i - 1) * MSS,
                xmit_count |-> 1, sacked |-> FALSE, lost |-> FALSE]
    BY DEF Segments
  <2> DEFINE l == IF i < n THEN MSS ELSE total - (i - 1) * MSS
  <2>5. l \in Nat \ {0} /\ base + (i - 1) * MSS \in Nat
    BY <1>1, <2>1, <2>2
  <2>6. S[i] \in Entry
    BY <2>4, <2>5 DEF Entry
  <2>7. EndSeq(S[i]) = base + (i - 1) * MSS + l /\ S[i].seq = base + (i - 1) * MSS
    BY <2>4 DEF EndSeq
  <2> HIDE DEF S
  <2> QED BY <1>1, <2>1, <2>2, <2>3, <2>6, <2>7
<1>4. S \in Seq(Entry)
  BY <1>3, <1>2 DEF Segments
<1>5. \A i \in 1 .. Len(S) - 1 : EndSeq(S[i]) = S[i + 1].seq
  <2> SUFFICES ASSUME NEW i \in 1 .. n - 1 PROVE EndSeq(S[i]) = S[i + 1].seq
    BY <1>2
  <2>1. i \in 1 .. n /\ i + 1 \in 1 .. n /\ i < n /\ (i + 1) - 1 = i
    OBVIOUS
  <2> HIDE DEF S
  <2> QED BY <1>3, <2>1
<1>6. n > 0 => S[1].seq = base
  <2> SUFFICES ASSUME n > 0 PROVE S[1].seq = base
    OBVIOUS
  <2>1. 1 \in 1 .. n /\ (1 - 1) * MSS = 0
    BY <1>1
  <2> HIDE DEF S
  <2> QED BY <1>3, <2>1
<1>7. n = 0 => total = 0
  BY DEF CutsInto
<1>8. S # <<>> => EndSeq(S[Len(S)]) = base + total
  <2> SUFFICES ASSUME S # <<>> PROVE EndSeq(S[n]) = base + total
    BY <1>2
  <2>1. n \in 1 .. n
    BY <1>2, <1>4
  <2> HIDE DEF S
  <2> QED BY <1>3, <2>1
<1> HIDE DEF S
<1>9. Tiled(S, base + total)
  BY <1>2, <1>3, <1>5, <1>8 DEF Tiled
<1> QED BY <1>2, <1>4, <1>6, <1>7, <1>9 DEF S

\* t differs from s in nothing that the tiling is about.
SameSpans(s, t) ==
    /\ Len(t) = Len(s)
    /\ \A i \in 1 .. Len(s) : t[i].seq = s[i].seq /\ t[i].len = s[i].len

\* Marking entries as SACKed touches no span.
LEMMA MarkSackedSpans ==
    ASSUME NEW s \in Seq(Entry), NEW blocks \in SUBSET Nat, NEW una \in Nat
    PROVE  /\ MarkSacked(s, blocks, una) \in Seq(Entry)
           /\ SameSpans(s, MarkSacked(s, blocks, una))
<1> DEFINE t == MarkSacked(s, blocks, una)
<1>1. DOMAIN t = 1 .. Len(s) /\ Len(s) \in Nat
  BY DEF MarkSacked
<1>2. ASSUME NEW i \in 1 .. Len(s)
      PROVE  t[i] \in Entry /\ t[i].seq = s[i].seq /\ t[i].len = s[i].len
  <2>1. s[i] \in Entry
    OBVIOUS
  <2>2. PICK x \in BOOLEAN : t[i] = [s[i] EXCEPT !.sacked = x]
    <3>1. t[i] = [s[i] EXCEPT !.sacked = @ \/ \E b \in blocks :
                    b >= una /\ s[i].seq <= b /\ b < EndSeq(s[i])]
      <4>1. i \in DOMAIN s
        OBVIOUS
      <4> QED BY <4>1, Zenon DEF MarkSacked
    <3> DEFINE x == s[i].sacked \/ \E b \in blocks :
                    b >= una /\ s[i].seq <= b /\ b < EndSeq(s[i])
    <3>2. x \in BOOLEAN
      BY Zenon
    <3> QED BY <3>1, <3>2, Zenon
  <2> QED BY <2>1, <2>2 DEF Entry
<1>3. t = [i \in 1 .. Len(s) |-> t[i]]
  BY DEF MarkSacked
<1> HIDE DEF t
<1>4. t \in Seq(Entry) /\ Len(t) = Len(s)
  BY <1>1, <1>2, <1>3
<1> QED BY <1>2, <1>4 DEF t, SameSpans

\* Nor does retransmitting them.
LEMMA RetransmittedSpans ==
    ASSUME NEW s \in Seq(Entry), NEW marked, NEW sent
    PROVE  /\ Retransmitted(s, marked, sent) \in Seq(Entry)
           /\ SameSpans(s, Retransmitted(s, marked, sent))
<1> DEFINE t == Retransmitted(s, marked, sent)
<1>1. DOMAIN t = 1 .. Len(s) /\ Len(s) \in Nat
  BY DEF Retransmitted
<1>2. ASSUME NEW i \in 1 .. Len(s)
      PROVE  t[i] \in Entry /\ t[i].seq = s[i].seq /\ t[i].len = s[i].len
  <2>1. s[i] \in Entry
    OBVIOUS
  <2>2. t[i] = IF i \in sent
               THEN [s[i] EXCEPT !.xmit_count = Lesser(@ + 1, XmitCap), !.lost = FALSE]
               ELSE IF i \in marked THEN [s[i] EXCEPT !.lost = TRUE] ELSE s[i]
    <3>1. i \in DOMAIN s
      OBVIOUS
    <3> QED BY <3>1, Zenon DEF Retransmitted
  <2>3. Lesser(s[i].xmit_count + 1, XmitCap) \in Nat \ {0}
    <3>1. s[i].xmit_count \in Nat \ {0}
      BY <2>1 DEF Entry
    <3>2. XmitCap \in Nat /\ MaxRetrans \in Nat /\ MaxRetrans < XmitCap
      BY SendPathParams
    <3> QED BY <3>1, <3>2 DEF Lesser
  <2> QED BY <2>1, <2>2, <2>3 DEF Entry
<1>3. t = [i \in 1 .. Len(s) |-> t[i]]
  BY DEF Retransmitted
<1> HIDE DEF t
<1>4. t \in Seq(Entry) /\ Len(t) = Len(s)
  BY <1>1, <1>2, <1>3
<1> QED BY <1>2, <1>4 DEF t, SameSpans

LEMMA SameSpansTiled ==
    ASSUME NEW s \in Seq(Entry), NEW t \in Seq(Entry), SameSpans(s, t),
           NEW una \in Nat, NEW end \in Nat
    PROVE  /\ Tiled(s, end) => Tiled(t, end)
           /\ Covers(s, una, end) => Covers(t, una, end)
           /\ (s = <<>>) <=> (t = <<>>)
           /\ \A i \in 1 .. Len(s) : EndSeq(t[i]) = EndSeq(s[i])
<1>1. Len(s) \in Nat /\ Len(t) = Len(s)
  BY DEF SameSpans
<1>2. (s = <<>> <=> Len(s) = 0) /\ (t = <<>> <=> Len(t) = 0)
  OBVIOUS
<1>3. \A i \in 1 .. Len(s) : EndSeq(t[i]) = EndSeq(s[i]) /\ t[i].seq = s[i].seq
  BY DEF SameSpans, EndSeq
<1>4. Tiled(s, end) => Tiled(t, end)
  BY <1>1, <1>2, <1>3 DEF Tiled
<1>5. Covers(s, una, end) => Covers(t, una, end)
  BY <1>1, <1>2, <1>3 DEF Covers
<1> QED BY <1>1, <1>2, <1>3, <1>4, <1>5

\* Sending extends the tiling.
LEMMA ConcatTiled ==
    ASSUME NEW s \in Seq(Entry), NEW t \in Seq(Entry),
           NEW una \in Nat, NEW mid \in Nat, NEW end \in Nat, mid <= end,
           Tiled(s, mid), Covers(s, una, mid),
           Tiled(t, end), t # <<>>, t[1].seq = mid
    PROVE  /\ s \o t \in Seq(Entry)
           /\ Len(s \o t) = Len(s) + Len(t)
           /\ Tiled(s \o t, end)
           /\ Covers(s \o t, una, end)
           /\ s \o t # <<>>
           /\ (s \o t)[1] = IF s = <<>> THEN t[1] ELSE s[1]
<1> DEFINE u == s \o t
<1>1. /\ u \in Seq(Entry) /\ Len(u) = Len(s) + Len(t)
      /\ Len(s) \in Nat /\ Len(t) \in Nat /\ Len(t) > 0
      /\ \A i \in 1 .. Len(s) : u[i] = s[i]
      /\ \A i \in 1 .. Len(t) : u[Len(s) + i] = t[i]
  OBVIOUS
<1>2. /\ s = <<>> <=> Len(s) = 0
      /\ s # <<>> => u[1] = s[1]
      /\ s = <<>> => u[1] = t[1]
      /\ u # <<>>
  BY <1>1
<1> HIDE DEF u
<1>3. ASSUME NEW i \in 1 .. Len(u) - 1 PROVE EndSeq(u[i]) = u[i + 1].seq
  <2>1. CASE i < Len(s)
    <3>1. i \in 1 .. Len(s) - 1 /\ i \in 1 .. Len(s) /\ i + 1 \in 1 .. Len(s)
      BY <1>1, <2>1
    <3> QED BY <1>1, <3>1 DEF Tiled
  <2>2. CASE i = Len(s)
    <3>1. Len(s) # 0 /\ i \in 1 .. Len(s) /\ 1 \in 1 .. Len(t)
      BY <1>1, <2>2
    <3>2. u[i] = s[i] /\ u[i + 1] = t[1] /\ EndSeq(s[i]) = mid
      BY <1>1, <1>2, <2>2, <3>1 DEF Tiled
    <3> QED BY <3>2
  <2>3. CASE i > Len(s)
    <3>1. PICK j \in 1 .. Len(t) - 1 : i = Len(s) + j
      <4>1. i - Len(s) \in 1 .. Len(t) - 1 /\ i = Len(s) + (i - Len(s))
        BY <1>1, <2>3
      <4> QED BY <4>1
    <3>2. j \in 1 .. Len(t) /\ j + 1 \in 1 .. Len(t) /\ i + 1 = Len(s) + (j + 1)
      BY <1>1, <3>1
    <3>3. u[i] = t[j] /\ u[i + 1] = t[j + 1]
      BY <1>1, <3>1, <3>2
    <3> QED BY <3>1, <3>3 DEF Tiled
  <2> QED BY <1>1, <2>1, <2>2, <2>3
<1>4. ASSUME NEW i \in 1 .. Len(u) PROVE EndSeq(u[i]) <= end
  <2>1. CASE i <= Len(s)
    <3>1. i \in 1 .. Len(s) /\ u[i] = s[i]
      BY <1>1, <2>1
    <3>2. EndSeq(s[i]) \in Nat
      <4>1. s[i] \in Entry
        BY <3>1
      <4> QED BY <4>1, EntrySpan
    <3>3. EndSeq(s[i]) <= mid
      BY <3>1 DEF Tiled
    <3> QED BY <3>1, <3>2, <3>3
  <2>2. CASE i > Len(s)
    <3>1. PICK j \in 1 .. Len(t) : i = Len(s) + j
      <4>1. i - Len(s) \in 1 .. Len(t) /\ i = Len(s) + (i - Len(s))
        BY <1>1, <2>2
      <4> QED BY <4>1
    <3> QED BY <1>1, <3>1 DEF Tiled
  <2> QED BY <1>1, <2>1, <2>2
<1>5. EndSeq(u[Len(u)]) = end
  <2>1. Len(t) \in 1 .. Len(t) /\ u[Len(u)] = t[Len(t)]
    BY <1>1
  <2> QED BY <2>1 DEF Tiled
<1>6. Tiled(u, end)
  BY <1>3, <1>4, <1>5 DEF Tiled
<1>7. Covers(u, una, end)
  BY <1>2 DEF Covers
<1> QED BY <1>1, <1>2, <1>6, <1>7 DEF u

\* Pruning keeps it, and leaves nothing that was acknowledged.
LEMMA PruneTiled ==
    ASSUME NEW s \in Seq(Entry), NEW old \in Nat, NEW una \in Nat, NEW end \in Nat,
           old <= una, una <= end, Tiled(s, end), Covers(s, old, end),
           NEW k \in 0 .. Len(s), PrunesTo(s, una, k)
    PROVE  /\ Pruned(s, k) \in Seq(Entry)
           /\ Len(Pruned(s, k)) = Len(s) - k
           /\ Tiled(Pruned(s, k), end)
           /\ Covers(Pruned(s, k), una, end)
           /\ Pruned(s, k) # <<>> => una < EndSeq(Pruned(s, k)[1])
           /\ Pruned(s, k) = <<>> => una = end
<1> DEFINE q == Pruned(s, k)
<1>1. /\ q \in Seq(Entry) /\ Len(s) \in Nat /\ Len(q) = Len(s) - k
      /\ \A i \in 1 .. Len(q) : q[i] = s[k + i]
  BY DEF Pruned
<1> HIDE DEF q
<1>2. q = <<>> <=> k = Len(s)
  <2>1. q = <<>> <=> Len(q) = 0
    BY <1>1
  <2> QED BY <1>1, <2>1
<1>3. ASSUME NEW i \in 1 .. Len(q) - 1 PROVE EndSeq(q[i]) = q[i + 1].seq
  <2>1. /\ i \in 1 .. Len(q) /\ i + 1 \in 1 .. Len(q)
        /\ k + i \in 1 .. Len(s) - 1 /\ k + (i + 1) = (k + i) + 1
    BY <1>1
  <2>2. q[i] = s[k + i]
    BY <1>1, <2>1
  <2>3. q[i + 1] = s[(k + i) + 1]
    BY <1>1, <2>1
  <2> QED BY <2>1, <2>2, <2>3 DEF Tiled
<1>4. ASSUME NEW i \in 1 .. Len(q) PROVE EndSeq(q[i]) <= end
  <2>1. k + i \in 1 .. Len(s) /\ q[i] = s[k + i]
    BY <1>1
  <2> QED BY <2>1 DEF Tiled
<1>5. q # <<>> => EndSeq(q[Len(q)]) = end
  <2> SUFFICES ASSUME q # <<>> PROVE EndSeq(q[Len(q)]) = end
    OBVIOUS
  <2>1. s # <<>> /\ Len(q) \in 1 .. Len(q) /\ q[Len(q)] = s[Len(s)]
    BY <1>1, <1>2
  <2> QED BY <2>1 DEF Tiled
<1>6. q # <<>> => q[1].seq <= una /\ una < EndSeq(q[1])
  <2> SUFFICES ASSUME q # <<>> PROVE q[1].seq <= una /\ una < EndSeq(q[1])
    OBVIOUS
  <2>1. k < Len(s) /\ 1 \in 1 .. Len(q) /\ q[1] = s[k + 1] /\ k + 1 \in 1 .. Len(s)
    BY <1>1, <1>2
  <2>2. s[k + 1] \in Entry
    BY <2>1
  <2>3. s[k + 1].seq \in Nat /\ EndSeq(s[k + 1]) \in Nat
    BY <2>2 DEF Entry, EndSeq
  <2>4. una < EndSeq(q[1])
    BY <2>1, <2>3 DEF PrunesTo
  <2>5. CASE k = 0
    <3>1. s # <<>> /\ q[1] = s[1] /\ s[1].seq \in Nat
      BY <2>1, <2>3, <2>5
    <3> QED BY <2>4, <3>1 DEF Covers
  <2>6. CASE k > 0
    <3>1. k \in 1 .. Len(s) - 1 /\ k \in 1 .. k
      BY <1>1, <2>1, <2>6
    <3> QED BY <2>1, <2>4, <3>1 DEF Tiled, PrunesTo
  <2> QED BY <2>5, <2>6
<1>7. q = <<>> => una = end
  <2> SUFFICES ASSUME q = <<>> PROVE una = end
    OBVIOUS
  <2>1. CASE k = 0
    BY <1>2, <2>1 DEF Covers
  <2>2. CASE k > 0
    <3>1. k = Len(s) /\ k \in 1 .. k /\ s # <<>>
      BY <1>2, <2>2
    <3>2. EndSeq(s[k]) <= una /\ EndSeq(s[k]) = end
      BY <3>1 DEF PrunesTo, Tiled
    <3> QED BY <3>2
  <2> QED BY <2>1, <2>2
<1>8. Tiled(q, end) /\ Covers(q, una, end)
  BY <1>3, <1>4, <1>5, <1>6, <1>7 DEF Tiled, Covers
<1> QED BY <1>1, <1>6, <1>7, <1>8 DEF q

\* What retransmission puts on the wire.
LEMMA FramesOfSeq ==
    ASSUME NEW s \in Seq(Entry), NEW sent \in SUBSET DOMAIN s
    PROVE  /\ Frames([i \in sent |-> s[i]]) \subseteq Frame
           /\ \A f \in Frames([i \in sent |-> s[i]]) : ~f.fin
<1>1. \A i \in sent : s[i] \in Entry
  OBVIOUS
<1> DEFINE g == [i \in sent |-> s[i]]
<1>2. ASSUME NEW f \in Frames(g) PROVE f \in Frame /\ ~f.fin
  <2>1. PICK i \in sent : f = [seq |-> s[i].seq, len |-> s[i].len, fin |-> FALSE]
    BY DEF Frames
  <2>2. s[i].seq \in Nat /\ s[i].len \in Nat
    BY <1>1 DEF Entry
  <2> QED BY <2>1, <2>2 DEF Frame
<1> QED BY <1>2

-----------------------------------------------------------------------------
\* The inductive invariant, action by action.

LEMMA InitIInv == Init => IInv
<1> SUFFICES ASSUME Init PROVE IInv
  OBVIOUS
<1> USE DEF Init
<1>1. PeerBuf \in Nat /\ PeerBuf > 0
  BY SendPathParams
<1>2. TypeOK
  <2>1. snd_retrans \in Seq(Entry)
    OBVIOUS
  <2>2. peer \in [nxt : Nat, read : Nat, ooo : SUBSET Nat, fin : BOOLEAN]
    OBVIOUS
  <2>3. /\ rto \in BOOLEAN /\ tlp \in BOOLEAN /\ srtt \in BOOLEAN
        /\ sample_seen \in BOOLEAN /\ rack_seen \in BOOLEAN /\ refused \in BOOLEAN
    OBVIOUS
  <2>4. state \in States /\ err \in {"none", "ok", "etimedout"}
    BY DEF States
  <2>5. wire \subseteq Frame /\ acks \subseteq Ack
    OBVIOUS
  <2>6. our_fin_seq \in Nat \cup {NoFin}
    OBVIOUS
  <2>7. /\ snd_una \in Nat /\ snd_nxt \in Nat /\ snd_wnd \in Nat /\ rcv_nxt \in Nat
        /\ probes \in Nat /\ refs \in Nat /\ snd_una <= snd_nxt
    BY <1>1
  <2> QED BY <2>1, <2>2, <2>3, <2>4, <2>5, <2>6, <2>7 DEF TypeOK
<1>3. QueueInv
  BY DEF QueueInv, Tiled, Covers, DataEnd, NoFin
<1>4. FinInv /\ RtoCoversFlight /\ NothingLeftBehind /\ RefsMatch
  BY DEF FinInv, RtoCoversFlight, NothingLeftBehind, RefsMatch
<1>5. EdgeInv
  BY <1>1 DEF EdgeInv, Edge, DataEnd
<1> QED BY <1>2, <1>3, <1>4, <1>5 DEF IInv

\* close_conn changes the state, our_fin_seq, snd_nxt and the wire.
LEMMA CloseConnIInv ==
    ASSUME IInv, CloseConn
    PROVE  IInv'
<1> USE DEF IInv
<1>1. our_fin_seq = NoFin /\ our_fin_seq' = snd_nxt /\ snd_nxt' = snd_nxt + 1
  BY DEF CloseConn, FinInv
<1>2. snd_nxt \in Nat /\ snd_una \in Nat /\ snd_una <= snd_nxt
  BY DEF TypeOK
<1>3. our_fin_seq' # NoFin /\ DataEnd' = DataEnd
  BY <1>1, <1>2 DEF DataEnd, NoFin
<1>4. TypeOK'
  <2>1. wire' \subseteq Frame
    <3>1. [seq |-> snd_nxt, len |-> 0, fin |-> TRUE] \in Frame
      BY <1>2 DEF Frame
    <3> QED BY <3>1 DEF CloseConn, TypeOK
  <2>2. state' \in States
    BY DEF CloseConn, States
  <2> QED BY <1>1, <1>2, <2>1, <2>2 DEF CloseConn, TypeOK
<1>5. QueueInv'
  BY <1>3 DEF QueueInv, CloseConn, Tiled, Covers
<1>6. FinInv'
  BY <1>1 DEF FinInv, CloseConn
<1>7. RtoCoversFlight' /\ NothingLeftBehind' /\ RefsMatch'
  BY DEF RtoCoversFlight, NothingLeftBehind, RefsMatch, CloseConn
<1>8. EdgeInv'
  BY <1>3 DEF EdgeInv, Edge, CloseConn
<1> QED BY <1>4, <1>5, <1>6, <1>7, <1>8

\* Removal from the flow table.
LEMMA RemoveIInv ==
    ASSUME IInv, NEW how \in {"ok", "etimedout"}, NEW freed, Remove(how, freed),
           refs - freed \in Nat,
           snd_una' \in Nat, snd_una' <= snd_nxt, rcv_nxt' \in Nat,
           UNCHANGED <<snd_nxt, snd_wnd, our_fin_seq, srtt, probes, sample_seen,
                       rack_seen, refused, peer>>,
           acks' \subseteq acks, wire' \subseteq Frame,
           \A f \in wire' : f \in wire \/ ~f.fin
    PROVE  IInv'
<1> USE DEF IInv
<1>1. /\ state' = "Closed" /\ err' = how /\ rto' = FALSE /\ tlp' = FALSE
      /\ snd_retrans' = <<>> /\ refs' = refs - freed
  BY DEF Remove
<1>2. TypeOK'
  <2>1. snd_retrans' \in Seq(Entry) /\ state' \in States
    BY <1>1 DEF States
  <2> QED BY <1>1, <2>1 DEF TypeOK
<1>3. QueueInv' /\ RtoCoversFlight' /\ NothingLeftBehind' /\ RefsMatch'
  BY <1>1 DEF QueueInv, RtoCoversFlight, NothingLeftBehind, RefsMatch
<1>4. FinInv'
  BY <1>1 DEF FinInv
<1>5. EdgeInv'
  BY <1>1 DEF EdgeInv, Edge, DataEnd
<1> QED BY <1>2, <1>3, <1>4, <1>5

\* RST and TIME_WAIT reaping free nothing.
LEMMA RemovalIInv ==
    ASSUME IInv, RecvRst \/ ReapTimeWait
    PROVE  IInv'
<1>1. /\ Remove("ok", 0)
      /\ UNCHANGED <<snd_una, snd_nxt, snd_wnd, rcv_nxt, our_fin_seq, srtt, probes,
                     sample_seen, rack_seen, refused, peer, wire, acks>>
  BY DEF RecvRst, ReapTimeWait, net
<1>2. /\ refs - 0 \in Nat /\ snd_una' \in Nat /\ snd_una' <= snd_nxt /\ rcv_nxt' \in Nat
      /\ wire' \subseteq Frame
  BY <1>1 DEF IInv, TypeOK
<1> QED BY <1>1, <1>2, RemoveIInv

\* The network and the peer leave the connection alone: only the types and the
\* edges are at stake.
LEMMA NetworkIInv ==
    ASSUME IInv, UNCHANGED <<conn, wire>>,
           peer' \in [nxt : Nat, read : Nat, ooo : SUBSET Nat, fin : BOOLEAN],
           acks' \subseteq Ack,
           Edge <= Edge',
           \A b \in peer'.ooo : b < Edge',
           our_fin_seq = NoFin => /\ peer'.nxt <= Edge'
                                  /\ \A a \in acks' : a.ack + a.wnd <= Edge'
    PROVE  IInv'
<1> USE DEF IInv
<1>1. UNCHANGED <<state, snd_una, snd_nxt, snd_wnd, rcv_nxt, our_fin_seq, snd_retrans,
                  rto, tlp, srtt, probes, sample_seen, rack_seen, refused, refs, err>>
      /\ wire' = wire
  BY DEF conn
<1>2. TypeOK'
  BY <1>1 DEF TypeOK
<1>3. QueueInv' /\ FinInv' /\ RtoCoversFlight' /\ NothingLeftBehind' /\ RefsMatch'
  BY <1>1 DEF QueueInv, FinInv, RtoCoversFlight, NothingLeftBehind, RefsMatch, DataEnd,
              Tiled, Covers
<1>4. Edge \in Nat /\ Edge' \in Nat /\ DataEnd \in Int /\ snd_una + snd_wnd \in Nat
  BY SendPathParams DEF Edge, TypeOK, DataEnd, NoFin
<1>5. DataEnd' = DataEnd
  BY <1>1 DEF DataEnd
<1>6. EdgeInv'
  BY <1>1, <1>4, <1>5 DEF EdgeInv
<1> QED BY <1>2, <1>3, <1>6

\* Every ACK the peer builds ends at its right edge.
LEMMA AckFromEdge ==
    ASSUME NEW p \in [nxt : Nat, read : Nat, ooo : SUBSET Nat, fin : BOOLEAN],
           NEW fin \in BOOLEAN
    PROVE  /\ AckFrom(p, fin) \in Ack
           /\ p.nxt <= p.read + PeerBuf =>
                AckFrom(p, fin).ack + AckFrom(p, fin).wnd <= p.read + PeerBuf
<1>1. PeerBuf \in Nat /\ p.nxt \in Nat /\ p.read \in Nat /\ p.ooo \in SUBSET Nat
  BY SendPathParams
<1>2. PeerWindow(p) \in Nat /\ (p.nxt <= p.read + PeerBuf
                                  => p.nxt + PeerWindow(p) <= p.read + PeerBuf)
  BY <1>1 DEF PeerWindow, SatSub
<1>3. AckFrom(p, fin) \in Ack
  <2>1. (IF p.fin /\ ~fin THEN 1 ELSE 0) \in {0, 1}
    OBVIOUS
  <2>2. (IF SackEnabled THEN p.ooo ELSE {}) \in SUBSET Nat
    BY <1>1
  <2> QED BY <1>1, <1>2, <2>1, <2>2 DEF AckFrom, Ack
<1> QED BY <1>2, <1>3 DEF AckFrom

LEMMA PeerIInv ==
    ASSUME IInv,
           \/ \E f \in wire : \E next \in peer.nxt .. MaxSent + 1 : PeerReceives(f, next)
           \/ PeerReads
           \/ PeerSendsFin
           \/ \E seg \in acks : LoseAck(seg)
    PROVE  IInv'
<1> USE DEF IInv
<1> DEFINE P == [nxt : Nat, read : Nat, ooo : SUBSET Nat, fin : BOOLEAN]
<1>1. /\ PeerBuf \in Nat /\ MaxSent \in Nat /\ peer \in P /\ acks \subseteq Ack
      /\ wire \subseteq Frame
  BY SendPathParams DEF TypeOK
<1>2. /\ DataEnd <= Edge /\ \A b \in peer.ooo : b < Edge
      /\ our_fin_seq = NoFin => /\ peer.nxt <= Edge
                                /\ \A a \in acks : a.ack + a.wnd <= Edge
                                /\ \A f \in wire : ~f.fin
  BY DEF EdgeInv
<1>3. Edge = peer.read + PeerBuf /\ Edge' = peer'.read + PeerBuf
  BY DEF Edge
<1>4. ASSUME peer' \in P, NEW fin \in BOOLEAN, Carry(AckFrom(peer', fin)),
             Edge <= Edge', our_fin_seq = NoFin => peer'.nxt <= Edge'
      PROVE  /\ acks' \subseteq Ack
             /\ our_fin_seq = NoFin => \A a \in acks' : a.ack + a.wnd <= Edge'
  <2> DEFINE new == AckFrom(peer', fin)
  <2>1. new \in Ack /\ (peer'.nxt <= Edge' => new.ack + new.wnd <= Edge')
    BY <1>3, <1>4, AckFromEdge
  <2>2. acks' \subseteq acks \cup {new}
    BY <1>4 DEF Carry
  <2>3. Edge \in Nat /\ Edge' \in Nat
    BY <1>1, <1>3, <1>4
  <2>4. \A a \in acks : a.ack \in Nat /\ a.wnd \in Nat
    BY <1>1 DEF Ack
  <2> HIDE DEF new
  <2> QED BY <1>1, <1>2, <1>4, <2>1, <2>2, <2>3, <2>4
<1>5. ASSUME NEW f \in wire, NEW next \in peer.nxt .. MaxSent + 1, PeerReceives(f, next)
      PROVE  IInv'
  <2>1. peer.nxt \in Nat /\ peer.read \in Nat /\ peer.ooo \in SUBSET Nat
        /\ peer.fin \in BOOLEAN /\ next \in Nat /\ peer.nxt <= next
    BY <1>1
  <2>2. f.seq \in Nat /\ f.len \in Nat
    BY <1>1 DEF Frame
  <2>3. \A b \in Kept(peer, f) : b \in Nat /\ b < Edge
    BY <1>2, <1>3, <2>1, <2>2 DEF Kept
  <2>4. /\ peer' \in P /\ peer'.read = peer.read /\ peer'.nxt = next
        /\ \A b \in peer'.ooo : b < Edge
    <3>1. CASE f.fin
      <4>1. peer' = [peer EXCEPT !.nxt = next]
        BY <1>5, <3>1 DEF PeerReceives
      <4> QED BY <1>1, <1>2, <2>1, <4>1
    <3>2. CASE ~f.fin
      <4> DEFINE rest == {b \in Kept(peer, f) : b >= next}
      <4>1. peer' = [peer EXCEPT !.nxt = next, !.ooo = rest]
        BY <1>5, <3>2 DEF PeerReceives
      <4>2. rest \in SUBSET Nat /\ \A b \in rest : b < Edge
        BY <2>3
      <4> HIDE DEF rest
      <4> QED BY <1>1, <2>1, <4>1, <4>2
    <3> QED BY <3>1, <3>2
  <2>5. Edge' = Edge
    BY <1>3, <2>4
  <2>6. our_fin_seq = NoFin => peer'.nxt <= Edge'
    <3> SUFFICES ASSUME our_fin_seq = NoFin PROVE next <= Edge
      BY <2>4, <2>5
    <3>1. \A b \in peer.nxt .. next - 1 : b \in Kept(peer, f)
      BY <1>2, <1>5 DEF PeerReceives
    <3>2. next > peer.nxt => next - 1 \in Kept(peer, f)
      BY <2>1, <3>1
    <3> QED BY <1>1, <1>2, <1>3, <2>1, <2>3, <3>2
  <2>7. Edge <= Edge'
    BY <1>1, <1>3, <2>1, <2>5
  <2>8. Carry(AckFrom(peer', FALSE)) /\ UNCHANGED <<conn, wire>>
    BY <1>5 DEF PeerReceives
  <2>9. /\ acks' \subseteq Ack
        /\ our_fin_seq = NoFin => \A a \in acks' : a.ack + a.wnd <= Edge'
    BY <1>4, <2>4, <2>6, <2>7, <2>8
  <2> HIDE DEF IInv
  <2> QED BY <2>4, <2>5, <2>6, <2>7, <2>8, <2>9, NetworkIInv
<1>6. ASSUME PeerReads \/ PeerSendsFin
      PROVE  IInv'
  <2>1. PICK fin \in BOOLEAN : /\ Carry(AckFrom(peer', fin))
                               /\ UNCHANGED <<conn, wire>>
    BY <1>6 DEF PeerReads, PeerSendsFin
  <2>2. /\ peer' \in P /\ peer'.nxt = peer.nxt /\ peer'.ooo = peer.ooo
        /\ peer'.read >= peer.read
    <3>1. CASE PeerReads
      <4>1. peer.nxt \in Nat /\ peer.read < peer.nxt
            /\ peer' = [peer EXCEPT !.read = peer.nxt]
        BY <1>1, <3>1 DEF PeerReads
      <4> QED BY <1>1, <4>1
    <3>2. CASE PeerSendsFin
      <4>1. peer' = [peer EXCEPT !.fin = TRUE]
        BY <3>2 DEF PeerSendsFin
      <4>2. peer' \in P
        BY <1>1, <4>1
      <4>3. /\ peer'.nxt = peer.nxt /\ peer'.ooo = peer.ooo
            /\ peer'.read = peer.read /\ peer.read \in Nat
        BY <1>1, <4>1
      <4> QED BY <4>2, <4>3
    <3> QED BY <1>6, <3>1, <3>2
  <2>3. Edge <= Edge' /\ Edge \in Nat /\ Edge' \in Nat
    BY <1>1, <1>3, <2>2
  <2>4. our_fin_seq = NoFin => peer'.nxt <= Edge'
    BY <1>1, <1>2, <2>2, <2>3
  <2>5. /\ acks' \subseteq Ack
        /\ our_fin_seq = NoFin => \A a \in acks' : a.ack + a.wnd <= Edge'
    BY <1>4, <2>1, <2>2, <2>3, <2>4
  <2>6. \A b \in peer'.ooo : b < Edge'
    BY <1>1, <1>2, <2>2, <2>3
  <2> HIDE DEF IInv
  <2> QED BY <2>1, <2>2, <2>3, <2>4, <2>5, <2>6, NetworkIInv
<1>7. ASSUME NEW seg \in acks, LoseAck(seg)
      PROVE  IInv'
  <2>1. peer' = peer /\ acks' \subseteq acks /\ UNCHANGED <<conn, wire>>
    BY <1>7 DEF LoseAck
  <2>2. Edge' = Edge /\ Edge <= Edge'
    BY <1>1, <1>3, <2>1
  <2>3. peer' \in P /\ acks' \subseteq Ack /\ (\A b \in peer'.ooo : b < Edge')
    BY <1>1, <1>2, <2>1, <2>2
  <2>4. our_fin_seq = NoFin => /\ peer'.nxt <= Edge'
                               /\ \A a \in acks' : a.ack + a.wnd <= Edge'
    BY <1>2, <2>1, <2>2
  <2> HIDE DEF IInv
  <2> QED BY <2>1, <2>2, <2>3, <2>4, NetworkIInv
<1> QED BY <1>5, <1>6, <1>7

\* A step that keeps every entry's span, and may move snd_una on only outside
\* ESTABLISHED: the retransmissions, and all segments but a new ACK in
\* ESTABLISHED.
LEMMA KeepsQueueIInv ==
    ASSUME IInv, state # "Closed", state' \in States,
           state' = "Established" => state = "Established" /\ snd_una' = snd_una,
           state' = "CloseWait" => state \in {"Established", "CloseWait"},
           snd_una' \in Nat, snd_una <= snd_una', snd_una' <= snd_nxt,
           snd_retrans' \in Seq(Entry), SameSpans(snd_retrans, snd_retrans'),
           UNCHANGED <<snd_nxt, snd_wnd, our_fin_seq, refs, err, peer>>,
           rcv_nxt' \in Nat, probes' \in Nat,
           rto' \in BOOLEAN, tlp' \in BOOLEAN, srtt' \in BOOLEAN,
           sample_seen' \in BOOLEAN, rack_seen' \in BOOLEAN, refused' \in BOOLEAN,
           snd_retrans' # <<>> => rto',
           rto' \/ tlp' => rto \/ tlp \/ snd_retrans' # <<>>,
           acks' \subseteq acks, wire' \subseteq Frame,
           \A f \in wire' : f \in wire \/ ~f.fin
    PROVE  IInv'
<1> USE DEF IInv
<1>1. /\ snd_una \in Nat /\ snd_nxt \in Nat /\ snd_retrans \in Seq(Entry)
      /\ DataEnd' = DataEnd /\ DataEnd \in Int
  BY DEF TypeOK, DataEnd, NoFin
<1>2. TypeOK'
  <2>1. acks' \subseteq Ack
    BY DEF TypeOK
  <2> QED BY <2>1 DEF TypeOK
<1>3. /\ (snd_retrans = <<>>) <=> (snd_retrans' = <<>>)
      /\ \A i \in 1 .. Len(snd_retrans) : /\ EndSeq(snd_retrans'[i]) = EndSeq(snd_retrans[i])
                                          /\ snd_retrans'[i].seq = snd_retrans[i].seq
      /\ Len(snd_retrans') = Len(snd_retrans) /\ Len(snd_retrans) \in Nat
  <2>1. Len(snd_retrans') = Len(snd_retrans) /\ Len(snd_retrans) \in Nat
    BY <1>1 DEF SameSpans
  <2>2. (snd_retrans = <<>>) <=> (snd_retrans' = <<>>)
    BY <1>1, <2>1
  <2> QED BY <1>1, <2>1, <2>2 DEF SameSpans, EndSeq
<1>4. QueueInv'
  <2>1. Tiled(snd_retrans, DataEnd) /\ Covers(snd_retrans, snd_una, DataEnd)
    BY DEF QueueInv
  <2>2. Tiled(snd_retrans', DataEnd)
    BY <1>3, <2>1 DEF Tiled
  <2>3. snd_retrans # <<>> => snd_retrans[1] \in Entry
    BY <1>1
  <2>4. Covers(snd_retrans', snd_una', DataEnd)
    <3>1. CASE snd_retrans = <<>>
      BY <1>1, <1>3, <2>1, <3>1 DEF Covers
    <3>2. CASE snd_retrans # <<>>
      <4>1. 1 \in 1 .. Len(snd_retrans)
        BY <1>1, <3>2
      <4>2. snd_retrans[1].seq \in Nat /\ snd_retrans'[1].seq = snd_retrans[1].seq
        BY <1>3, <2>3, <3>2, <4>1 DEF Entry
      <4> QED BY <1>1, <1>3, <2>1, <3>2, <4>2 DEF Covers
    <3> QED BY <3>1, <3>2
  <2> QED BY <1>1, <2>2, <2>4 DEF QueueInv
<1>5. FinInv'
  BY DEF FinInv
<1>6. RtoCoversFlight' /\ RefsMatch'
  BY <1>3 DEF RtoCoversFlight, RefsMatch
<1>7. NothingLeftBehind'
  <2> SUFFICES ASSUME state' = "Established"
               PROVE  /\ snd_retrans' # <<>> => snd_una' < EndSeq(snd_retrans'[1])
                      /\ rto' \/ tlp' => snd_retrans' # <<>>
    BY DEF NothingLeftBehind
  <2>1. state = "Established" /\ snd_una' = snd_una
    OBVIOUS
  <2>2. /\ snd_retrans # <<>> => snd_una < EndSeq(snd_retrans[1])
        /\ rto \/ tlp => snd_retrans # <<>>
    BY <2>1 DEF NothingLeftBehind
  <2>3. snd_retrans # <<>> => 1 \in 1 .. Len(snd_retrans)
    BY <1>1
  <2> QED BY <1>3, <2>1, <2>2, <2>3
<1>8. EdgeInv'
  BY <1>1 DEF EdgeInv, Edge
<1> QED BY <1>2, <1>4, <1>5, <1>6, <1>7, <1>8

LEMMA OnTlpFireIInv ==
    ASSUME IInv, NEW sent \in SUBSET DOMAIN snd_retrans, OnTlpFire(sent)
    PROVE  IInv'
<1> DEFINE resent == Retransmitted(snd_retrans, {}, sent)
<1>1. TypeOK /\ RtoCoversFlight
  BY DEF IInv
<1>2. snd_retrans \in Seq(Entry)
  BY <1>1 DEF TypeOK
<1>3. resent \in Seq(Entry) /\ SameSpans(snd_retrans, resent)
      /\ DOMAIN resent = DOMAIN snd_retrans
  BY <1>2, RetransmittedSpans DEF SameSpans
<1>4. SameSpans(snd_retrans, snd_retrans)
  BY DEF SameSpans
<1>5. /\ Frames([i \in sent |-> resent[i]]) \subseteq Frame
      /\ \A f \in Frames([i \in sent |-> resent[i]]) : ~f.fin
  BY <1>3, FramesOfSeq
<1>6. /\ snd_retrans' \in {snd_retrans, resent}
      /\ wire' = wire \/ wire' = wire \cup Frames([i \in sent |-> resent[i]])
      /\ probes' = probes \/ probes' = probes + 1
      /\ sample_seen' = sample_seen \/ sample_seen' = FALSE
      /\ tlp' = FALSE /\ state # "Closed"
      /\ UNCHANGED <<state, snd_una, snd_nxt, snd_wnd, rcv_nxt, our_fin_seq,
                     rto, srtt, rack_seen, refused, refs, err, peer, acks>>
  BY DEF OnTlpFire
<1> HIDE DEF resent
<1>7. snd_retrans' \in Seq(Entry) /\ SameSpans(snd_retrans, snd_retrans')
  BY <1>2, <1>3, <1>4, <1>6
<1>8. (snd_retrans = <<>>) <=> (snd_retrans' = <<>>)
  BY <1>2, <1>7 DEF SameSpans
<1>9. wire' \subseteq Frame /\ \A f \in wire' : f \in wire \/ ~f.fin
  BY <1>1, <1>5, <1>6 DEF TypeOK
<1>10. /\ state' \in States /\ snd_una' \in Nat /\ snd_una <= snd_una'
       /\ snd_una' <= snd_nxt /\ rcv_nxt' \in Nat /\ probes' \in Nat
  BY <1>1, <1>6 DEF TypeOK
<1>11. /\ rto' \in BOOLEAN /\ tlp' \in BOOLEAN /\ srtt' \in BOOLEAN
       /\ sample_seen' \in BOOLEAN /\ rack_seen' \in BOOLEAN /\ refused' \in BOOLEAN
  BY <1>1, <1>6 DEF TypeOK
<1>12. /\ snd_retrans' # <<>> => rto'
       /\ rto' \/ tlp' => rto \/ tlp \/ snd_retrans' # <<>>
  BY <1>1, <1>6, <1>8 DEF RtoCoversFlight
<1> QED BY <1>6, <1>7, <1>9, <1>10, <1>11, <1>12, KeepsQueueIInv

LEMMA OnRtoFireIInv ==
    ASSUME IInv, NEW lost \in SUBSET DOMAIN snd_retrans,
           NEW sent \in SUBSET DOMAIN snd_retrans, OnRtoFire(lost, sent)
    PROVE  IInv'
<1> DEFINE resent == Retransmitted(snd_retrans, lost, sent)
<1>1. TypeOK /\ RtoCoversFlight /\ RefsMatch
  BY DEF IInv
<1>2. snd_retrans \in Seq(Entry)
  BY <1>1 DEF TypeOK
<1>3. resent \in Seq(Entry) /\ SameSpans(snd_retrans, resent)
      /\ DOMAIN resent = DOMAIN snd_retrans
  BY <1>2, RetransmittedSpans DEF SameSpans
<1>4. /\ Frames([i \in sent |-> resent[i]]) \subseteq Frame
      /\ \A f \in Frames([i \in sent |-> resent[i]]) : ~f.fin
  BY <1>3, FramesOfSeq
<1>5. /\ state # "Closed" /\ rto
      /\ UNCHANGED <<snd_una, snd_nxt, snd_wnd, rcv_nxt, our_fin_seq, srtt,
                     probes, sample_seen, rack_seen, refused, peer, acks>>
  BY DEF OnRtoFire
<1>6. /\ state \in States /\ snd_una' \in Nat /\ snd_una <= snd_una'
      /\ snd_una' <= snd_nxt /\ rcv_nxt' \in Nat /\ probes' \in Nat
      /\ srtt' \in BOOLEAN /\ sample_seen' \in BOOLEAN
      /\ rack_seen' \in BOOLEAN /\ refused' \in BOOLEAN
  BY <1>1, <1>5 DEF TypeOK
<1>7. CASE snd_retrans = <<>>
  <2>1. rto' = FALSE /\ UNCHANGED <<state, err, tlp, snd_retrans, refs, wire>>
    BY <1>7 DEF OnRtoFire
  <2>2. snd_retrans' \in Seq(Entry) /\ SameSpans(snd_retrans, snd_retrans')
        /\ snd_retrans' = <<>>
    BY <1>2, <1>7, <2>1 DEF SameSpans
  <2>3. rto' \in BOOLEAN /\ tlp' \in BOOLEAN /\ wire' \subseteq Frame
    BY <1>1, <2>1 DEF TypeOK
  <2> QED BY <1>5, <1>6, <2>1, <2>2, <2>3, KeepsQueueIInv
<1>8. CASE snd_retrans # <<>> /\ resent[1].xmit_count > MaxRetrans
  <2>1. Remove("etimedout", Len(snd_retrans))
        /\ wire' = wire \cup Frames([i \in sent |-> resent[i]])
    BY <1>8 DEF OnRtoFire
  <2> HIDE DEF resent
  <2>2. refs - Len(snd_retrans) \in Nat
    <3>1. refs = Len(snd_retrans) /\ refs \in Nat
      BY <1>1, <1>5 DEF RefsMatch, TypeOK
    <3> QED BY <3>1
  <2>3. wire' \subseteq Frame /\ \A f \in wire' : f \in wire \/ ~f.fin
    BY <1>1, <1>4, <2>1 DEF TypeOK
  <2>4. acks' \subseteq acks
    BY <1>5
  <2> QED BY <1>5, <1>6, <2>1, <2>2, <2>3, <2>4, RemoveIInv
<1>9. CASE snd_retrans # <<>> /\ ~(resent[1].xmit_count > MaxRetrans)
  <2>1. /\ snd_retrans' = resent /\ rto' = TRUE
        /\ UNCHANGED <<state, err, tlp, refs>>
        /\ wire' = wire \cup Frames([i \in sent |-> resent[i]])
    BY <1>9 DEF OnRtoFire
  <2> HIDE DEF resent
  <2>2. snd_retrans' \in Seq(Entry) /\ SameSpans(snd_retrans, snd_retrans')
    BY <1>3, <2>1
  <2>3. wire' \subseteq Frame /\ \A f \in wire' : f \in wire \/ ~f.fin
    BY <1>1, <1>4, <2>1 DEF TypeOK
  <2>4. rto' \in BOOLEAN /\ tlp' \in BOOLEAN
    BY <1>1, <2>1 DEF TypeOK
  <2> QED BY <1>5, <1>6, <2>1, <2>2, <2>3, <2>4, KeepsQueueIInv
<1> QED BY <1>7, <1>8, <1>9

\* arm_tlp_pto arms a probe only if something is queued.
LEMMA TlpArmsQueue ==
    ASSUME NEW s, NEW armed, NEW fired, NEW seen, NEW sampled,
           TlpArms(s, armed, fired, seen, sampled)
    PROVE  s # <<>>
BY DEF TlpArms

LEMMA AnswerOnlyIInv ==
    ASSUME IInv, NEW seg \in acks, AnswerOnly(seg), acks' \subseteq acks, UNCHANGED peer
    PROVE  IInv'
<1>1. TypeOK /\ RtoCoversFlight
  BY DEF IInv
<1>2. /\ state # "Closed"
      /\ tlp' = (tlp \/ TlpArms(snd_retrans, tlp, probes, sample_seen, srtt))
      /\ UNCHANGED <<state, snd_una, snd_nxt, snd_wnd, rcv_nxt, our_fin_seq,
                     snd_retrans, rto, srtt, probes, sample_seen, rack_seen,
                     refused, refs, err, wire>>
  BY DEF AnswerOnly
<1>3. tlp' \in BOOLEAN /\ (tlp' => tlp \/ snd_retrans # <<>>)
  BY <1>2, TlpArmsQueue, Zenon
<1>4. /\ state' \in States /\ snd_una' \in Nat /\ snd_una <= snd_una'
      /\ snd_una' <= snd_nxt /\ rcv_nxt' \in Nat /\ probes' \in Nat
      /\ rto' \in BOOLEAN /\ srtt' \in BOOLEAN
      /\ sample_seen' \in BOOLEAN /\ rack_seen' \in BOOLEAN /\ refused' \in BOOLEAN
      /\ snd_retrans' \in Seq(Entry) /\ wire' \subseteq Frame
  BY <1>1, <1>2 DEF TypeOK
<1>5. SameSpans(snd_retrans, snd_retrans')
  BY <1>2 DEF SameSpans
<1>6. /\ snd_retrans' # <<>> => rto'
      /\ rto' \/ tlp' => rto \/ tlp \/ snd_retrans' # <<>>
  BY <1>1, <1>2, <1>3 DEF RtoCoversFlight
<1> QED BY <1>2, <1>3, <1>4, <1>5, <1>6, KeepsQueueIInv

\* A duplicate ACK in ESTABLISHED.
LEMMA OldAckIInv ==
    ASSUME IInv, NEW seg \in acks, NEW lost \in SUBSET DOMAIN snd_retrans,
           NEW sent \in SUBSET lost, state = "Established", OldAck(seg, lost, sent),
           state' \in {"Established", "CloseWait"}, rcv_nxt' \in Nat,
           acks' \subseteq acks, UNCHANGED <<snd_nxt, our_fin_seq, err, peer>>
    PROVE  IInv'
<1> DEFINE marked == MarkSacked(snd_retrans, seg.sack, snd_una)
           resent == Retransmitted(marked, lost, sent)
<1>1. TypeOK /\ RtoCoversFlight
  BY DEF IInv
<1>2. snd_retrans \in Seq(Entry) /\ seg.sack \in SUBSET Nat /\ snd_una \in Nat
  BY <1>1 DEF TypeOK, Ack
<1>3. marked \in Seq(Entry) /\ SameSpans(snd_retrans, marked)
  BY <1>2, MarkSackedSpans
<1>4. resent \in Seq(Entry) /\ SameSpans(marked, resent)
  <2> HIDE DEF marked
  <2> QED BY <1>3, RetransmittedSpans
<1>5. /\ snd_retrans' = resent
      /\ tlp' = (tlp \/ TlpArms(resent, tlp, probes, sample_seen, srtt))
      /\ wire' = wire \cup Frames([i \in sent |-> resent[i]])
      /\ rack_seen' = (rack_seen \/ Delivered(marked, snd_una))
      /\ UNCHANGED <<snd_una, snd_wnd, srtt, probes, sample_seen, refused, refs, rto>>
  BY DEF OldAck
<1> HIDE DEF resent, marked
<1>6. SameSpans(snd_retrans, resent) /\ sent \in SUBSET DOMAIN resent
  BY <1>2, <1>3, <1>4 DEF SameSpans
<1>7. (snd_retrans = <<>>) <=> (resent = <<>>)
  BY <1>2, <1>4, <1>6 DEF SameSpans
<1>8. tlp' \in BOOLEAN /\ (tlp' => tlp \/ resent # <<>>) /\ rack_seen' \in BOOLEAN
  BY <1>5, TlpArmsQueue, Zenon
<1>9. wire' \subseteq Frame /\ \A f \in wire' : f \in wire \/ ~f.fin
  BY <1>1, <1>4, <1>5, <1>6, FramesOfSeq DEF TypeOK
<1>10. /\ state' \in States /\ snd_una' \in Nat /\ snd_una <= snd_una'
       /\ snd_una' <= snd_nxt /\ probes' \in Nat
       /\ rto' \in BOOLEAN /\ srtt' \in BOOLEAN
       /\ sample_seen' \in BOOLEAN /\ refused' \in BOOLEAN
  BY <1>1, <1>5 DEF TypeOK, States
<1>11. snd_retrans' # <<>> => rto'
  BY <1>1, <1>5, <1>7 DEF RtoCoversFlight
<1>12. rto' \/ tlp' => rto \/ tlp \/ snd_retrans' # <<>>
  BY <1>5, <1>8
<1> QED BY <1>4, <1>5, <1>6, <1>8, <1>9, <1>10, <1>11, <1>12, KeepsQueueIInv

\* A new ACK in ESTABLISHED prunes the queue, moves the window and stops the
\* timers with the last entry.
LEMMA NewAckIInv ==
    ASSUME IInv, NEW seg \in acks, NEW lost \in SUBSET DOMAIN snd_retrans,
           NEW sent \in SUBSET lost, NEW sampled \in BOOLEAN,
           NEW k \in 0 .. Len(snd_retrans), state = "Established",
           NewAck(seg, lost, sent, sampled, k),
           state' \in {"Established", "CloseWait"}, rcv_nxt' \in Nat,
           acks' \subseteq acks, UNCHANGED <<snd_nxt, our_fin_seq, err, peer>>
    PROVE  IInv'
<1> DEFINE marked == MarkSacked(snd_retrans, seg.sack, snd_una)
           resent == Retransmitted(marked, lost, sent)
           queue  == Pruned(resent, k)
           idle   == StopsTimers(queue, seg.ack)
<1>1. /\ TypeOK /\ QueueInv /\ FinInv /\ RtoCoversFlight /\ NothingLeftBehind
      /\ RefsMatch /\ EdgeInv
  BY DEF IInv
<1>2. /\ snd_retrans \in Seq(Entry) /\ seg.sack \in SUBSET Nat /\ snd_una \in Nat
      /\ snd_nxt \in Nat /\ seg.ack \in Nat /\ seg.wnd \in Nat /\ refs \in Nat
  BY <1>1 DEF TypeOK, Ack
<1>3. our_fin_seq = NoFin /\ DataEnd = snd_nxt /\ DataEnd' = snd_nxt
  BY <1>1 DEF FinInv, DataEnd
<1>4. marked \in Seq(Entry) /\ SameSpans(snd_retrans, marked)
  BY <1>2, MarkSackedSpans
<1>5. resent \in Seq(Entry) /\ SameSpans(marked, resent)
  <2> HIDE DEF marked
  <2> QED BY <1>4, RetransmittedSpans
<1>6. /\ snd_una < seg.ack /\ seg.ack <= snd_nxt
      /\ k \in 0 .. Len(resent) /\ PrunesTo(resent, seg.ack, k)
      /\ snd_una' = seg.ack /\ snd_wnd' = seg.wnd
      /\ rack_seen' = (rack_seen \/ Delivered(marked, seg.ack))
      /\ srtt' = (srtt \/ sampled)
      /\ probes' = 0
      /\ sample_seen' = (sample_seen \/ sampled)
      /\ refused' = (refused /\ ~WritableFires(seg.ack))
      /\ snd_retrans' = queue
      /\ refs' = refs - k
      /\ rto' = (rto /\ ~idle)
      /\ tlp' = ((tlp /\ ~idle)
                   \/ TlpArms(queue, tlp /\ ~idle, 0, sample_seen \/ sampled,
                              srtt \/ sampled))
      /\ wire' = wire \cup Frames([i \in sent |-> resent[i]])
  BY DEF NewAck
<1> HIDE DEF marked, resent
<1>7. /\ SameSpans(snd_retrans, resent) /\ sent \in SUBSET DOMAIN resent
      /\ Len(resent) = Len(snd_retrans)
  BY <1>2, <1>4, <1>5 DEF SameSpans
<1>8. Tiled(resent, snd_nxt) /\ Covers(resent, snd_una, snd_nxt)
  <2>1. Tiled(snd_retrans, snd_nxt) /\ Covers(snd_retrans, snd_una, snd_nxt)
    BY <1>1, <1>3 DEF QueueInv
  <2> QED BY <1>2, <1>5, <1>7, <2>1, SameSpansTiled
<1>9. /\ queue \in Seq(Entry) /\ Len(queue) = Len(resent) - k
      /\ Tiled(queue, snd_nxt) /\ Covers(queue, seg.ack, snd_nxt)
      /\ queue # <<>> => seg.ack < EndSeq(queue[1])
      /\ queue = <<>> => seg.ack = snd_nxt
  <2>1. snd_una <= seg.ack
    BY <1>2, <1>6
  <2> QED BY <1>2, <1>5, <1>6, <1>8, <2>1, PruneTiled
<1> HIDE DEF queue
<1>10. queue = <<>> <=> idle
  BY <1>9 DEF StopsTimers
<1> HIDE DEF idle
<1>11. queue # <<>> => snd_retrans # <<>>
  BY <1>2, <1>7, <1>9
<1>12. /\ rack_seen' \in BOOLEAN /\ srtt' \in BOOLEAN /\ sample_seen' \in BOOLEAN
       /\ refused' \in BOOLEAN /\ rto' \in BOOLEAN /\ tlp' \in BOOLEAN
  BY <1>6, Zenon
<1>13. wire' \subseteq Frame /\ \A f \in wire' : f \in wire \/ ~f.fin
  BY <1>1, <1>5, <1>6, <1>7, FramesOfSeq DEF TypeOK
<1>14. refs' = Len(queue) /\ refs' \in Nat
  <2>1. refs = Len(snd_retrans)
    BY <1>1 DEF RefsMatch
  <2> QED BY <1>2, <1>6, <1>7, <1>9, <2>1
<1>15. TypeOK'
  <2>1. /\ state' \in States /\ acks' \subseteq Ack /\ snd_una' \in Nat
        /\ snd_wnd' \in Nat /\ probes' \in Nat /\ snd_una' <= snd_nxt'
    BY <1>1, <1>2, <1>6 DEF TypeOK, States
  <2>2. snd_retrans' \in Seq(Entry)
    BY <1>6, <1>9
  <2> QED BY <1>1, <1>12, <1>13, <1>14, <2>1, <2>2 DEF TypeOK
<1>16. QueueInv'
  BY <1>3, <1>6, <1>9 DEF QueueInv
<1>17. FinInv'
  BY <1>1, <1>3 DEF FinInv
<1>18. RtoCoversFlight'
  <2>1. queue # <<>> => rto /\ ~idle
    BY <1>1, <1>10, <1>11 DEF RtoCoversFlight
  <2> QED BY <1>6, <2>1 DEF RtoCoversFlight
<1>19. NothingLeftBehind'
  <2>1. snd_retrans' # <<>> => snd_una' < EndSeq(snd_retrans'[1])
    BY <1>6, <1>9
  <2>2. tlp' => queue # <<>>
    BY <1>6, <1>10, TlpArmsQueue, Zenon
  <2>3. rto' => queue # <<>>
    BY <1>6, <1>10
  <2> QED BY <1>6, <2>1, <2>2, <2>3 DEF NothingLeftBehind
<1>20. RefsMatch'
  BY <1>6, <1>14 DEF RefsMatch
<1>21. EdgeInv'
  <2>1. Edge' = Edge
    BY DEF Edge
  <2>2. seg.ack + seg.wnd <= Edge
    BY <1>1, <1>3 DEF EdgeInv
  <2> QED BY <1>1, <1>3, <1>6, <1>13, <2>1, <2>2 DEF EdgeInv
<1> QED BY <1>15, <1>16, <1>17, <1>18, <1>19, <1>20, <1>21 DEF IInv

\* After close, and in CLOSE_WAIT, an ACK moves snd_una and prunes nothing.
LEMMA HandleClosePathIInv ==
    ASSUME IInv, NEW seg \in acks, HandleClosePath(seg),
           acks' \subseteq acks, UNCHANGED peer
    PROVE  IInv'
<1> DEFINE queue == MarkSacked(snd_retrans, seg.sack, snd_una)
           to    == ClosePathState(FinHasBeenAcked(seg.ack), seg.fin)
<1>1. TypeOK /\ RtoCoversFlight
  BY DEF IInv
<1>2. /\ snd_retrans \in Seq(Entry) /\ seg.sack \in SUBSET Nat /\ snd_una \in Nat
      /\ snd_nxt \in Nat /\ seg.ack \in Nat /\ snd_una <= snd_nxt /\ rcv_nxt \in Nat
      /\ refs \in Nat
  BY <1>1 DEF TypeOK, Ack
<1>3. queue \in Seq(Entry) /\ SameSpans(snd_retrans, queue)
  BY <1>2, MarkSackedSpans
<1>4. /\ state \in {"CloseWait", "FinWait1", "FinWait2", "Closing", "LastAck"}
      /\ snd_una' = IF snd_una < seg.ack /\ seg.ack <= snd_nxt THEN seg.ack ELSE snd_una
      /\ rcv_nxt' = IF seg.fin THEN rcv_nxt + 1 ELSE rcv_nxt
      /\ UNCHANGED <<snd_nxt, snd_wnd, our_fin_seq, srtt, probes, sample_seen,
                     rack_seen, refused, wire>>
      /\ IF to = "Closed"
         THEN Remove("ok", 0)
         ELSE /\ state' = to
              /\ snd_retrans' = queue
              /\ tlp' = (tlp \/ TlpArms(queue, tlp, probes, sample_seen, srtt))
              /\ UNCHANGED <<rto, refs, err>>
  BY DEF HandleClosePath
<1>5. /\ snd_una' \in Nat /\ snd_una <= snd_una' /\ snd_una' <= snd_nxt
      /\ rcv_nxt' \in Nat
  BY <1>2, <1>4
<1>6. /\ srtt' \in BOOLEAN /\ sample_seen' \in BOOLEAN /\ rack_seen' \in BOOLEAN
      /\ refused' \in BOOLEAN /\ probes' \in Nat /\ wire' \subseteq Frame
  BY <1>1, <1>4 DEF TypeOK
<1>7. to \in States \ {"Established"} /\ (to = "CloseWait" => state = "CloseWait")
  BY <1>4 DEF ClosePathState, States
<1> HIDE DEF queue, to
<1>8. CASE to = "Closed"
  <2>1. Remove("ok", 0)
    BY <1>4, <1>8
  <2>2. refs - 0 \in Nat
    BY <1>2
  <2> QED BY <1>4, <1>5, <1>6, <2>1, <2>2, RemoveIInv
<1>9. CASE to # "Closed"
  <2>1. /\ state' = to /\ snd_retrans' = queue
        /\ tlp' = (tlp \/ TlpArms(queue, tlp, probes, sample_seen, srtt))
        /\ UNCHANGED <<rto, refs, err>>
    BY <1>4, <1>9
  <2>2. tlp' \in BOOLEAN /\ (tlp' => tlp \/ queue # <<>>)
    BY <2>1, TlpArmsQueue, Zenon
  <2>3. (snd_retrans = <<>>) <=> (queue = <<>>)
    BY <1>2, <1>3 DEF SameSpans
  <2>4. /\ snd_retrans' # <<>> => rto'
        /\ rto' \/ tlp' => rto \/ tlp \/ snd_retrans' # <<>>
    BY <1>1, <1>4, <2>1, <2>2, <2>3 DEF RtoCoversFlight
  <2>5. /\ state' \in States /\ state' # "Established" /\ state # "Closed"
        /\ (state' = "CloseWait" => state = "CloseWait") /\ rto' \in BOOLEAN
        /\ snd_retrans' \in Seq(Entry) /\ SameSpans(snd_retrans, snd_retrans')
    BY <1>1, <1>3, <1>4, <1>7, <2>1 DEF TypeOK
  <2> QED BY <1>4, <1>5, <1>6, <2>1, <2>2, <2>4, <2>5, KeepsQueueIInv
<1> QED BY <1>8, <1>9

\* send_bytes stays within the window and the send buffer, and what it accepts
\* is cut into exactly the segments that could be allocated.
LEMMA SendBytesIInv ==
    ASSUME IInv, NEW request \in 1 .. MaxRequest, NEW n \in 0 .. request,
           NEW got \in 0 .. n, SendBytes(request, n, got)
    PROVE  IInv'
<1> DEFINE room     == Lesser(request, Lesser(SatSub(snd_wnd, InFlight),
                                              SatSub(SendBuf, InFlight)))
           accepted == Lesser(room, got * MSS)
           added    == Segments(snd_nxt, accepted, got)
           queue    == snd_retrans \o added
<1>1. /\ TypeOK /\ QueueInv /\ FinInv /\ RtoCoversFlight /\ NothingLeftBehind
      /\ RefsMatch /\ EdgeInv
  BY DEF IInv
<1>2. /\ snd_retrans \in Seq(Entry) /\ snd_una \in Nat /\ snd_nxt \in Nat
      /\ snd_wnd \in Nat /\ snd_una <= snd_nxt /\ refs \in Nat
      /\ rto \in BOOLEAN /\ tlp \in BOOLEAN
  BY <1>1 DEF TypeOK
<1>3. /\ MSS \in Nat /\ SendBuf \in Nat /\ MaxRequest \in Nat
      /\ request \in Nat /\ n \in Nat /\ got \in Nat /\ got <= n
  BY SendPathParams
<1>4. /\ state = "Established"
      /\ CutsInto(room, n)
      /\ n > 0 => got > 0
      /\ snd_retrans' = queue
      /\ snd_nxt' = snd_nxt + accepted
      /\ refs' = refs + got
      /\ rto' = (rto \/ (snd_retrans = <<>> /\ got > 0))
      /\ refused' = (refused \/ accepted < request)
      /\ tlp' = (tlp \/ (got > 0 /\ TlpArms(queue, tlp, probes, sample_seen, srtt)))
      /\ wire' = wire \cup Frames(added)
      /\ UNCHANGED <<state, snd_una, snd_wnd, rcv_nxt, our_fin_seq, srtt,
                     probes, sample_seen, rack_seen, err, peer, acks>>
  BY DEF SendBytes
<1>5. our_fin_seq = NoFin /\ DataEnd = snd_nxt /\ DataEnd' = snd_nxt'
  BY <1>1, <1>4 DEF FinInv, DataEnd
<1>6. /\ InFlight \in Nat /\ room \in Nat
      /\ room <= SatSub(snd_wnd, InFlight)
      /\ SatSub(snd_wnd, InFlight) <= snd_wnd
      /\ room > 0 => snd_nxt + room <= snd_una + snd_wnd
  BY <1>2, <1>3 DEF InFlight, Lesser, SatSub
<1>7. accepted \in Nat /\ accepted <= room /\ CutsInto(accepted, got)
  <2> HIDE DEF room
  <2>1. got * MSS \in Nat
    BY <1>3, MssMultiples
  <2>2. accepted \in Nat /\ accepted <= room /\ accepted <= got * MSS
        /\ (accepted = room \/ accepted = got * MSS)
    BY <1>6, <2>1 DEF Lesser
  <2>3. CASE got = 0
    <3>1. n = 0
      BY <1>3, <1>4, <2>3
    <3>2. room = 0
      BY <1>4, <3>1 DEF CutsInto
    <3>3. accepted = 0
      BY <2>2, <3>2
    <3> HIDE DEF accepted
    <3> QED BY <2>2, <2>3, <3>3 DEF CutsInto
  <2>4. CASE got > 0
    <3>1. /\ (got - 1) * MSS \in Nat /\ (got - 1) * MSS <= (n - 1) * MSS
          /\ got * MSS = (got - 1) * MSS + MSS
      <4>1. got - 1 \in Nat /\ n - 1 \in Nat /\ got - 1 <= n - 1
            /\ (got - 1) + 1 = got
        BY <1>3, <2>4
      <4> HIDE DEF accepted
      <4> QED BY <4>1, MssMultiples
    <3>2. (n - 1) * MSS < room /\ (n - 1) * MSS \in Nat
      <4>1. n - 1 \in Nat /\ n # 0
        BY <1>3, <2>4
      <4>2. (n - 1) * MSS \in Nat
        BY <4>1, MssMultiples
      <4> QED BY <1>4, <4>1, <4>2 DEF CutsInto
    <3>3. MSS > 0
      BY SendPathParams
    <3>4. (got - 1) * MSS < accepted
      <4> HIDE DEF accepted
      <4> QED BY <1>3, <1>6, <2>1, <2>2, <3>1, <3>2, <3>3
    <3> QED BY <2>2, <2>4, <3>4 DEF CutsInto
  <2> QED BY <1>3, <2>2, <2>3, <2>4
<1> HIDE DEF room, accepted
<1>8. /\ added \in Seq(Entry) /\ Len(added) = got
      /\ Tiled(added, snd_nxt + accepted)
      /\ got > 0 => added[1].seq = snd_nxt
      /\ got = 0 => accepted = 0
  <2>1. snd_nxt \in Nat /\ accepted \in Nat /\ got \in Nat /\ CutsInto(accepted, got)
    BY <1>2, <1>3, <1>7
  <2> QED BY <2>1, SegmentsTile, ZenonT(40)
<1> HIDE DEF added
<1>9. Tiled(snd_retrans, snd_nxt) /\ Covers(snd_retrans, snd_una, snd_nxt)
  BY <1>1, <1>4, <1>5 DEF QueueInv
<1>10. /\ queue \in Seq(Entry) /\ Len(queue) = Len(snd_retrans) + got
       /\ Tiled(queue, snd_nxt') /\ Covers(queue, snd_una, snd_nxt')
       /\ got = 0 => queue = snd_retrans
       /\ got > 0 => queue # <<>>
       /\ got > 0 => queue[1] = IF snd_retrans = <<>> THEN added[1] ELSE snd_retrans[1]
  <2>1. CASE got = 0
    <3>1. added = <<>> /\ snd_nxt' = snd_nxt
      BY <1>2, <1>4, <1>8, <2>1
    <3>2. queue = snd_retrans
      BY <1>2, <3>1
    <3> HIDE DEF queue
    <3> QED BY <1>2, <1>9, <2>1, <3>1, <3>2
  <2>2. CASE got > 0
    <3>1. added # <<>> /\ snd_nxt <= snd_nxt' /\ snd_nxt' \in Nat
          /\ Tiled(added, snd_nxt') /\ added[1].seq = snd_nxt
      BY <1>2, <1>4, <1>7, <1>8, <2>2
    <3> QED BY <1>2, <1>3, <1>8, <1>9, <2>2, <3>1, ConcatTiled
  <2> QED BY <1>3, <2>1, <2>2
<1> HIDE DEF queue
<1>11. TypeOK'
  <2>1. Frames(added) \subseteq Frame
    <3>1. DOMAIN added \in SUBSET DOMAIN added /\ added = [i \in DOMAIN added |-> added[i]]
      BY <1>8
    <3> QED BY <1>8, <3>1, FramesOfSeq
  <2>2. rto' \in BOOLEAN /\ tlp' \in BOOLEAN /\ refused' \in BOOLEAN
    BY <1>4, Zenon
  <2>3. /\ snd_nxt' \in Nat /\ snd_una' <= snd_nxt' /\ refs' \in Nat
        /\ snd_una' \in Nat
    BY <1>2, <1>3, <1>4, <1>7
  <2>4. snd_retrans' \in Seq(Entry) /\ wire' \subseteq Frame
    BY <1>1, <1>4, <1>10, <2>1 DEF TypeOK
  <2> QED BY <1>1, <1>4, <2>2, <2>3, <2>4 DEF TypeOK
<1>12. QueueInv'
  BY <1>4, <1>5, <1>10 DEF QueueInv
<1>13. FinInv'
  BY <1>1, <1>4, <1>5 DEF FinInv
<1>14. RtoCoversFlight'
  <2>1. queue # <<>> => rto \/ (snd_retrans = <<>> /\ got > 0)
    BY <1>1, <1>3, <1>4, <1>10 DEF RtoCoversFlight
  <2> QED BY <1>4, <2>1 DEF RtoCoversFlight
<1>15. NothingLeftBehind'
  <2>1. /\ snd_retrans # <<>> => snd_una < EndSeq(snd_retrans[1])
        /\ rto \/ tlp => snd_retrans # <<>>
    BY <1>1, <1>4 DEF NothingLeftBehind
  <2>2. snd_retrans # <<>> => queue # <<>>
    BY <1>3, <1>10
  <2>3. rto' => queue # <<>>
    BY <1>4, <1>10, <2>1, <2>2
  <2>4. tlp' => queue # <<>>
    BY <1>4, <1>10, <2>1, <2>2
  <2>5. queue # <<>> => snd_una < EndSeq(queue[1])
    <3>1. CASE got = 0
      BY <1>10, <2>1, <3>1
    <3>2. CASE got > 0 /\ snd_retrans # <<>>
      BY <1>10, <2>1, <3>2
    <3>3. CASE got > 0 /\ snd_retrans = <<>>
      <4>1. added[1] \in Entry
        BY <1>8, <3>3
      <4>2. added[1].seq < EndSeq(added[1]) /\ EndSeq(added[1]) \in Nat
        BY <4>1, EntrySpan
      <4> QED BY <1>2, <1>8, <1>10, <3>3, <4>2
    <3> QED BY <1>3, <3>1, <3>2, <3>3
  <2> QED BY <1>4, <2>3, <2>4, <2>5 DEF NothingLeftBehind
<1>16. RefsMatch'
  BY <1>1, <1>4, <1>10 DEF RefsMatch
<1>17. EdgeInv'
  <2>1. Edge' = Edge /\ Edge \in Nat
    BY <1>1, <1>4, SendPathParams, SMTT(30) DEF Edge, TypeOK
  <2>2. snd_nxt <= Edge /\ snd_una + snd_wnd <= Edge
    BY <1>1, <1>4, <1>5 DEF EdgeInv
  <2>3. snd_nxt' <= Edge
    <3>1. CASE room = 0
      BY <1>2, <1>4, <1>6, <1>7, <2>2, <3>1
    <3>2. CASE room > 0
      BY <1>2, <1>4, <1>6, <1>7, <2>1, <2>2, <3>2
    <3> QED BY <1>6, <3>1, <3>2
  <2>4. \A f \in Frames(added) : ~f.fin
    BY DEF Frames
  <2> QED BY <1>1, <1>4, <1>5, <2>1, <2>2, <2>3, <2>4 DEF EdgeInv
<1> QED BY <1>11, <1>12, <1>13, <1>14, <1>15, <1>16, <1>17 DEF IInv

LEMMA TcpInputIInv ==
    ASSUME IInv, NEW seg \in acks, NEW again \in BOOLEAN, TcpInput(seg, again)
    PROVE  IInv'
<1>1. acks' \subseteq acks /\ UNCHANGED peer
  BY DEF TcpInput
<1>2. CASE HandleEstablished(seg) /\ UNCHANGED snd_nxt
  <2>1. /\ state = "Established" /\ state' \in {"Established", "CloseWait"}
        /\ UNCHANGED <<snd_nxt, our_fin_seq, err, peer>>
    BY <1>1, <1>2 DEF HandleEstablished
  <2>2. rcv_nxt' \in Nat
    <3>1. rcv_nxt \in Nat
      BY DEF IInv, TypeOK
    <3> QED BY <1>2, <3>1 DEF HandleEstablished
  <2>3. PICK lost \in SUBSET DOMAIN snd_retrans, sent \in SUBSET DOMAIN snd_retrans :
           /\ sent \in SUBSET lost
           /\ \/ \E sampled \in BOOLEAN, k \in 0 .. Len(snd_retrans) :
                    NewAck(seg, lost, sent, sampled, k)
              \/ OldAck(seg, lost, sent)
    BY <1>2 DEF HandleEstablished
  <2> QED BY <1>1, <2>1, <2>2, <2>3, NewAckIInv, OldAckIInv
<1>3. CASE HandleClosePath(seg)
  BY <1>1, <1>3, HandleClosePathIInv
<1>4. CASE AnswerOnly(seg)
  BY <1>1, <1>4, AnswerOnlyIInv
<1> QED BY <1>2, <1>3, <1>4 DEF TcpInput

LEMMA StutterIInv ==
    ASSUME IInv, UNCHANGED vars
    PROVE  IInv'
BY DEF vars, conn, net, IInv, TypeOK, QueueInv, FinInv, RtoCoversFlight, NothingLeftBehind,
       RefsMatch, EdgeInv, Edge, DataEnd, Tiled, Covers

LEMMA NextIInv == IInv /\ [Next]_vars => IInv'
<1> SUFFICES ASSUME IInv, [Next]_vars PROVE IInv'
  OBVIOUS
<1>1. CASE UNCHANGED vars
  BY <1>1, StutterIInv
<1>2. CASE \E request \in 1 .. MaxRequest : \E n \in 0 .. request :
             \E got \in 0 .. n : SendBytes(request, n, got)
  BY <1>2, SendBytesIInv
<1>3. CASE CloseConn
  BY <1>3, CloseConnIInv
<1>4. CASE \E seg \in acks, again \in BOOLEAN : TcpInput(seg, again)
  BY <1>4, TcpInputIInv
<1>5. CASE RecvRst \/ ReapTimeWait
  BY <1>5, RemovalIInv
<1>6. CASE \E lost \in SUBSET DOMAIN snd_retrans :
             \E sent \in SUBSET DOMAIN snd_retrans : OnRtoFire(lost, sent)
  BY <1>6, OnRtoFireIInv
<1>7. CASE \E sent \in SUBSET DOMAIN snd_retrans : OnTlpFire(sent)
  BY <1>7, OnTlpFireIInv
<1>8. CASE \/ \E f \in wire : \E next \in peer.nxt .. MaxSent + 1 : PeerReceives(f, next)
           \/ PeerReads
           \/ PeerSendsFin
           \/ \E seg \in acks : LoseAck(seg)
  BY <1>8, PeerIInv
<1> QED BY <1>1, <1>2, <1>3, <1>4, <1>5, <1>6, <1>7, <1>8 DEF Next

\* The invariant holds in every reachable state of the send path.
THEOREM Invariant == Spec => []IInv
<1>1. Init => IInv
  BY InitIInv
<1>2. IInv /\ [Next]_vars => IInv'
  BY NextIInv
<1> QED BY <1>1, <1>2, PTL DEF Spec

-----------------------------------------------------------------------------
\* The variables of the send path keep their types and snd_una never passes
\* snd_nxt, for every window, buffer and segment size.
THEOREM TypeCorrect == Spec => []TypeOK
<1>1. IInv => TypeOK
  BY DEF IInv
<1> QED BY <1>1, Invariant, PTL

\* send_bytes, prune_below and close_conn together never lose an unacknowledged
\* byte from the retransmission queue.
THEOREM FlightIsTiled == Spec => []FlightTiled
<1>1. IInv => FlightTiled
  BY DEF IInv, QueueInv, Tiled, Covers, FlightTiled
<1> QED BY <1>1, Invariant, PTL

\* Data that is queued always has an RTO pending.
THEOREM RtoIsArmed == Spec => []RtoCoversFlight
<1>1. IInv => RtoCoversFlight
  BY DEF IInv
<1> QED BY <1>1, Invariant, PTL

\* In ESTABLISHED no acknowledged entry and no timer outlives its data.
THEOREM NothingIsLeftBehind == Spec => []NothingLeftBehind
<1>1. IInv => NothingLeftBehind
  BY DEF IInv
<1> QED BY <1>1, Invariant, PTL

\* One mbuf reference per queued entry, until the connection is removed.
THEOREM RefsAreMatched == Spec => []RefsMatch
<1>1. IInv => RefsMatch
  BY DEF IInv
<1> QED BY <1>1, Invariant, PTL

\* send_bytes never transmits beyond the peer's right edge, whatever order the
\* ACKs arrive in.
THEOREM WindowIsRespected == Spec => []WindowRespected
<1>1. IInv => WindowRespected
  BY DEF IInv, EdgeInv, Edge, WindowRespected
<1> QED BY <1>1, Invariant, PTL

\* on_rto_fire gives up a connection in ESTABLISHED only over data that the peer
\* has not acknowledged.
THEOREM TimeoutIsJustified == Spec => TimeoutIsForUnackedData
<1> DEFINE A == state = "Established" /\ err' = "etimedout" => snd_una < snd_nxt
<1>1. IInv /\ [Next]_vars => [A]_vars
  <2> SUFFICES ASSUME IInv, Next, state = "Established", err' = "etimedout"
               PROVE  snd_una < snd_nxt
    OBVIOUS
  <2>1. TypeOK /\ QueueInv /\ FinInv /\ NothingLeftBehind
    BY DEF IInv
  <2>2. err = "none" /\ our_fin_seq = NoFin
    BY <2>1 DEF FinInv
  <2>3. snd_retrans \in Seq(Entry) /\ snd_una \in Nat /\ snd_nxt \in Nat
    BY <2>1 DEF TypeOK
  <2>4. snd_retrans # <<>>
    <3>1. ASSUME NEW lost, NEW sent, OnRtoFire(lost, sent) PROVE snd_retrans # <<>>
      BY <2>2, <3>1 DEF OnRtoFire
    <3>2. PICK lost, sent : OnRtoFire(lost, sent)
      <4>1. ASSUME NEW seg, NEW again, TcpInput(seg, again) PROVE err' # "etimedout"
        <5>1. CASE HandleEstablished(seg)
          BY <2>2, <5>1 DEF HandleEstablished
        <5>2. CASE HandleClosePath(seg)
          BY <2>2, <5>2 DEF HandleClosePath
        <5>3. CASE AnswerOnly(seg)
          BY <2>2, <5>3 DEF AnswerOnly
        <5> QED BY <4>1, <5>1, <5>2, <5>3 DEF TcpInput
      <4>2. ASSUME NEW request, NEW n, NEW got, SendBytes(request, n, got)
            PROVE  err' # "etimedout"
        BY <2>2, <4>2 DEF SendBytes
      <4>3. ASSUME CloseConn \/ RecvRst \/ ReapTimeWait PROVE err' # "etimedout"
        BY <2>2, <4>3 DEF CloseConn, RecvRst, ReapTimeWait, Remove
      <4>4. ASSUME NEW sent, OnTlpFire(sent) PROVE err' # "etimedout"
        BY <2>2, <4>4 DEF OnTlpFire
      <4>5. ASSUME UNCHANGED <<conn, wire>> \/ UNCHANGED conn PROVE err' # "etimedout"
        BY <2>2, <4>5 DEF conn
      <4>6. ASSUME NEW f, NEW next, PeerReceives(f, next) PROVE err' # "etimedout"
        BY <4>5, <4>6 DEF PeerReceives
      <4>7. ASSUME PeerReads \/ PeerSendsFin PROVE err' # "etimedout"
        BY <4>5, <4>7 DEF PeerReads, PeerSendsFin
      <4>8. ASSUME NEW seg, LoseAck(seg) PROVE err' # "etimedout"
        BY <4>5, <4>8 DEF LoseAck
      <4> QED BY <4>1, <4>2, <4>3, <4>4, <4>6, <4>7, <4>8 DEF Next
    <3> QED BY <3>1, <3>2
  <2>5. snd_retrans[1] \in Entry /\ 1 \in 1 .. Len(snd_retrans)
    BY <2>3, <2>4
  <2>6. snd_una < EndSeq(snd_retrans[1]) /\ EndSeq(snd_retrans[1]) <= snd_nxt
    BY <2>1, <2>2, <2>4, <2>5 DEF NothingLeftBehind, QueueInv, Tiled, DataEnd
  <2>7. EndSeq(snd_retrans[1]) \in Nat
    BY <2>5, EntrySpan
  <2> QED BY <2>3, <2>6, <2>7
<1> QED BY <1>1, Invariant, PTL DEF Spec, TimeoutIsForUnackedData
=============================================================================
