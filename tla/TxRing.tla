------------------------------- MODULE TxRing -------------------------------
(***************************************************************************)
(* The transmit batch ring (Engine.tx_pending_data) and the mbufs that go  *)
(* through it: send_bytes puts the mbuf of a new segment into the ring and *)
(* into the retransmission queue, retransmit chains a fresh header mbuf to *)
(* the queue's data mbuf, drain_tx_pending_data hands the ring to the      *)
(* driver in one burst and frees what the driver does not take, and ACK,   *)
(* SYN, FIN and RST frames bypass the ring.                                *)
(*                                                                         *)
(* An mbuf is an id with a reference count; of a data mbuf, `prefix` says  *)
(* how much of the frame's headers is still in front of the payload.  A    *)
(* TAP port transmits inside the burst and strips the headers it has       *)
(* checksummed; a NIC keeps the frames it took until they are on the wire. *)
(* The queue is that of one connection; what removes a connection with its *)
(* queue is in SendPath.                                                   *)
(***************************************************************************)
EXTENDS Integers, Sequences, FiniteSets, SequencesExt

CONSTANTS
    DataMbufs,      \* tx_data_mempool
    HdrMbufs,       \* tx_hdr_mempool
    RingSize        \* capacity of tx_pending_data (tx_ring_size)

NoMbuf == "none"

ASSUME TxRingParams ==
    /\ RingSize \in Nat \ {0}
    /\ DataMbufs \cap HdrMbufs = {} /\ NoMbuf \notin DataMbufs \cup HdrMbufs

VARIABLES
    refcnt,         \* the mbufs' reference counts, 0: in its pool
    prefix,         \* per data mbuf: "whole", "part" or "none" of its headers
    ring,           \* tx_pending_data, a sequence of frames
    snd_retrans,    \* the data mbufs of the retransmission queue, oldest first
    tap,            \* the port is a TAP vdev
    nic             \* the frames the NIC has taken and not yet sent

vars == <<refcnt, prefix, ring, snd_retrans, tap, nic>>

\* A frame: one data mbuf with everything, a header mbuf chained to a data
\* mbuf, or a header mbuf alone.
Frame(hdr, data) == [hdr |-> hdr, data |-> data]
MbufsOf(f) == {f.hdr, f.data} \ {NoMbuf}

Free(pool) == {m \in pool : refcnt[m] = 0}

\* How often the frames of a sequence hold the mbuf m.
Holds(m, frames) == Cardinality({i \in DOMAIN frames : m \in MbufsOf(frames[i])})

\* rte_pktmbuf_free of each frame: every segment of a chain loses a reference.
Released(ref, frames) == [m \in DOMAIN ref |-> ref[m] - Holds(m, frames)]

-----------------------------------------------------------------------------
\* What a burst leaves behind when the driver takes the first n frames of fs.
\* Operators work on the state record st = [refcnt, prefix, ring, nic].

St == [refcnt |-> refcnt, prefix |-> prefix, ring |-> ring, nic |-> nic]

Becomes(st) ==
    /\ refcnt' = st.refcnt /\ prefix' = st.prefix
    /\ ring' = st.ring /\ nic' = st.nic

\* rte_eth_tx_burst, of which the driver takes the frames `taken`.
Burst(st, taken) ==
    IF tap
    THEN [st EXCEPT !.refcnt = Released(@, taken),
                    !.prefix = [m \in DataMbufs |->
                        IF @[m] = "whole" /\ Frame(NoMbuf, m) \in ToSet(taken)
                        THEN "part" ELSE @[m]]]
    ELSE [st EXCEPT !.nic = @ \cup ToSet(taken)]

\* Mutant: the tail of a partial burst stays allocated.
DrainTxPendingDataLeaky(st, n) == [Burst(st, SubSeq(st.ring, 1, n)) EXCEPT !.ring = <<>>]

\* drain_tx_pending_data with a burst of n frames: the tail is freed, the ring
\* is empty.
DrainTxPendingData(st, n) ==
    [Burst(st, SubSeq(st.ring, 1, n)) EXCEPT
        !.refcnt = Released(@, SubSeq(st.ring, n + 1, Len(st.ring))),
        !.ring = <<>>]

\* How many frames of the ring the driver may take.
Takes(st) == 0 .. Len(st.ring)

\* Push a frame; a full ring is drained first, `n` frames of it into the
\* driver.
PushFrame(st, f, n) ==
    LET room == IF Len(st.ring) < RingSize THEN st ELSE DrainTxPendingData(st, n)
    IN  [room EXCEPT !.ring = Append(@, f)]

-----------------------------------------------------------------------------
\* send_bytes, one segment: a data mbuf with two references, one for the ring
\* and one for the queue.  Without a free mbuf nothing is sent.
SendSegment(n) ==
    \E m \in Free(DataMbufs) :
        /\ n = 0 \/ Len(ring) = RingSize
        /\ n \in Takes(St)
        /\ Becomes(PushFrame([St EXCEPT !.refcnt[m] = 2, !.prefix[m] = "whole"],
                             Frame(NoMbuf, m), n))
        /\ snd_retrans' = Append(snd_retrans, m)
        /\ UNCHANGED tap

\* Mutant: phase 0 of retransmit is missing.
RetransmitPhase0Skipped(n) == St

\* Phase 0 of retransmit.
RetransmitPhase0(n) == DrainTxPendingData(St, n)

\* retransmit of entry i: drain, header mbuf, strip the data mbuf down to its
\* payload, take a reference, chain, push.  It gives up after the drain when
\* there is no header mbuf, and after the strip when the chain is refused.
Retransmit(i, n, chained) ==
    LET m       == snd_retrans[i]
        drained == RetransmitPhase0(n)
        hdrs    == {h \in HdrMbufs : drained.refcnt[h] = 0}
        strip   == [drained EXCEPT !.prefix[m] = "none"]
    IN  /\ n \in Takes(St)
        /\ IF hdrs = {} THEN Becomes(drained)
           ELSE IF ~chained THEN Becomes(strip)
           ELSE \E h \in hdrs :
                   Becomes(PushFrame([strip EXCEPT !.refcnt[h] = 1, !.refcnt[m] = @ + 1],
                                     Frame(h, m), 0))
        /\ UNCHANGED <<snd_retrans, tap>>

\* poll_once, dpdk_net_flush and the test pump.
Flush(n) ==
    /\ ring # <<>>
    /\ n \in Takes(St)
    /\ Becomes(DrainTxPendingData(St, n))
    /\ UNCHANGED <<snd_retrans, tap>>

\* tx_frame and tx_tcp_frame: a control frame is sent at once, ahead of the
\* ring; one the driver does not take is freed, as if it had never been.
SendControl(h) ==
    /\ refcnt[h] = 0
    /\ Becomes(Burst([St EXCEPT !.refcnt[h] = 1], <<Frame(h, NoMbuf)>>))
    /\ UNCHANGED <<snd_retrans, tap>>

\* An ACK takes the k oldest entries off the queue: their references are
\* dropped, whether or not the ring or the driver still has the mbuf.
Prune(k) ==
    /\ k \in 1 .. Len(snd_retrans)
    /\ refcnt' = Released(refcnt, [i \in 1 .. k |-> Frame(NoMbuf, snd_retrans[i])])
    /\ snd_retrans' = SubSeq(snd_retrans, k + 1, Len(snd_retrans))
    /\ UNCHANGED <<prefix, ring, tap, nic>>

\* The NIC has sent a frame and gives it back.
TxComplete ==
    \E f \in nic :
        /\ refcnt' = Released(refcnt, <<f>>)
        /\ nic' = nic \ {f}
        /\ UNCHANGED <<prefix, ring, snd_retrans, tap>>

-----------------------------------------------------------------------------
Init ==
    /\ refcnt = [m \in DataMbufs \cup HdrMbufs |-> 0]
    /\ prefix = [m \in DataMbufs |-> "none"]
    /\ ring = <<>> /\ snd_retrans = <<>>
    /\ tap \in BOOLEAN
    /\ nic = {}

Next ==
    \/ \E n \in 0 .. RingSize : SendSegment(n) \/ Flush(n)
    \/ \E i \in DOMAIN snd_retrans, n \in 0 .. RingSize, chained \in BOOLEAN :
          Retransmit(i, n, chained)
    \/ \E h \in HdrMbufs : SendControl(h)
    \/ \E k \in 1 .. Cardinality(DataMbufs) : Prune(k)
    \/ TxComplete

Spec == Init /\ [][Next]_vars

-----------------------------------------------------------------------------
InNic(m) == Cardinality({f \in nic : m \in MbufsOf(f)})

\* Every reference has a holder and every holder its reference: an mbuf is
\* counted once for each frame of it in the ring and in the driver and once
\* for the retransmission queue.  Nothing is freed while it can still be sent
\* or retransmitted, and nothing is left allocated that nobody holds.
RefsExact ==
    \A m \in DOMAIN refcnt :
        refcnt[m] = Holds(m, ring) + InNic(m)
                        + Cardinality({i \in DOMAIN snd_retrans : snd_retrans[i] = m})

\* A burst is made of frames that can be sent: no mbuf is in it twice, the
\* first transmission of a segment still has all of its headers, and a
\* retransmission has nothing but payload behind its fresh header.  A segment
\* that is declared lost while its first transmission waits in the ring is the
\* case that phase 0 of retransmit is there for.
BurstSound ==
    /\ \A i, j \in DOMAIN ring : i # j => MbufsOf(ring[i]) \cap MbufsOf(ring[j]) = {}
    /\ \A i \in DOMAIN ring :
          LET f == ring[i]
          IN  f.data # NoMbuf =>
                 prefix[f.data] = IF f.hdr = NoMbuf THEN "whole" ELSE "none"
    /\ Len(ring) <= RingSize

=============================================================================
