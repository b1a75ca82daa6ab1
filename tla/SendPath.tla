------------------------------ MODULE SendPath ------------------------------
(***************************************************************************)
(* The sending half of one connection, from ESTABLISHED to its removal     *)
(* from the flow table: Engine::send_bytes, the ACK processing of          *)
(* tcp_input.rs, the retransmission queue of tcp_retrans.rs, the RTO and   *)
(* tail-loss-probe timers, WRITABLE back-pressure, close_conn and the ways *)
(* a connection ends.                                                      *)
(*                                                                         *)
(* Sequence numbers are offsets from ISS+1: at most a send buffer is in    *)
(* flight, so the wrapping comparisons of tcp_seq.rs agree with <.  A      *)
(* timer is a Boolean, armed or not: when it fires is free, so every order *)
(* of timer and segment is covered.  The peer is an external, conforming   *)
(* receiver that sends no data of its own, only ACKs and one FIN; its ACKs *)
(* may be lost, repeated and reordered.                                    *)
(***************************************************************************)
EXTENDS Integers, Sequences, FiniteSets

CONSTANTS
    MSS,            \* min(peer_mss, tcp_mss)
    SendBuf,        \* send_buffer_bytes
    PeerBuf,        \* the peer's receive buffer
    MaxRetrans,     \* tcp_max_retrans_count
    MaxProbes,      \* tlp_max_consecutive_probes
    SkipSampleGate, \* tlp_skip_rtt_sample_gate
    TsEnabled,      \* timestamps were negotiated
    SackEnabled,    \* SACK was negotiated
    DataNoMem,      \* tx_data_mempool may run out
    HdrNoMem,       \* tx_hdr_mempool may run out
    XmitCap,        \* u16::MAX, where xmit_count saturates
    MaxSent,        \* bound: bytes ever accepted from the user
    MaxRequest,     \* bound: bytes of one send call
    MaxAcks         \* bound: ACKs in the network at a time

ASSUME SendPathParams ==
    /\ {MSS, SendBuf, PeerBuf} \subseteq Nat \ {0}
    /\ {MaxRetrans, MaxProbes, MaxSent, MaxRequest, XmitCap, MaxAcks} \subseteq Nat
    /\ MaxRetrans < XmitCap
    /\ {SkipSampleGate, TsEnabled, SackEnabled, DataNoMem, HdrNoMem} \subseteq BOOLEAN

States == {"Established", "CloseWait", "FinWait1", "FinWait2", "Closing",
           "LastAck", "TimeWait", "Closed"}

NoFin == -1

VARIABLES
    state,          \* TcpConn.state; "Closed" once the flow table dropped it
    snd_una, snd_nxt, snd_wnd,
    rcv_nxt,        \* 0, or 1 once the peer's FIN was accepted
    our_fin_seq,
    snd_retrans,    \* SendRetrans.entries
    rto, tlp,       \* rto_timer_id / tlp_timer_id is Some
    srtt,           \* the RTT estimator holds a sample
    probes,         \* tlp_consecutive_probes_fired
    sample_seen,    \* tlp_rtt_sample_seen_since_last_tlp
    rack_seen,      \* RACK has recorded a delivered segment
    refused,        \* send_refused_pending
    refs,           \* data mbufs whose retransmission reference is not freed
    err             \* how the connection ended: "none", "ok", "etimedout"

VARIABLES
    peer,           \* the receiver: next byte expected, bytes read by its
                    \* application, bytes held out of order, FIN sent
    wire,           \* every data segment and FIN ever transmitted
    acks            \* segments on their way to us

conn == <<state, snd_una, snd_nxt, snd_wnd, rcv_nxt, our_fin_seq, snd_retrans,
          rto, tlp, srtt, probes, sample_seen, rack_seen, refused, refs, err>>
net  == <<peer, wire, acks>>
vars == <<conn, net>>

Lesser(a, b) == IF a <= b THEN a ELSE b

\* u32::saturating_sub
SatSub(a, b) == IF a >= b THEN a - b ELSE 0

EndSeq(e) == e.seq + e.len

\* Mutant: one unit of the flight is forgotten.
InFlightOffByOne == SatSub(snd_nxt, snd_una + 1)

\* The bytes in flight, FIN included, as send_bytes counts them.
InFlight == snd_nxt - snd_una

DataEnd == IF our_fin_seq = NoFin THEN snd_nxt ELSE our_fin_seq

-----------------------------------------------------------------------------
\* tcp_retrans.rs

\* Mutant: one entry for the whole call.
SegmentsCoalesced(base, total, n) ==
    [i \in 1 .. Lesser(n, 1) |->
        [seq |-> base, len |-> total,
         xmit_count |-> 1, sacked |-> FALSE, lost |-> FALSE]]

\* The entries that the send loop pushes for `total` bytes from `base` when it
\* cuts them into n segments.
Segments(base, total, n) ==
    [i \in 1 .. n |->
        [seq |-> base + (i - 1) * MSS,
         len |-> IF i < n THEN MSS ELSE total - (i - 1) * MSS,
         xmit_count |-> 1, sacked |-> FALSE, lost |-> FALSE]]

\* n is the number of segments of at most MSS bytes that `total` bytes need.
CutsInto(total, n) ==
    IF n = 0 THEN total = 0 ELSE (n - 1) * MSS < total /\ total <= n * MSS

\* Mutants: an entry that starts at snd_una is popped; none is popped.
PrunesOneMore(s, una, k) ==
    /\ \A i \in 1 .. k : s[i].seq <= una
    /\ k < Len(s) => s[k + 1].seq > una

PrunesNothing(s, una, k) == k = 0

\* prune_below_into_mbufs pops the first k entries.
PrunesTo(s, una, k) ==
    /\ \A i \in 1 .. k : EndSeq(s[i]) <= una
    /\ k < Len(s) => EndSeq(s[k + 1]) > una

Pruned(s, k) == SubSeq(s, k + 1, Len(s))

\* mark_sacked: any overlap with the reported bytes marks the entry.  Blocks
\* at or below snd_una are D-SACKs and mark nothing (is_dsack).
MarkSacked(s, blocks, una) ==
    [i \in DOMAIN s |->
        [s[i] EXCEPT !.sacked = @ \/ \E b \in blocks :
            b >= una /\ s[i].seq <= b /\ b < EndSeq(s[i])]]

\* Engine::retransmit of the entries at the indexes `sent`; the ones at
\* `marked` \ `sent` are lost, but the header mbuf could not be allocated.
Retransmitted(s, marked, sent) ==
    [i \in DOMAIN s |->
        IF i \in sent THEN [s[i] EXCEPT !.xmit_count = Lesser(@ + 1, XmitCap),
                                     !.lost = FALSE]
        ELSE IF i \in marked THEN [s[i] EXCEPT !.lost = TRUE] ELSE s[i]]

\* The header mempool decides which of the wanted retransmissions are made.
Allocated(sent, wanted) ==
    sent \subseteq wanted /\ (sent = wanted \/ HdrNoMem)

-----------------------------------------------------------------------------
\* tlp_arm_gate_passes, seen by arm_tlp_pto after the handler set its state.
TlpArms(s, armed, fired, seen, sampled) ==
    /\ s # <<>>
    /\ ~armed
    /\ fired < MaxProbes
    /\ SkipSampleGate \/ seen
    /\ sampled

\* What leaves for the wire when entries are (re)transmitted.
Frames(s) == {[seq |-> s[i].seq, len |-> s[i].len, fin |-> FALSE] : i \in DOMAIN s}

\* Engine::send_bytes.  `n` segments would be sent; the data mempool lets
\* `got` of them be allocated.
SendBytes(request, n, got) ==
    LET room     == Lesser(request, Lesser(SatSub(snd_wnd, InFlight),
                                           SatSub(SendBuf, InFlight)))
        accepted == Lesser(room, got * MSS)
        added    == Segments(snd_nxt, accepted, got)
        queue    == snd_retrans \o added
    IN  /\ state = "Established"
        /\ snd_nxt + room <= MaxSent
        /\ CutsInto(room, n)
        /\ got \in 0 .. n
        /\ got < n => DataNoMem
        /\ n > 0 => got > 0              \* else Err(SendBufferFull), no change
        /\ snd_retrans' = queue
        /\ snd_nxt' = snd_nxt + accepted
        /\ refs' = refs + got
        /\ rto' = (rto \/ (snd_retrans = <<>> /\ got > 0))
        /\ refused' = (refused \/ accepted < request)
        /\ tlp' = (tlp \/ (got > 0 /\ TlpArms(queue, tlp, probes, sample_seen, srtt)))
        /\ wire' = wire \cup Frames(added)
        /\ UNCHANGED <<state, snd_una, snd_wnd, rcv_nxt, our_fin_seq, srtt,
                       probes, sample_seen, rack_seen, err, peer, acks>>

\* Engine::close_conn.  The FIN is transmitted once; it is not queued for
\* retransmission and starts no timer.
CloseConn ==
    /\ state \in {"Established", "CloseWait"}
    /\ state' = IF state = "Established" THEN "FinWait1" ELSE "LastAck"
    /\ our_fin_seq' = snd_nxt
    /\ snd_nxt' = snd_nxt + 1
    /\ wire' = wire \cup {[seq |-> snd_nxt, len |-> 0, fin |-> TRUE]}
    /\ UNCHANGED <<snd_una, snd_wnd, rcv_nxt, snd_retrans, rto, tlp, srtt,
                   probes, sample_seen, rack_seen, refused, refs, err, peer, acks>>

-----------------------------------------------------------------------------
\* Removal from the flow table with every timer cancelled.  Only
\* force_close_etimedout frees the queued entries; the other paths drop the
\* TcpConn, whose non-owning Mbuf entries free nothing.
Remove(how, freed) ==
    /\ state' = "Closed"
    /\ err' = how
    /\ rto' = FALSE
    /\ tlp' = FALSE
    /\ snd_retrans' = <<>>
    /\ refs' = refs - freed

\* What the RACK pass may retransmit: which of the eligible entries are older
\* than the newest delivered one by the reordering window depends on clocks.
RackEligible(s, una) ==
    {i \in DOMAIN s : /\ ~s[i].sacked /\ ~s[i].lost
                      /\ EndSeq(s[i]) > una}

Delivered(s, una) == \E i \in DOMAIN s : s[i].sacked \/ EndSeq(s[i]) <= una

\* Mutants: any ACK stops the timers; none does.
StopsOnAnyAck(queue, ack) == TRUE

\* An ACK stops both timers when it leaves nothing to retransmit.
StopsTimers(queue, ack) == queue = <<>> /\ ack = snd_nxt

\* Mutant: WRITABLE only when the threshold is hit exactly.
WritableOnEquality(ack) == refused /\ snd_nxt - ack = SendBuf \div 2

\* The WRITABLE hysteresis: a refused sender is told once half of its buffer
\* is free again.
WritableFires(ack) == refused /\ snd_nxt - ack <= SendBuf \div 2

\* The ACK a segment carries, in handle_established, and what tcp_input does
\* with the outcome.  `lost` is the RACK verdict, `sent` the entries of it
\* whose retransmission could be allocated, `sampled` whether an RTT sample
\* was taken, `k` how many entries prune_below pops.
NewAck(seg, lost, sent, sampled, k) ==
    LET marked == MarkSacked(snd_retrans, seg.sack, snd_una)
        seen   == rack_seen \/ Delivered(marked, seg.ack)
        resent == Retransmitted(marked, lost, sent)
        queue  == Pruned(resent, k)
        ssn    == sample_seen \/ sampled
        idle   == StopsTimers(queue, seg.ack)
    IN  /\ snd_una < seg.ack /\ seg.ack <= snd_nxt
        /\ lost \subseteq (IF seen THEN RackEligible(marked, seg.ack) ELSE {})
        /\ Allocated(sent, lost)
        /\ sampled => \/ TsEnabled
                      \/ /\ snd_retrans # <<>>
                         /\ snd_retrans[1].xmit_count = 1
                         /\ EndSeq(snd_retrans[1]) <= seg.ack
        /\ k \in 0 .. Len(resent) /\ PrunesTo(resent, seg.ack, k)
        /\ snd_una' = seg.ack
        /\ snd_wnd' = seg.wnd
        /\ rack_seen' = seen
        /\ srtt' = (srtt \/ sampled)
        /\ probes' = 0
        /\ sample_seen' = ssn
        /\ refused' = (refused /\ ~WritableFires(seg.ack))
        /\ snd_retrans' = queue
        /\ refs' = refs - k
        /\ rto' = (rto /\ ~idle)
        /\ tlp' = ((tlp /\ ~idle)
                     \/ TlpArms(queue, tlp /\ ~idle, 0, ssn, srtt \/ sampled))
        /\ wire' = wire \cup Frames([i \in sent |-> resent[i]])

\* An ACK at or below snd_una: a duplicate.  Its window is not looked at.
OldAck(seg, lost, sent) ==
    LET marked == MarkSacked(snd_retrans, seg.sack, snd_una)
        seen   == rack_seen \/ Delivered(marked, snd_una)
        resent == Retransmitted(marked, lost, sent)
    IN  /\ seg.ack <= snd_una
        /\ lost \subseteq (IF seen THEN RackEligible(marked, snd_una) ELSE {})
        /\ Allocated(sent, lost)
        /\ rack_seen' = seen
        /\ snd_retrans' = resent
        /\ tlp' = (tlp \/ TlpArms(resent, tlp, probes, sample_seen, srtt))
        /\ wire' = wire \cup Frames([i \in sent |-> resent[i]])
        /\ UNCHANGED <<snd_una, snd_wnd, srtt, probes, sample_seen, refused,
                       refs, rto>>

\* A segment is in the window iff its sequence number is the one expected:
\* the peer sends at most one unit, its FIN.
InWindow(seg) == seg.seq = rcv_nxt

\* dispatch -> handle_established, for a segment that passes the window check.
HandleEstablished(seg) ==
    /\ state = "Established"
    /\ InWindow(seg)
    /\ \E lost \in SUBSET DOMAIN snd_retrans :
         \E sent \in SUBSET lost :
            \/ \E sampled \in BOOLEAN, k \in 0 .. Len(snd_retrans) :
                  NewAck(seg, lost, sent, sampled, k)
            \/ OldAck(seg, lost, sent)
    /\ state' = IF seg.fin THEN "CloseWait" ELSE state
    /\ rcv_nxt' = IF seg.fin THEN rcv_nxt + 1 ELSE rcv_nxt
    /\ UNCHANGED <<our_fin_seq, err>>

FinHasBeenAcked(ack) == our_fin_seq # NoFin /\ ack > our_fin_seq

\* The transition table of handle_close_path.
ClosePathState(finAcked, peerFin) ==
    CASE state = "FinWait1" /\ finAcked /\ peerFin -> "TimeWait"
      [] state = "FinWait1" /\ finAcked /\ ~peerFin -> "FinWait2"
      [] state = "FinWait1" /\ ~finAcked /\ peerFin -> "Closing"
      [] state = "FinWait2" /\ peerFin -> "TimeWait"
      [] state = "Closing" /\ finAcked -> "TimeWait"
      [] state = "LastAck" /\ finAcked -> "Closed"
      [] OTHER -> state

\* dispatch -> handle_close_path.  snd_una moves, but snd_una_advanced_to stays
\* None: tcp_input prunes nothing and leaves the RTO as it is.
HandleClosePath(seg) ==
    LET queue == MarkSacked(snd_retrans, seg.sack, snd_una)
        to    == ClosePathState(FinHasBeenAcked(seg.ack), seg.fin)
    IN  /\ state \in {"CloseWait", "FinWait1", "FinWait2", "Closing", "LastAck"}
        /\ InWindow(seg)
        /\ snd_una' = IF snd_una < seg.ack /\ seg.ack <= snd_nxt
                      THEN seg.ack ELSE snd_una
        /\ rcv_nxt' = IF seg.fin THEN rcv_nxt + 1 ELSE rcv_nxt
        /\ IF to = "Closed"
           THEN Remove("ok", 0)
           ELSE /\ state' = to
                /\ snd_retrans' = queue
                /\ tlp' = (tlp \/ TlpArms(queue, tlp, probes, sample_seen, srtt))
                /\ UNCHANGED <<rto, refs, err>>
        /\ UNCHANGED <<snd_nxt, snd_wnd, our_fin_seq, srtt, probes, sample_seen,
                       rack_seen, refused, wire>>

\* A segment outside the window, or any segment in TIME_WAIT, draws a challenge
\* ACK and changes nothing, but tcp_input still runs arm_tlp_pto.
AnswerOnly(seg) ==
    /\ state # "Closed"
    /\ state = "TimeWait" \/ ~InWindow(seg)
    /\ tlp' = (tlp \/ TlpArms(snd_retrans, tlp, probes, sample_seen, srtt))
    /\ UNCHANGED <<state, snd_una, snd_nxt, snd_wnd, rcv_nxt, our_fin_seq,
                   snd_retrans, rto, srtt, probes, sample_seen, rack_seen,
                   refused, refs, err, wire>>

\* A segment arrives; the network may deliver it again later.
TcpInput(seg, again) ==
    /\ \/ HandleEstablished(seg) /\ UNCHANGED snd_nxt
       \/ HandleClosePath(seg)
       \/ AnswerOnly(seg)
    /\ acks' = IF again THEN acks ELSE acks \ {seg}
    /\ UNCHANGED peer

\* The peer aborts: handle_established and handle_close_path take any RST.
RecvRst ==
    /\ state # "Closed"
    /\ Remove("ok", 0)
    /\ UNCHANGED <<snd_una, snd_nxt, snd_wnd, rcv_nxt, our_fin_seq, srtt, probes,
                   sample_seen, rack_seen, refused, net>>

\* reap_time_wait: 2 MSL passed, or force_tw_skip is set.
ReapTimeWait ==
    /\ state = "TimeWait"
    /\ Remove("ok", 0)
    /\ UNCHANGED <<snd_una, snd_nxt, snd_wnd, rcv_nxt, our_fin_seq, srtt, probes,
                   sample_seen, rack_seen, refused, net>>

-----------------------------------------------------------------------------
\* rack_mark_losses_on_rto: the entry at snd_una is always marked, a later one
\* if it is old enough.
LostOnRto(lost) ==
    LET eligible == RackEligible(snd_retrans, snd_una)
        first    == {i \in eligible : snd_retrans[i].seq = snd_una}
    IN  first \subseteq lost /\ lost \subseteq eligible

\* on_rto_fire.  `sent` are the entries whose retransmission was allocated.
OnRtoFire(lost, sent) ==
    LET chosen == IF lost = {} THEN {1} ELSE lost
        resent == Retransmitted(snd_retrans, lost, sent)
    IN  /\ rto /\ state # "Closed"
        /\ IF snd_retrans = <<>>
           THEN /\ lost = {} /\ sent = {}
                /\ rto' = FALSE
                /\ UNCHANGED <<state, err, tlp, snd_retrans, refs, wire>>
           ELSE /\ LostOnRto(lost)
                /\ Allocated(sent, chosen)
                /\ wire' = wire \cup Frames([i \in sent |-> resent[i]])
                /\ IF resent[1].xmit_count > MaxRetrans
                   THEN Remove("etimedout", Len(snd_retrans))
                   ELSE /\ snd_retrans' = resent
                        /\ rto' = TRUE
                        /\ UNCHANGED <<state, err, tlp, refs>>
        /\ UNCHANGED <<snd_una, snd_nxt, snd_wnd, rcv_nxt, our_fin_seq, srtt,
                       probes, sample_seen, rack_seen, refused, peer, acks>>

\* on_tlp_fire: probe with the last entry.  The probe counts against the budget
\* whether or not its header could be allocated.
OnTlpFire(sent) ==
    LET last   == Len(snd_retrans)
        resent == Retransmitted(snd_retrans, {}, sent)
    IN  /\ tlp /\ state # "Closed"
        /\ tlp' = FALSE
        /\ Allocated(sent, {last} \ {0})
        /\ IF snd_retrans = <<>>
           THEN UNCHANGED <<snd_retrans, probes, sample_seen, wire>>
           ELSE /\ snd_retrans' = resent
                /\ probes' = probes + 1
                /\ sample_seen' = FALSE
                /\ wire' = wire \cup Frames([i \in sent |-> resent[i]])
        /\ UNCHANGED <<state, snd_una, snd_nxt, snd_wnd, rcv_nxt, our_fin_seq,
                       rto, srtt, rack_seen, refused, refs, err, peer, acks>>

-----------------------------------------------------------------------------
\* The peer and the network (external).

PeerWindow(p) == SatSub(p.read + PeerBuf, p.nxt)

AckFrom(p, fin) ==
    [seq |-> IF p.fin /\ ~fin THEN 1 ELSE 0, ack |-> p.nxt,
     wnd |-> PeerWindow(p), sack |-> IF SackEnabled THEN p.ooo ELSE {}, fin |-> fin]

\* The network takes an ACK, or drops it when it is full.
Carry(seg) ==
    acks' = IF Cardinality(acks) < MaxAcks THEN acks \cup {seg} ELSE acks

\* The bytes of f the peer keeps: the ones it still misses and has room for.
Kept(p, f) ==
    p.ooo \cup {b \in f.seq .. f.seq + f.len - 1 : p.nxt <= b /\ b < p.read + PeerBuf}

\* `next` is the first byte that the peer then misses.
PeerReceives(f, next) ==
    LET held == Kept(peer, f)
    IN  /\ IF f.fin
           THEN /\ next = IF peer.nxt = f.seq THEN peer.nxt + 1 ELSE peer.nxt
                /\ peer' = [peer EXCEPT !.nxt = next]
           ELSE /\ next \notin held
                /\ \A b \in peer.nxt .. next - 1 : b \in held
                /\ peer' = [peer EXCEPT !.nxt = next, !.ooo = {b \in held : b >= next}]
        /\ Carry(AckFrom(peer', FALSE))
        /\ UNCHANGED <<conn, wire>>

\* The peer's application reads everything in order so far: a window update.
PeerReads ==
    /\ peer.read < peer.nxt
    /\ peer' = [peer EXCEPT !.read = peer.nxt]
    /\ Carry(AckFrom(peer', FALSE))
    /\ UNCHANGED <<conn, wire>>

\* The peer closes its half, and repeats the FIN at will.
PeerSendsFin ==
    /\ peer' = [peer EXCEPT !.fin = TRUE]
    /\ Carry(AckFrom(peer', TRUE))
    /\ UNCHANGED <<conn, wire>>

LoseAck(seg) ==
    /\ acks' = acks \ {seg}
    /\ UNCHANGED <<conn, peer, wire>>

-----------------------------------------------------------------------------
Init ==
    /\ state = "Established"
    /\ snd_una = 0 /\ snd_nxt = 0 /\ snd_wnd = PeerBuf /\ rcv_nxt = 0
    /\ our_fin_seq = NoFin
    /\ snd_retrans = <<>>
    /\ rto = FALSE /\ tlp = FALSE
    /\ srtt \in BOOLEAN       \* seeded by the SYN, unless that was repeated
    /\ probes = 0 /\ sample_seen = FALSE /\ rack_seen = FALSE
    /\ refused = FALSE
    /\ refs = 0
    /\ err = "none"
    /\ peer = [nxt |-> 0, read |-> 0, ooo |-> {}, fin |-> FALSE]
    /\ wire = {}
    /\ acks = {}

Next ==
    \/ \E request \in 1 .. MaxRequest : \E n \in 0 .. request :
          \E got \in 0 .. n : SendBytes(request, n, got)
    \/ CloseConn
    \/ \E seg \in acks, again \in BOOLEAN : TcpInput(seg, again)
    \/ RecvRst
    \/ ReapTimeWait
    \/ \E lost \in SUBSET DOMAIN snd_retrans :
          \E sent \in SUBSET DOMAIN snd_retrans : OnRtoFire(lost, sent)
    \/ \E sent \in SUBSET DOMAIN snd_retrans : OnTlpFire(sent)
    \/ \E f \in wire : \E next \in peer.nxt .. MaxSent + 1 : PeerReceives(f, next)
    \/ PeerReads
    \/ PeerSendsFin
    \/ \E seg \in acks : LoseAck(seg)

Spec == Init /\ [][Next]_vars

-----------------------------------------------------------------------------
Entry == [seq : Nat, len : Nat \ {0}, xmit_count : Nat \ {0},
          sacked : BOOLEAN, lost : BOOLEAN]

Frame == [seq : Nat, len : Nat, fin : BOOLEAN]

Ack == [seq : {0, 1}, ack : Nat, wnd : Nat, sack : SUBSET Nat, fin : BOOLEAN]

\* Types, and the order of the sequence variables.
TypeOK ==
    /\ state \in States
    /\ snd_una \in Nat /\ snd_nxt \in Nat /\ snd_wnd \in Nat /\ rcv_nxt \in Nat
    /\ our_fin_seq \in Nat \cup {NoFin}
    /\ snd_retrans \in Seq(Entry)
    /\ rto \in BOOLEAN /\ tlp \in BOOLEAN /\ srtt \in BOOLEAN
    /\ sample_seen \in BOOLEAN /\ rack_seen \in BOOLEAN /\ refused \in BOOLEAN
    /\ probes \in Nat /\ refs \in Nat
    /\ err \in {"none", "ok", "etimedout"}
    /\ peer \in [nxt : Nat, read : Nat, ooo : SUBSET Nat, fin : BOOLEAN]
    /\ wire \subseteq Frame
    /\ acks \subseteq Ack
    /\ snd_una <= snd_nxt

\* No unacknowledged byte is ever missing from the retransmission queue: the
\* entries follow each other without gap or overlap, the first starts at or
\* below snd_una, the last ends where the data ends, and an empty queue means
\* that every byte was acknowledged.
FlightTiled ==
    state # "Closed" =>
        /\ \A i \in 1 .. Len(snd_retrans) - 1 :
              EndSeq(snd_retrans[i]) = snd_retrans[i + 1].seq
        /\ snd_retrans # <<>> =>
              /\ snd_retrans[1].seq <= snd_una
              /\ EndSeq(snd_retrans[Len(snd_retrans)]) = DataEnd
        /\ snd_retrans = <<>> => DataEnd <= snd_una

\* While anything is queued for retransmission an RTO is pending: no
\* interleaving of sends, ACKs, probes and closes leaves data in flight with
\* nobody to retransmit it.
RtoCoversFlight ==
    state # "Closed" /\ snd_retrans # <<>> => rto

\* In ESTABLISHED acknowledged data is gone from the queue and both timers are
\* stopped with the last of it, so neither can fire for delivered data.
NothingLeftBehind ==
    state = "Established" =>
        /\ snd_retrans # <<>> => snd_una < EndSeq(snd_retrans[1])
        /\ rto \/ tlp => snd_retrans # <<>>

\* Every queued entry holds exactly one reference on its data mbuf.
RefsMatch == state # "Closed" => refs = Len(snd_retrans)

\* No byte is sent beyond the right edge the peer has advertised, however its
\* ACKs are delayed and reordered.
WindowRespected == DataEnd <= peer.read + PeerBuf

\* In ESTABLISHED the connection is failed with ETIMEDOUT only for a segment
\* that is unacknowledged.
TimeoutIsForUnackedData ==
    [][state = "Established" /\ err' = "etimedout" => snd_una < snd_nxt]_vars

-----------------------------------------------------------------------------
\* Liveness.  The poll loop runs for ever, so an armed RTO eventually fires;
\* nothing is assumed of the network.
RtoFires ==
    \E lost \in SUBSET DOMAIN snd_retrans :
        OnRtoFire(lost, IF snd_retrans = <<>> THEN {}
                        ELSE IF lost = {} THEN {1} ELSE lost)

FairSpec == Spec /\ WF_vars(RtoFires)

\* Each byte in flight is eventually acknowledged, or the connection fails.
FlightResolves ==
    \A b \in 0 .. MaxSent - 1 :
        (state = "Established" /\ snd_una <= b /\ b < snd_nxt)
            ~> (snd_una > b \/ state # "Established")

\* A refused send is followed by WRITABLE if there is anything in flight.
RefusalResolves ==
    (state = "Established" /\ refused /\ snd_una < snd_nxt)
        ~> (~refused \/ state # "Established")

\* The strongest network assumption: whatever is sent again and again gets
\* through, both ways, and the peer's application keeps reading.
FairNetSpec ==
    /\ FairSpec
    /\ \A b \in 0 .. MaxSent - 1 :
          SF_vars(\E f \in wire : \E next \in peer.nxt .. MaxSent + 1 :
                     f.seq = b /\ f.len > 0 /\ PeerReceives(f, next))
    /\ SF_vars(\E seg \in acks : TcpInput(seg, FALSE))
    /\ WF_vars(PeerReads)

-----------------------------------------------------------------------------
\* Statements of docs/superpowers/specs/2026-04-17-dpdk-tcp-design.md that the
\* code does not keep.

\* :940 "Receiver zero-window stall then recovery ... `DPDK_NET_EVT_WRITABLE`
\* fires within 1 RTT of window open", stated as: eventually.
ZeroWindowRecovers ==
    (state = "Established" /\ refused /\ PeerWindow(peer) > 0)
        ~> (~refused \/ state # "Established")

\* :479 the connection fails with ETIMEDOUT after retransmits "with no ACK
\* progress": never when the peer has acknowledged all data.
TimeoutNeedsUnackedData ==
    [][err' = "etimedout" /\ err # "etimedout" => snd_una < DataEnd]_vars

\* :476 "every TX segment holds an mbuf refcount until ACK or RST".
RefsEndWithConnection == state = "Closed" => refs = 0
=============================================================================
