----------------------------- MODULE LossState -----------------------------
(***************************************************************************)
(* What the sender of a connection believes about its peer, from the bytes *)
(* of the ACKs: the SACK scoreboard, DSACK detection, the timestamps with  *)
(* PAWS, RTT sampling, RACK's state and verdicts, the deadlines of RTO and *)
(* TLP, and the attribution of spurious probes.                            *)
(*                                                                         *)
(* SendPath leaves the clock open; here it runs, and sequence numbers and  *)
(* timestamps wrap: both are taken modulo Space, as u32 is modulo 2^32.    *)
(* Segments are one byte long and are numbered from 0; a retransmission is *)
(* always allocated, and the retransmission budget is not spent within the *)
(* bound on time.  The peer and the network are external: the peer answers *)
(* every segment with an ACK in the format of TcpOptions, with SACK and    *)
(* DSACK blocks; segments and ACKs are lost when they are sent, or stay    *)
(* under way while others overtake them.                                   *)
(***************************************************************************)
EXTENDS RttEstimator, TcpOptions, Sequences, FiniteSets, SequencesExt, FiniteSetsExt

CONSTANTS
    Space,          \* 2^32: of sequence numbers and of timestamps
    Iss,            \* the first sequence number of the data
    Clock0,         \* our timestamp at time 0
    PeerClock0,     \* the peer's
    MaxSegs,        \* bound: segments sent
    Grain,          \* bound: the step of the clock
    MaxNow,         \* bound: time
    MaxNet,         \* bound: segments and ACKs on their way
    MaxSample,      \* 60 s: greatest RTT sample
    SynRtts,        \* RTTs of the SYN; 0: it was sent again, or the peer connected
    ColdSrtt,       \* 1 s: stands for the SRTT until there is a sample
    Expiry,         \* TS_RECENT_EXPIRY_NS
    ReoFloor,       \* 1 ms: least reordering window
    WcDelAck,       \* WCDELACK_US
    BoardSize,      \* MAX_SACK_SCOREBOARD_ENTRIES
    MaxProbes,      \* tlp_max_consecutive_probes
    SkipSampleGate, \* tlp_skip_rtt_sample_gate
    RecentProbes    \* the length of tlp_recent_probes

\* Numbers fit 32 bits; a connection sends less than half of the sequence space,
\* so that the comparison of tcp_seq.rs orders its bytes; the clock moves.
ASSUME LossParams ==
    /\ {Space, Iss, Clock0, PeerClock0, MaxSegs, Grain, MaxNow} \subseteq Nat
    /\ Space > 0 /\ IsU32(Space - 1)
    /\ SynRtts \subseteq 0 .. Grain - 1 /\ ColdSrtt \in Nat
    /\ MaxSegs < Space \div 2 /\ Grain > 0 /\ {BoardSize, RecentProbes} \subseteq Nat \ {0}

VARIABLES
    now,        \* the clock
    est,        \* the sender's RTT estimator
    conn,       \* the rest of the sender's state
    segs,       \* segments on their way to the peer
    acks,       \* ACKs on their way back
    peer,       \* what the peer holds, echoes and has sent last
    samples     \* history: the RTT samples taken

vars == <<now, est, conn, segs, acks, peer, samples>>

NoTimer == 0

\* The sequence number of segment n, and a clock's timestamp.
SeqNo(n) == (Iss + n) % Space
Stamp(base) == (base + now) % Space

\* Mutants: a comparison that does not wrap.
SeqLtPlain(a, b) == a < b

\* tcp_seq.rs: comparison by signed difference.
SeqLt(a, b) == (a - b) % Space >= Space \div 2
SeqLe(a, b) == a = b \/ SeqLt(a, b)

-----------------------------------------------------------------------------
\* The scoreboard (tcp_sack.rs), a sequence of blocks.

Touch(a, b) == SeqLe(a.left, b.right) /\ SeqLe(b.left, a.right)

Union(a, b) == [left  |-> IF SeqLe(a.left, b.left) THEN a.left ELSE b.left,
                right |-> IF SeqLe(b.right, a.right) THEN a.right ELSE b.right]

\* collapse: merge the first pair of blocks that touch until there is none.
MergeFirst(board) ==
    LET pairs == {p \in (DOMAIN board) \X (DOMAIN board) :
                     p[1] < p[2] /\ Touch(board[p[1]], board[p[2]])}
        first == CHOOSE p \in pairs : \A q \in pairs :
                     p[1] < q[1] \/ (p[1] = q[1] /\ p[2] <= q[2])
    IN  IF pairs = {} THEN board
        ELSE RemoveAt([board EXCEPT ![first[1]] = Union(@, board[first[2]])], first[2])

Collapse(board) ==
    LET after[k \in 0 .. Len(board)] == IF k = 0 THEN board ELSE MergeFirst(after[k - 1])
    IN  after[Len(board)]

\* SackScoreboard::insert
BoardInsert(board, b) ==
    LET touching == {i \in DOMAIN board : Touch(b, board[i])}
    IN  IF touching # {} THEN Collapse([board EXCEPT ![Min(touching)] = Union(@, b)])
        ELSE Append(IF Len(board) < BoardSize THEN board ELSE Tail(board), b)

\* A sequence without the elements at the positions `drop`.
Without(s, drop) ==
    LET kept[k \in 0 .. Len(s)] ==
            IF k = 0 THEN <<>> ELSE IF k \in drop THEN kept[k - 1] ELSE Append(kept[k - 1], s[k])
    IN  kept[Len(s)]

\* SackScoreboard::prune_below
BoardPrune(board, una) ==
    LET kept == Without(board, {i \in DOMAIN board : SeqLe(board[i].right, una)})
    IN  [i \in DOMAIN kept |-> [kept[i] EXCEPT !.left = IF SeqLe(@, una) THEN una ELSE @]]

\* SackScoreboard::is_sacked
IsSacked(board, seq) == \E i \in DOMAIN board :
                           SeqLe(board[i].left, seq) /\ SeqLt(seq, board[i].right)

\* is_dsack
IsDsack(b, c) ==
    \/ SeqLe(b.right, c.una)
    \/ \E i \in DOMAIN c.board : SeqLe(c.board[i].left, b.left) /\ SeqLe(b.right, c.board[i].right)

EndSeq(e) == (e.seq + 1) % Space

\* SendRetrans::mark_sacked
MarkSacked(entries, b) ==
    [i \in DOMAIN entries |->
        IF SeqLt(entries[i].seq, b.right) /\ SeqLt(b.left, EndSeq(entries[i]))
        THEN [entries[i] EXCEPT !.sacked = TRUE] ELSE entries[i]]

\* attribute_dsack_to_recent_tlp_probe: the first probe inside the block that
\* is recent enough and not attributed yet.
Attributed(c, b) ==
    LET srtt   == IF est.srtt # 0 THEN est.srtt
                  ELSE IF c.rack.min_rtt # 0 THEN c.rack.min_rtt ELSE ColdSrtt
        within == {i \in DOMAIN c.probes : LET p == c.probes[i] IN
                      /\ ~p.attributed
                      /\ SeqLe(b.left, p.seq) /\ SeqLe((p.seq + 1) % Space, b.right)
                      /\ now - p.tx_ts < 4 * srtt}
    IN  IF within = {} THEN c ELSE [c EXCEPT !.probes[Min(within)].attributed = TRUE]

\* One SACK block of an ACK.
SackBlock(c, b) ==
    IF IsDsack(b, c) THEN Attributed(c, b)
    ELSE [c EXCEPT !.board = BoardInsert(@, b), !.entries = MarkSacked(@, b)]

\* All of them, in their order.
SackBlocksTaken(c, blocks) ==
    LET after[k \in 0 .. Len(blocks)] == IF k = 0 THEN c ELSE SackBlock(after[k - 1], blocks[k])
    IN  after[Len(blocks)]

-----------------------------------------------------------------------------
\* RTT samples, RACK and the timers.

\* The sample of an ACK: from the echoed timestamp, else from the front entry
\* if it was sent once and is acknowledged; None outside the sanity bounds.
Sane(rtt) == IF rtt \in 1 .. MaxSample - 1 THEN rtt ELSE None

\* Mutant: the peer's own timestamp is taken for the echo.
TsSampleOfTsval(opts) ==
    IF opts.timestamps = <<>> THEN None ELSE Sane((Stamp(Clock0) - opts.timestamps[1]) % Space)

TsSample(opts) ==
    IF opts.timestamps = <<>> \/ opts.timestamps[2] = 0 THEN None
    ELSE Sane((Stamp(Clock0) - opts.timestamps[2]) % Space)

KarnSample(c) ==
    IF c.entries = <<>> THEN None
    ELSE LET front == Head(c.entries)
         IN  IF front.xmit_count = 1 /\ SeqLe(EndSeq(front), c.una)
             THEN Sane((now - front.first_tx) % Space) ELSE None

RttSample(c, opts) == IF TsSample(opts) # None THEN TsSample(opts) ELSE KarnSample(c)

\* update_min_rtt and on_rtt_sample_tlp_hook, or on_new_data_ack_tlp_hook.
Sampled(c, rtt) ==
    IF rtt = None THEN [c EXCEPT !.fired = 0]
    ELSE [c EXCEPT !.rack.min_rtt = IF @ = 0 \/ rtt < @ THEN rtt ELSE @,
                   !.fired = 0, !.sample_seen = TRUE]

\* RackState::update_on_ack
RackUpdate(rack, e) ==
    IF e.xmit_ts > rack.xmit_ts \/ (e.xmit_ts = rack.xmit_ts /\ SeqLt(rack.end_seq, EndSeq(e)))
    THEN [rack EXCEPT !.xmit_ts = e.xmit_ts, !.end_seq = EndSeq(e)] ELSE rack

\* compute_reo_wnd_us
ReoWnd(c, e) ==
    LET half == c.rack.min_rtt \div 2
    IN  Max({ReoFloor, IF e.srtt = 0 THEN half ELSE Min({e.srtt \div 4, half})})

\* The entries that have been delivered update RACK.
RackSeen(c) ==
    [c EXCEPT !.rack = FoldLeft(RackUpdate, @,
        SelectSeq(c.entries, LAMBDA e : e.sacked \/ SeqLe(EndSeq(e), c.una)))]

\* Entries that are neither delivered nor marked already.
Open(c) == {i \in DOMAIN c.entries :
               ~c.entries[i].sacked /\ ~c.entries[i].lost /\ ~SeqLe(EndSeq(c.entries[i]), c.una)}

\* RackState::detect_lost
DetectLost(c, e, reo) ==
    /\ \/ e.xmit_ts < c.rack.xmit_ts
       \/ e.xmit_ts = c.rack.xmit_ts /\ SeqLt(EndSeq(e), c.rack.end_seq)
    /\ now - e.xmit_ts > reo

\* retransmit of the entries `is`.
SentAgain(e) == [e EXCEPT !.xmit_count = @ + 1, !.xmit_ts = now, !.lost = FALSE]
Resent(c, is) ==
    [c EXCEPT !.entries = [i \in DOMAIN @ |-> IF i \in is THEN SentAgain(@[i]) ELSE @[i]]]

Frames(c, is) == {[seq |-> c.entries[i].seq, tsval |-> Stamp(Clock0)] : i \in is}

\* pto_us
PtoUs(c, srtt) ==
    LET base == 2 * srtt + IF Len(c.entries) = 1 THEN Max({WcDelAck, srtt \div 4}) ELSE 0
    IN  Max({base, MinRto})

\* arm_tlp_pto with tlp_arm_gate_passes
ArmTlp(c, e) ==
    IF /\ c.entries # <<>> /\ c.tlp_at = NoTimer /\ c.fired < MaxProbes
       /\ SkipSampleGate \/ c.sample_seen
       /\ e.srtt # 0
    THEN [c EXCEPT !.tlp_at = now + PtoUs(c, e.srtt)] ELSE c

\* The timers after an ACK that advanced snd_una: stopped with the queue
\* empty, else RTO restarts.
Restarted(c, e) ==
    IF c.entries = <<>> /\ c.una = c.nxt
    THEN [c EXCEPT !.rto_at = NoTimer, !.tlp_at = NoTimer]
    ELSE IF c.entries # <<>> /\ c.rto_at # NoTimer
    THEN [c EXCEPT !.rto_at = now + e.rto] ELSE c

Pruned(c) == [c EXCEPT !.entries = Without(@, {i \in DOMAIN @ : SeqLe(EndSeq(@[i]), c.una)})]

\* The network takes the frames, or they are lost.
Transmit(frames) ==
    \/ segs' = segs
    \/ /\ frames # {} /\ segs' = segs \cup frames
       /\ Cardinality(segs') + Cardinality(acks) <= MaxNet

-----------------------------------------------------------------------------
\* send_bytes, one segment.
SendBytes ==
    LET e == [seq |-> conn.nxt, xmit_ts |-> now, first_tx |-> now, xmit_count |-> 1,
              sacked |-> FALSE, lost |-> FALSE]
        c == [conn EXCEPT !.entries = Append(@, e), !.nxt = EndSeq(e),
                          !.rto_at = IF conn.entries = <<>> /\ @ = NoTimer
                                     THEN now + est.rto ELSE @]
    IN  /\ conn.sent < MaxSegs
        /\ conn' = ArmTlp([c EXCEPT !.sent = @ + 1], est)
        /\ Transmit(Frames(c, {Len(c.entries)}))
        /\ UNCHANGED <<now, est, acks, peer, samples>>

\* Mutant: the timestamp of a segment that PAWS rejects is kept.
PawsRejectsPlain(c, tsval) == SeqLtPlain(tsval, c.ts_recent)

\* PAWS: has TS.Recent expired, and is the segment older than it.
PawsExpired(c) == c.ts_age # 0 /\ now - c.ts_age > Expiry
PawsRejects(c, tsval) == ~PawsExpired(c) /\ SeqLt(tsval, c.ts_recent)

\* handle_established for a pure ACK, and what the engine does with the
\* outcome.
HandleEstablished(a) ==
    LET opts   == ParseOptions(a.opts)
        stamped == [conn EXCEPT !.ts_recent = opts.timestamps[1], !.ts_age = now]
        sacked == SackBlocksTaken(stamped, opts.sack_blocks)
        fresh  == SeqLt(sacked.una, a.ack) /\ SeqLe(a.ack, sacked.nxt)
        rtt    == RttSample([sacked EXCEPT !.una = a.ack], opts)
        acked  == IF ~fresh THEN sacked
                  ELSE LET c == Sampled([sacked EXCEPT !.una = a.ack], rtt)
                       IN  [c EXCEPT !.board = BoardPrune(@, a.ack)]
        e      == IF fresh /\ rtt # None THEN Sample(est, rtt) ELSE est
        seen   == RackSeen(acked)
        reo    == ReoWnd(seen, e)
        lost   == {i \in Open(seen) : DetectLost(seen, seen.entries[i], reo)}
        c      == [Resent(seen, lost) EXCEPT !.rack.reo_wnd = reo]
    IN  /\ opts.err = "ok" /\ opts.timestamps # <<>>
        /\ ~PawsRejects(conn, opts.timestamps[1])
        /\ ~SeqLt(conn.nxt, a.ack)
        /\ conn' = ArmTlp(IF fresh THEN Restarted(Pruned(c), e) ELSE c, e)
        /\ est' = e
        /\ Transmit(Frames(c, lost))
        /\ samples' = IF fresh /\ rtt # None THEN samples \cup {rtt} ELSE samples

RxAck(a) ==
    /\ a \in acks
    /\ acks' = acks \ {a}
    /\ \/ HandleEstablished(a)
       \/ /\ PawsRejects(conn, ParseOptions(a.opts).timestamps[1])
          /\ UNCHANGED <<est, conn, segs, samples>>
    /\ UNCHANGED <<now, peer>>

\* on_rto_fire: rack_mark_losses_on_rto, retransmit, back off, restart.
OnRtoFire ==
    LET rtt  == IF est.srtt # 0 THEN est.srtt ELSE conn.rack.min_rtt
        lost == {i \in Open(conn) : \/ conn.entries[i].seq = conn.una
                                    \/ now - conn.entries[i].xmit_ts >= rtt + conn.rack.reo_wnd}
        is   == IF lost = {} THEN {1} ELSE lost
    IN  /\ conn.rto_at # NoTimer /\ now >= conn.rto_at
        /\ IF conn.entries = <<>>
           THEN conn' = [conn EXCEPT !.rto_at = NoTimer] /\ UNCHANGED <<est, segs>>
           ELSE /\ est' = Backoff(est)
                /\ conn' = [Resent(conn, is) EXCEPT !.rto_at = now + est'.rto]
                /\ Transmit(Frames(conn, is))
        /\ UNCHANGED <<now, acks, peer, samples>>

\* on_tlp_fire and on_tlp_probe_fired: the last entry is sent again.
OnTlpFire ==
    LET last  == Len(conn.entries)
        probe == [seq |-> conn.entries[last].seq, tx_ts |-> now, attributed |-> FALSE]
        ring  == IF Len(conn.probes) < RecentProbes THEN conn.probes ELSE Tail(conn.probes)
    IN  /\ conn.tlp_at # NoTimer /\ now >= conn.tlp_at
        /\ IF conn.entries = <<>>
           THEN conn' = [conn EXCEPT !.tlp_at = NoTimer] /\ UNCHANGED segs
           ELSE /\ conn' = [Resent(conn, {last}) EXCEPT
                              !.tlp_at = NoTimer, !.fired = @ + 1, !.sample_seen = FALSE,
                              !.probes = Append(ring, probe)]
                /\ Transmit(Frames(conn, {last}))
        /\ UNCHANGED <<now, est, acks, peer, samples>>

-----------------------------------------------------------------------------
\* The peer and the network.

\* The runs of consecutive segments above the cumulative ACK, each with its
\* first segment and the one after its last; the run of segment n is reported
\* first.
Cum(got) == Min((0 .. MaxSegs) \ got)
Runs(got) == {r \in (0 .. MaxSegs) \X (0 .. MaxSegs) :
                 /\ Cum(got) < r[1] /\ r[1] < r[2] /\ r[1] .. r[2] - 1 \subseteq got
                 /\ r[1] - 1 \notin got /\ r[2] \notin got}
Block(r) == [left |-> SeqNo(r[1]), right |-> SeqNo(r[2])]

SackBlocks(got, n, dup) ==
    LET runs  == Runs(got)
        first == {r \in runs : n \in r[1] .. r[2] - 1}
        order == SetToSeq(first) \o SetToSeq(runs \ first)
        all   == (IF dup THEN <<Block(<<n, n + 1>>)>> ELSE <<>>)
                     \o [i \in DOMAIN order |-> Block(order[i])]
    IN  SubSeq(all, 1, Min({3, Len(all)}))

\* The options of the peer's ACK: the padding follows bare timestamps and
\* precedes timestamps with SACK blocks.
AckOptions(ts, blocks) ==
    IF blocks = <<>> THEN TsBytes(ts) \o <<OPT_NOP, OPT_NOP>>
    ELSE Encode([NoOpts EXCEPT !.timestamps = ts, !.sack_blocks = blocks])

\* The peer takes a segment and acknowledges it; it echoes the timestamp of the
\* segment that advanced the left edge.
PeerReceives(s) ==
    LET n    == (s.seq - Iss) % Space
        got  == peer.got \cup {n}
        dup  == n \in peer.got
        echo == IF n <= Cum(peer.got) THEN s.tsval ELSE peer.echo
        ts   == <<Stamp(PeerClock0), echo>>
    IN  /\ s \in segs
        /\ segs' = segs \ {s}
        /\ peer' = [peer EXCEPT !.got = got, !.echo = echo, !.last = Stamp(PeerClock0)]
        /\ acks' \in {acks, acks \cup {[ack  |-> SeqNo(Cum(got)),
                                       opts |-> AckOptions(ts, SackBlocks(got, n, dup))]}}
        /\ UNCHANGED <<now, est, conn, samples>>

Tick == now < MaxNow /\ now' = now + Grain /\ UNCHANGED <<est, conn, segs, acks, peer, samples>>

-----------------------------------------------------------------------------
\* maybe_seed_srtt_from_syn
Seeded(rtt) == IF rtt = 0 THEN NewEstimator ELSE Sample(NewEstimator, rtt)

\* A connection that has just been established.
NewConn(rtt) ==
    [una |-> SeqNo(0), nxt |-> SeqNo(0), sent |-> 0, entries |-> <<>>, board |-> <<>>,
     rack |-> [xmit_ts |-> 0, end_seq |-> 0, reo_wnd |-> 0, min_rtt |-> rtt],
     ts_recent |-> PeerClock0 % Space, ts_age |-> 0,
     rto_at |-> NoTimer, tlp_at |-> NoTimer, fired |-> 0, sample_seen |-> FALSE,
     probes |-> <<>>]

Init ==
    /\ now = Grain
    /\ \E rtt \in SynRtts : est = Seeded(rtt) /\ conn = NewConn(rtt) /\ samples = {rtt} \ {0}
    /\ segs = {} /\ acks = {}
    /\ peer = [got |-> {}, echo |-> 0, last |-> PeerClock0 % Space]

Next ==
    \/ Tick \/ SendBytes \/ OnRtoFire \/ OnTlpFire
    \/ \E a \in acks : RxAck(a)
    \/ \E s \in segs : PeerReceives(s)

Spec == Init /\ [][Next]_vars

-----------------------------------------------------------------------------
\* What the sender believes to be delivered the peer holds: every byte of a
\* block of the scoreboard, every entry marked as SACKed, everything below
\* snd_una.  Delayed ACKs, merged blocks, a full board and sequence numbers
\* that wrap must not make it believe more, or the byte is not sent again.
BoardTrue ==
    /\ \A n \in 0 .. conn.sent - 1 :
          IsSacked(conn.board, SeqNo(n)) \/ SeqLt(SeqNo(n), conn.una) => n \in peer.got
    /\ \A i \in DOMAIN conn.entries :
          conn.entries[i].sacked => (conn.entries[i].seq - Iss) % Space \in peer.got

\* PAWS lets the newest segment of the peer through, however its ACKs are
\* delayed and reordered and wherever its clock wraps.
NewestPasses == ~PawsRejects(conn, peer.last)

\* The estimate lies among the samples that were taken, whatever the shifts of
\* the estimator round away, and the timeout keeps its bounds through samples
\* and backoffs.
EstimateSound ==
    /\ est.rto \in MinRto .. MaxRto
    /\ IF samples = {} THEN est.srtt = 0
       ELSE \E lo, hi \in samples : lo <= est.srtt /\ est.srtt <= hi

\* No sample is longer than the connection has existed, however old the
\* timestamp that an ACK echoes and wherever the clock wraps.
SamplesReal == \A rtt \in samples : rtt < now
=============================================================================
