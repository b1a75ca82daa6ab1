------------------------------ MODULE RecvPath ------------------------------
(***************************************************************************)
(* The receiving half of one connection: the payload and FIN handling of   *)
(* handle_established, the reassembly queue of tcp_reassembly.rs, the ACK  *)
(* with its window and SACK blocks, deliver_readable, and the event queue  *)
(* and event scratch through which dpdk_net_poll lends received mbufs to   *)
(* the user.                                                               *)
(*                                                                         *)
(* A byte of the peer's stream is its offset from IRS+1.  A received frame *)
(* occupies an mbuf, whose content is known by the first byte of its       *)
(* payload; every descriptor (mbuf, offset, len) is read through the mbuf, *)
(* so a reference released too early shows as wrong data.  Frames are      *)
(* single-segment mbufs; the in-order queue recv.bytes is filled and       *)
(* emptied within one handler and needs no variable.                       *)
(***************************************************************************)
EXTENDS Integers, Sequences, FiniteSets, SequencesExt

CONSTANTS
    RecvBuf,        \* recv_buffer_bytes
    U16Max,         \* u16::MAX, 2^k - 1 here
    Scaled,         \* window scaling was negotiated
    MaxBlocks,      \* MAX_SACK_BLOCKS_EMIT
    Chains,         \* the NIC may scatter a frame over a chain of mbufs
    SoftCap,        \* event_queue_soft_cap
    StreamLen,      \* bound: bytes the peer sends
    MaxLen,         \* bound: payload of one frame
    MaxEvents,      \* bound: max_events of a dpdk_net_poll
    Mbufs           \* bound: size of rx_mempool

ASSUME RecvPathParams ==
    /\ {RecvBuf, U16Max, SoftCap, MaxBlocks, Mbufs} \subseteq Nat \ {0}
    /\ {StreamLen, MaxLen, MaxEvents} \subseteq Nat
    /\ Scaled \in BOOLEAN /\ Chains \in BOOLEAN

VARIABLES
    state,          \* Established, CloseWait or Closed
    rcv_nxt,
    reorder,        \* ReorderQueue.segments
    total_bytes,    \* ReorderQueue.total_bytes
    last_sack_trigger,
    mbuf,           \* rx_mempool: reference count and first payload byte
    events,         \* EventQueue.q
    events_dropped, \* the counter is not 0
    scratch,        \* drained_events_scratch, what the user may read
    polling         \* inside dpdk_net_poll

VARIABLES
    edge,           \* the furthest right edge the peer was ever offered
    ack,            \* the last ACK sent
    sacked,         \* history: every byte ever reported in a SACK block
    got             \* history: the bytes handed to the user

conn == <<state, rcv_nxt, reorder, total_bytes, last_sack_trigger>>
vars == <<conn, mbuf, events, events_dropped, scratch, polling, edge, ack,
          sacked, got>>

None == -1

Lesser(a, b) == IF a <= b THEN a ELSE b

Greater(a, b) == IF a >= b THEN a ELSE b

SatSub(a, b) == IF a >= b THEN a - b ELSE 0

EndSeq(s) == s.seq + s.len

\* TcpConn.rcv_wnd, fixed when the connection is created.
RcvWnd == Lesser(RecvBuf, U16Max)

-----------------------------------------------------------------------------
\* The pool of mbufs.

NoMbuf == [refs |-> 0, base |-> None]

\* The bytes a descriptor shows, through its mbuf.
Content(pool, d) == [i \in 1 .. d.len |-> pool[d.mbuf].base + d.offset + i - 1]

Contents(pool, ds) == FlattenSeq([i \in DOMAIN ds |-> Content(pool, ds[i])])

\* Drop one reference per descriptor of ds; the last one returns the mbuf.
Release(pool, ds) ==
    [m \in DOMAIN pool |->
        LET n == Cardinality({i \in DOMAIN ds : ds[i].mbuf = m})
        IN  IF n > 0 /\ pool[m].refs <= n THEN NoMbuf
            ELSE [pool[m] EXCEPT !.refs = @ - n]]

-----------------------------------------------------------------------------
\* ReorderQueue::insert of the first `len` bytes of a frame at seq: the bytes
\* that no queued segment holds, as many as the cap leaves room for.

Holds(q, b) == \E i \in DOMAIN q : q[i].seq <= b /\ b < EndSeq(q[i])

Uncovered(q, seq, len) == {b \in seq .. seq + len - 1 : ~Holds(q, b)}

Taken(q, seq, len, room) ==
    LET new == Uncovered(q, seq, len)
    IN  {b \in new : Cardinality({c \in new : c < b}) < room}

\* One descriptor per maximal run of the bytes taken, all into the same mbuf.
Carved(taken, m, seq) ==
    LET Run(a, b) == /\ a <= b /\ a .. b \subseteq taken
                     /\ a - 1 \notin taken /\ b + 1 \notin taken
    IN  {[seq |-> r[1], mbuf |-> m, offset |-> r[1] - seq, len |-> r[2] - r[1] + 1] :
            r \in {p \in taken \X taken : Run(p[1], p[2])}}

\* insert_merged: sorted by seq, adjacent segments stay separate.
Inserted(q, carved) ==
    LET all == Range(q) \cup carved
    IN  [i \in 1 .. Cardinality(all) |->
            CHOOSE s \in all : Cardinality({t \in all : t.seq < s.seq}) = i - 1]

\* Mutant: a drain empties the queue, beyond the gap too.
DrainStepClears(d, s) ==
    [d EXCEPT !.freed = Append(@, s), !.left = @ - s.len]

\* Mutant: a segment that was overtaken is freed, but still counted.
DrainStepUncounted(d, s) ==
    LET skip == d.nxt - s.seq
        take == Lesser(s.len - skip, d.room)
    IN  IF d.nxt < s.seq
        THEN [d EXCEPT !.rest = Append(@, s)]
        ELSE IF EndSeq(s) <= d.nxt \/ take = 0
        THEN [d EXCEPT !.freed = Append(@, s)]
        ELSE [d EXCEPT !.out = Append(@, [mbuf |-> s.mbuf, offset |-> s.offset + skip,
                                         len |-> take]),
                       !.nxt = @ + take, !.room = @ - take, !.left = @ - s.len]

\* ReorderQueue::drain_contiguous_into, one segment.
DrainStep(d, s) ==
    LET skip == d.nxt - s.seq
        take == Lesser(s.len - skip, d.room)
    IN  IF d.nxt < s.seq
        THEN [d EXCEPT !.rest = Append(@, s)]
        ELSE IF EndSeq(s) <= d.nxt \/ take = 0
        THEN [d EXCEPT !.freed = Append(@, s), !.left = @ - s.len]
        ELSE [d EXCEPT !.out = Append(@, [mbuf |-> s.mbuf, offset |-> s.offset + skip,
                                         len |-> take]),
                       !.nxt = @ + take, !.room = @ - take, !.left = @ - s.len]

Drain(q, left, nxt, room) ==
    LET after[k \in 0 .. Len(q)] ==
            IF k = 0 THEN [rest |-> <<>>, out |-> <<>>, freed |-> <<>>,
                           nxt |-> nxt, room |-> room, left |-> left]
            ELSE DrainStep(after[k - 1], q[k])
    IN  after[Len(q)]

-----------------------------------------------------------------------------
\* emit_ack / build_ack_outcome.

\* compute_ws_shift_for
WsShift ==
    IF Scaled THEN CHOOSE w \in 0 .. 14 : /\ RecvBuf < (U16Max + 1) * 2^w
                                          /\ \A v \in 0 .. w - 1 : RecvBuf >= (U16Max + 1) * 2^v
    ELSE 0

\* The window as the peer reads it.
Advertised(free) == Lesser(free \div 2^WsShift, U16Max) * 2^WsShift

\* The SACK blocks, as positions in the queue: the one that holds the trigger
\* first, then from the highest.
Blocks(q, trigger) ==
    LET n     == Len(q)
        first == {i \in DOMAIN q : q[i].seq <= trigger /\ trigger < EndSeq(q[i])}
        k     == CHOOSE i \in first : TRUE
        at(i) == IF first = {} THEN n + 1 - i
                 ELSE IF i = 1 THEN k
                 ELSE IF n + 2 - i > k THEN n + 2 - i ELSE n + 1 - i
    IN  [i \in 1 .. Lesser(n, MaxBlocks) |-> at(i)]

AckOf(nxt, q, trigger, free) ==
    LET b == Blocks(q, trigger)
    IN  [ack |-> nxt, wnd |-> Advertised(free),
         blocks |-> [i \in DOMAIN b |-> [left |-> q[b[i]].seq, right |-> EndSeq(q[b[i]])]]]

Reported(a) == UNION {a.blocks[i].left .. a.blocks[i].right - 1 : i \in DOMAIN a.blocks}

\* The handler's ACK, unless no header mbuf could be had (sent = FALSE).  The
\* trigger stays for the next ACK when this one was not sent.
EmitAck(sent, trigger, free) ==
    IF sent
    THEN /\ ack' = AckOf(rcv_nxt', reorder', trigger, free)
         /\ edge' = Greater(edge, ack'.ack + ack'.wnd)
         /\ sacked' = sacked \cup Reported(ack')
         /\ last_sack_trigger' = None
    ELSE /\ last_sack_trigger' = trigger
         /\ UNCHANGED <<ack, edge, sacked>>

-----------------------------------------------------------------------------

\* EventQueue::push of a sequence of events: at the soft cap the oldest goes,
\* with the references it owns.
Pushed(q, new) ==
    LET all == q \o new
        cut == SatSub(Len(all), SoftCap)
    IN  [kept |-> SubSeq(all, cut + 1, Len(all)), cut |-> SubSeq(all, 1, cut)]

Readable(descs) == [kind |-> "readable", descs |-> descs]
Notice(kind)    == [kind |-> kind, descs |-> <<>>]

OwnedBy(evs) == FlattenSeq([i \in DOMAIN evs |-> evs[i].descs])

\* Handler epilogue: push the events; `pool` is the pool before the push.
Push(new, pool) ==
    LET p == Pushed(events, new)
    IN  /\ events' = p.kept
        /\ events_dropped' = (events_dropped \/ p.cut # <<>>)
        /\ mbuf' = Release(pool, OwnedBy(p.cut))

-----------------------------------------------------------------------------
\* tcp_input for a segment with payload or FIN.

\* in_window, on both ends of the segment.
InWindow(seq, n) ==
    /\ rcv_nxt <= seq
    /\ n > 0 /\ seq + n - 1 < rcv_nxt + RcvWnd

\* Mutant: a frame carved in two is referenced once.
FrameRefsOnce(inOrder, stored) ==
    1 + 1 + inOrder - (IF stored = 0 THEN 1 ELSE 0) - 1

\* The references that a frame's mbuf is left with: the driver's own, the one
\* taken before dispatch, one per in-order descriptor, one per stored
\* descriptor after the first; then the one taken before dispatch is given back
\* if nothing was stored, and the driver's own is freed.
FrameRefs(inOrder, stored) ==
    1 + 1 + inOrder + SatSub(stored, 1) - (IF stored = 0 THEN 1 ELSE 0) - 1

\* The outcome of the payload of a segment: the descriptors to deliver, the
\* receive state after it and the pool.
Received(descs, nxt, q, left, trigger, pool) ==
    [descs |-> descs, nxt |-> nxt, reorder |-> q, left |-> left,
     trigger |-> trigger, pool |-> pool]

Frame(refs, seq) == IF refs = 0 THEN NoMbuf ELSE [refs |-> refs, base |-> seq]

\* A segment without payload, or one whose frame is a chain of mbufs: there is
\* no mbuf to take descriptors into, so the payload is dropped.
Nothing == Received(<<>>, rcv_nxt, reorder, total_bytes, last_sack_trigger, mbuf)

\* seg.seq == rcv_nxt: the payload, then what it makes contiguous.
InOrder(m, seq, len) ==
    LET head == Lesser(len, RecvBuf)
        d    == Drain(reorder, total_bytes, rcv_nxt + head, RecvBuf - head)
    IN  Received(<<[mbuf |-> m, offset |-> 0, len |-> head]>> \o d.out,
                 d.nxt, d.rest, d.left, last_sack_trigger,
                 Release([mbuf EXCEPT ![m] = Frame(FrameRefs(1, 0), seq)], d.freed))

\* rcv_nxt before seg.seq: into the reorder queue.
OutOfOrder(m, seq, len) ==
    LET free   == SatSub(RecvBuf, total_bytes)
        taken  == Taken(reorder, seq, Lesser(len, free), free)
        carved == Carved(taken, m, seq)
    IN  Received(<<>>, rcv_nxt, Inserted(reorder, carved),
                 total_bytes + Cardinality(taken),
                 IF taken # {} THEN seq ELSE last_sack_trigger,
                 [mbuf EXCEPT ![m] = Frame(FrameRefs(0, Cardinality(carved)), seq)])

\* Mutant: a FIN is taken wherever its segment lies.
FinAcceptedAnywhere(seq, delivered, nxt) == TRUE

\* The FIN test, once the payload is processed.  A FIN that fails it is not
\* remembered.
FinAccepted(seq, delivered, nxt) == seq + delivered = nxt

\* handle_established on an in-window segment, and what the engine does with
\* the outcome: state transition, ACK, then deliver_readable.
Accept(m, seq, len, fin, chained, sent) ==
    LET r == IF len = 0 \/ chained THEN Nothing
             ELSE IF seq = rcv_nxt THEN InOrder(m, seq, len)
             ELSE OutOfOrder(m, seq, len)
        delivered == r.nxt - rcv_nxt
        closes    == fin /\ FinAccepted(seq, delivered, r.nxt)
    IN  /\ rcv_nxt' = IF closes THEN r.nxt + 1 ELSE r.nxt
        /\ reorder' = r.reorder
        /\ total_bytes' = r.left
        /\ state' = IF closes THEN "CloseWait" ELSE state
        /\ IF closes \/ len > 0
           THEN EmitAck(sent, r.trigger, SatSub(RecvBuf, delivered + r.left))
           ELSE UNCHANGED <<last_sack_trigger, ack, edge, sacked>>
        /\ Push((IF closes THEN <<Notice("state")>> ELSE <<>>)
                  \o (IF delivered > 0 THEN <<Readable(r.descs)>> ELSE <<>>), r.pool)

\* Outside the window: a challenge ACK and nothing else.
Reject(sent) ==
    /\ UNCHANGED <<state, rcv_nxt, reorder, total_bytes, mbuf, events, events_dropped>>
    /\ EmitAck(sent, last_sack_trigger, SatSub(RecvBuf, total_bytes))

\* A frame of the peer, new or repeated, cut as the peer likes, within what it
\* was offered.  Duplicates, loss and reordering are all choices of seq.
RxSegment(seq, len, fin, chained, sent) ==
    /\ polling
    /\ state = "Established"
    /\ len > 0 \/ fin
    /\ seq + len <= edge
    /\ seq + len <= StreamLen /\ (fin => seq + len = StreamLen)
    /\ \E m \in DOMAIN mbuf :
          /\ mbuf[m] = NoMbuf
          /\ \A n \in 1 .. m - 1 : mbuf[n] # NoMbuf
          /\ IF InWindow(seq, IF fin THEN len + 1 ELSE len)
             THEN Accept(m, seq, len, fin, chained, sent)
             ELSE Reject(sent)
    /\ UNCHANGED <<scratch, polling, got>>

\* A RST: Closed, and the connection leaves the flow table, which drops its
\* reorder queue.
RecvRst ==
    /\ polling
    /\ state # "Closed"
    /\ state' = "Closed"
    /\ reorder' = <<>> /\ total_bytes' = 0 /\ last_sack_trigger' = None
    /\ Push(<<Notice("state"), Notice("closed")>>, Release(mbuf, reorder))
    /\ UNCHANGED <<rcv_nxt, scratch, polling, edge, ack, sacked, got>>

\* poll_once begins: the user's borrowed views end.
PollBegins ==
    /\ ~polling
    /\ polling' = TRUE
    /\ scratch' = <<>>
    /\ mbuf' = Release(mbuf, OwnedBy(scratch))
    /\ UNCHANGED <<conn, events, events_dropped, edge, ack, sacked, got>>

\* Mutant: an event's references go as it leaves the queue.
DrainEventsReleases(max) ==
    LET n == Lesser(max, Len(events))
        out == SubSeq(events, 1, n)
    IN  /\ polling
        /\ polling' = FALSE
        /\ scratch' = scratch \o out
        /\ events' = SubSeq(events, n + 1, Len(events))
        /\ got' = got \o Contents(mbuf, OwnedBy(out))
        /\ mbuf' = Release(mbuf, OwnedBy(out))
        /\ UNCHANGED <<conn, events_dropped, edge, ack, sacked>>

\* drain_events, at the end of dpdk_net_poll: the user gets up to `max` events.
DrainEvents(max) ==
    LET n == Lesser(max, Len(events))
        out == SubSeq(events, 1, n)
    IN  /\ polling
        /\ polling' = FALSE
        /\ scratch' = scratch \o out
        /\ events' = SubSeq(events, n + 1, Len(events))
        /\ got' = got \o Contents(mbuf, OwnedBy(out))
        /\ UNCHANGED <<conn, mbuf, events_dropped, edge, ack, sacked>>

Init ==
    /\ state = "Established"
    /\ rcv_nxt = 0
    /\ reorder = <<>> /\ total_bytes = 0 /\ last_sack_trigger = None
    /\ mbuf = [m \in 1 .. Mbufs |-> NoMbuf]
    /\ events = <<>> /\ events_dropped = FALSE
    /\ scratch = <<>>
    /\ polling = FALSE
    /\ ack = AckOf(0, <<>>, None, RecvBuf)
    /\ edge = ack.wnd
    /\ sacked = {} /\ got = <<>>

Next ==
    \/ \E seq \in 0 .. StreamLen, len \in 0 .. MaxLen, fin \in BOOLEAN,
          chained \in {FALSE, Chains}, sent \in BOOLEAN :
             RxSegment(seq, len, fin, chained, sent)
    \/ RecvRst
    \/ PollBegins
    \/ \E max \in 0 .. MaxEvents : DrainEvents(max)

Spec == Init /\ [][Next]_vars

-----------------------------------------------------------------------------
\* The reorder queue: sorted, disjoint, beyond rcv_nxt, each segment showing
\* exactly the bytes it stands for, the byte counter exact and within the cap.
ReorderShape ==
    /\ \A i \in DOMAIN reorder :
          /\ reorder[i].seq > rcv_nxt
          /\ i > 1 => EndSeq(reorder[i - 1]) <= reorder[i].seq
          /\ mbuf[reorder[i].mbuf].base + reorder[i].offset = reorder[i].seq
    /\ total_bytes = Cardinality({b \in 0 .. StreamLen : Holds(reorder, b)})
    /\ total_bytes <= RecvBuf

\* Every mbuf has exactly one reference per descriptor that shows it, in the
\* reorder queue, in an undelivered event or in the user's hands: none is
\* freed early, none leaks.
RefsExact ==
    LET all == reorder \o OwnedBy(events) \o OwnedBy(scratch)
    IN  \A m \in DOMAIN mbuf :
            mbuf[m].refs = Cardinality({i \in DOMAIN all : all[i].mbuf = m})

\* The views lent to the user keep showing the same bytes until the next poll,
\* whatever happens to the connection in between.
ViewStable ==
    LET view == Contents(mbuf, OwnedBy(scratch))
    IN  /\ Len(view) <= Len(got)
        /\ view = SubSeq(got, Len(got) - Len(view) + 1, Len(got))

\* A byte once reported in a SACK block is never discarded.
NoRenege ==
    state = "Established" => \A b \in sacked : b < rcv_nxt \/ Holds(reorder, b)

Stream == INSTANCE ByteStream WITH
            arrived <- IF rcv_nxt > StreamLen THEN StreamLen ELSE rcv_nxt,
            read <- got,
            ended <- state = "CloseWait" \/ (state = "Closed" /\ rcv_nxt > StreamLen),
            lost <- events_dropped

\* The receive path implements the byte stream, with losses only where the
\* event queue reports them.
Implements == Stream!Spec

-----------------------------------------------------------------------------
\* Statements of docs/superpowers/specs/2026-04-17-dpdk-tcp-design.md that the
\* code does not keep.

\* :444 "We keep the ingress seq-window check at initial capacity
\* (`recv_buffer_bytes`, default 256 KiB) so we accept everything the peer
\* sends": what the last ACK offered is inside the window that is checked.
AcceptsWhatItOffers ==
    state = "Established" => \A b \in ack.ack .. ack.ack + ack.wnd - 1 :
                                 b >= rcv_nxt => InWindow(b, 1)
=============================================================================
