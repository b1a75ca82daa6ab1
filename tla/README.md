# TLA+ models of resd.dpdk_tcp

A verification project for the user-space TCP stack in `crates/dpdk-net-core`, its
C ABI in `crates/dpdk-net`, and the measurement tools under `tools/` that drive it.
The modules model the control of the code (every state change, guard, early return
and their order), and abstract the data: bytes are positions in the stream, segments
carry ranges, a frame is its classification, time is a choice unless a property is
about it.

## 1. The system

One `Engine` owns one port, one lcore and everything on it: there are no threads
inside it and no locks. The user calls `dpdk_net_poll` in a loop and, between polls,
the other functions of the API. What is concurrent is the peer, the network, the
clock, the NIC's mempools and the user, each of which acts between any two steps
of the engine; several engines may live on several threads of one process.
`poll_once` runs in a fixed order: release of the last poll's events, received
frames, the batch of fired timers, TIME_WAIT reaping, flush of the TX ring;
`drain_events` then hands events to the user.

| component | state | operations | interacts with |
|---|---|---|---|
| timer wheel (`tcp_timer_wheel.rs`) | slots with generations, buckets, cursors, free list, `last_tick` | add, cancel, advance, cascade | all timers of connections, public timers |
| send path (`engine.rs` send_bytes, on_rto_fire, on_tlp_fire, retransmit; `tcp_retrans.rs`, `tcp_rack.rs`, `tcp_input.rs`) | snd_una, snd_nxt, snd_wnd, retransmission queue, RTO and TLP timers, refused flag | send, ACK processing, RTO, TLP, close | wheel, mempools, event queue, peer |
| loss state (`tcp_sack.rs`, `tcp_rtt.rs`, `tcp_rack.rs`, `tcp_tlp.rs`, `tcp_options.rs`) | scoreboard, estimator, RACK's times, ts_recent, recent probes | insert, prune, sample, back off, mark, probe, PAWS | send path, both clocks |
| receive path (`tcp_input.rs`, `tcp_reassembly.rs`, `tcp_events.rs`, `mempool.rs`) | rcv_nxt, reorder queue, mbuf references, event queue, drained events | segment processing, ACK and SACK emission, delivery, drain | RX mempool, user's borrowed views |
| connections (`flow_table.rs`, `engine.rs` connect, close, force_close, reap) | slots, tuple index, per-connection timer ids, state | connect, SYN retransmission, handshake, close, removal, reuse | wheel, event queue, user's handles |
| passive open (`test_server.rs`, `handle_syn_received`) | listen slots | listen, SYN-ACK, accept | flow table, timers |
| TX batch ring (`tx_pending_data`) | mbufs waiting for the next burst | push, drain, flush | send path, retransmission, driver |
| frame reception (`engine.rs` dispatch, `l2.rs`, `l3_ip.rs`, `arp.rs`, `icmp.rs`) | gateway MAC, path MTUs, local addresses, drop counters | decode, demultiplex, learn | driver, connections |
| fault injector (`fault_injector.rs`) | a ring of held packets | drop, corrupt, duplicate, hold back | frame reception |
| engine life (`engine.rs` new and Drop, `mempool.rs`, `llq_verify.rs`, `ena_xstats.rs`) | EAL verdict, pools, port, thread's counters pointer | initialise, build, fail, scrape, drop | every owner of an mbuf |
| bench-vs-mtcp | connections and sockets of a bucket, samples | open, warm up, pump, report, close | engine, kernel, F-Stack |
| bench-e2e, ab-runner, vs-linux, stress, layer-h | scenario, qdisc on the peer, carried bytes, verdicts | select, apply, connect, request, observe, judge | engine, peer over ssh |
| ISS, counters, bindings, report tools, runners | | | |

What is hard here is not threads but sequences: an ACK between a send and a timer,
a close with data in flight, a removal in the middle of a batch of timers, an mbuf
that five places refer to, a slot or a handle that is reused, a poll that comes
late, a step of a set-up that fails after others have published something.
`PROJECT.json` lists these hazards at the lines where they bite.

For each component, correct means:

* **wheel**: a timer has exactly one outcome, is never lost, is at most one tick late
  by the wheel's own time, and is not early beyond the wheel's lag;
* **send path**: nothing unacknowledged is ever without a queue entry and a running
  RTO; the peer's window is kept; mbuf references match; a failure is declared only
  with data outstanding; a refused sender hears again;
* **loss state**: the sender believes delivered only what the peer holds; its samples
  are round trips that happened; its estimate stays among them;
* **receive path**: the user sees the peer's stream; references are exact; views stay
  valid; a byte once SACKed is not discarded; FIN comes last;
* **connections and passive open**: table and index agree, no timer survives its
  connection, the life of a connection is told completely and once, every handshake
  resolves, and a listener is never wedged by one that failed;
* **TX ring**: an mbuf is in a burst once, whole, and has a reference for it;
* **frame reception and injector**: every frame is freed and counted once, damage does
  not get past a checksum, and what is learned is what arrived, where nothing damaged it;
* **engine life**: pools outlive mbufs, and nothing points to an engine that is gone;
* **tools**: a number or a verdict says what happened, and what was set up is undone.

## 2. The modules

### `TimerWheel`, `TimerWheelProofs`
`wheel` is the `TimerWheel` struct (slots, generations, free list, buckets, cursors,
last_tick); `now` is the clock. `PublicTimerAdd`, `PublicTimerCancel` and
`AdvanceTimerWheel` are the engine's functions; `Add`, `Cancel`, `Advance`, `TickOnce`,
`Cascade`, `CascadeLevel`, `Rehash` and `LevelAndBucketOffset` are those of the wheel.
The ids users hold are kept for ever, so a stale cancel is tried against every
later state of its slot. `TICK`, `LEVELS` and `BUCKETS` are parameters (10 µs, 8, 256).

### `SendPath`, `SendPathProofs`
One connection from ESTABLISHED to removal, the frames it has ever transmitted
(`wire`), a peer with a finite buffer, and the segments on their way back (`acks`).
A frame of `wire` may be delivered any number of times and in any order, or never;
an ACK may be lost or delivered again. `SendBytes`, `CloseConn`, `TcpInput` (with
`HandleEstablished`, `HandleClosePath`, `AnswerOnly`), `RecvRst`, `ReapTimeWait`,
`OnRtoFire` and `OnTlpFire` are the handlers. `TcpInput` is the whole of the engine's
`tcp_input` for that segment: RACK retransmissions, then the prune, then the timers,
then `arm_tlp_pto`. Mempool exhaustion is a choice of how many segments, or which
retransmissions, are allocated. What depends on clocks is a choice too: which of
the eligible entries RACK finds old enough, when a timer fires, whether an RTT sample
was taken (bounded by Karn's rule as the code applies it).

### `LossState`, with `RttEstimator` and `TcpOptions`; `LossStateProofs`
What `SendPath` leaves open: here the clock runs, sequence numbers and timestamps are
taken modulo `Space`, and ACKs travel as the bytes that `TcpOptions` encodes and parses
(fast path and general loop). `RxAck` is `handle_established` up to the scoreboard, PAWS,
sampling, RACK, the marking of lost entries and the new deadlines; `OnRtoFire` and
`OnTlpFire` are the timers. `RttEstimator` is `tcp_rtt.rs` in integers. The peer is
external and well behaved: it SACKs what it has, repeats DSACK blocks and echoes the
timestamp of the segment that moved its left edge. The loops (the blocks of an ACK, the
collapse of the board, the pruning of board and queue, the parser) are recursive functions
of the position, so that they can be proved about. The handshake may have given a first
sample (`Seeded`, one of `SynRtts`) or none; until there is one a DSACK is attributed to a
probe within the code's 4 s (4 * `ColdSrtt`). Segments are one byte, so that a block never
covers an entry in part (section 4), and a retransmission always finds its mbuf (that it may
not is in `SendPath`).

### `RecvPath` and `ByteStream`, `RecvPathProofs`
One connection's receive side with the pool of mbufs, their reference counts and
contents, the event queue with its soft cap, and `scratch`, the events the user may
still read. The peer sends any segment of its stream within what it was offered;
loss, duplication, reordering and repacketisation are choices of range. `Accept` is
`handle_established` with the engine's epilogue (transition, ACK, `deliver_readable`,
event push); `Carved`, `Inserted`, `DrainStep` are the reorder queue's algorithms.
`ByteStream` is what the component promises: a prefix of the stream grows, what is
handed to the user is its next part, and the end is accepted only after the last
byte. `RecvPath!Implements` maps rcv_nxt, the bytes delivered and CLOSE_WAIT to it;
once the soft cap has dropped an event, order is still promised and completeness is
not, for the code counts and accepts that loss.

### `Connections` and `PassiveOpen`, `PassiveOpenProofs`
`Connections`: the flow table, the timers of all connections and the batch of fired
ones, the events of a connection's life and the handles. `phase` is the position in
`poll_once`: user calls happen between polls only, and a timer's handler runs once per
timer of the batch. A timer is its id; the wheel's promise that ids are not confused is
`TimerWheel`'s `OneOutcome`. Whether a probe is armed and whether the retransmission
budget is spent are free here: `SendPath` decides them. `PassiveOpen` extends it with
the test server: `Listen`, `AcceptNext`, `InboundSyn`, and what a connection in
SYN_RECEIVED does on an RST, a bad ACK, a repeated SYN, the final ACK and its timer.
Both share the table, so active and passive connections compete for slots.

### `TxRing`, `TxRingProofs`
The ring, the retransmission queue's mbufs, the driver and the two pools. `SendSegment`,
`Retransmit` (flush first, strip the headers, chain a header mbuf), `Flush`, `SendControl`
(ACK, SYN, FIN and RST go past the ring), `Prune`, and `TxComplete`, the NIC's. A burst is
taken in part or in full. A TAP port transmits inside the burst, a NIC keeps the frame.

### `RxDispatch`, `RxDispatchProofs`
`PollOnce` receives a burst, `DispatchOneRxMbuf` is the fault injector, and
`DispatchOneRealMbuf` the decoders with every counter they bump; `InjectRx` is the test
interface, `DropInjector` the end. A frame is a record of what the decoders look at: its
type, the checks it fails (the order in which they are made decides the counter), the
NIC's verdict (none, good, the IP header's or only TCP's checksum bad), and for ARP and ICMP
the fields that teach. Two checks fail at once in several frames so that the order matters.

`Flips` is what the injector's flipped byte makes of a frame. In an IP header or a TCP segment
a checksum is wrong then. ARP has none and `icmp_input` verifies none, so there the flipped byte
is the sender, target, operation or MAC address of an ARP frame (`ArpFlips`), or the MTU or
address in an ICMP frame (`Ipv4Flips`), and the engine learns from it; or the frame fails to
decode. The history variables `arrived`, `told` and `misled` keep what the teaching frames said
on arrival, the MTUs that were read, and whether a damaged frame taught something. A SYN that
finds no connection but a listen slot (feature test-server) is counted and may make one
(what becomes of it is `PassiveOpen`). An injection that fails half-way gives back the mbufs it
took (`CleanedUp`).

### `EngineLife`, `EngineLifeProofs`
Two engines, two threads, one port: `EalInit`, `EngineCreate` and `NewStep` through the
steps of `Engine::new`, `NewFails` at each of them, `EngineDestroy` and `DropStep` in the order
of Drop and of the fields, with the owners of mbufs (`held`) filled and emptied at any
time in between. Programming the RSS table is no step that fails: it logs what the driver
refuses and returns Ok. The counters pointer is per thread. Offload masking, latches, the
LLQ verdict and the scraping of statistics are part of the state.

### `BenchGrid`
`bench-vs-mtcp`: `Main` to `EndGrid`, a bucket at a time. The steps of the dpdk_net,
kernel, F-Stack and mTCP arms are separate actions because they differ in what they
check, count and give back. `ghost` keeps the truth that the rows are compared with.

### `Campaign`
The closed-loop tools. `Main*` are the five `main` functions up to the first connection,
with the preconditions (`ParsePreconditionsJson`: a check that is absent counts as
passed); `ApplyNetem` and `Dropped` the qdisc guard, whose ssh calls may fail before or
after tc ran; `OpenConnection`, `SendPhase`, `RecvPhase` and `Sampled` the shared loop;
`ObserveBatch` and `FinalObserve` layer-h's observation; `Socket*` the kernel and
F-Stack stacks of bench-vs-linux. The engine is its promise to the tools: bytes come
back, a connection may leave ESTABLISHED or end, and a timeout reports two events, of
which the tools read one. One scenario matrix serves both sweeps. Left out: the
relation "<=N", the wording of reports and the ring of recent events in the failure
bundle. A connection of an earlier scenario ends during a workload's poll.

## 3. What the runs check

| run | checks | distinct states |
|---|---|---|
| `timer_wheel` | `SlotAccounting` (each slot is free or in one bucket, once), `OneOutcome`, `NeverOverdue`, `AtMostATickEarly` (for timers added while the wheel was level with the clock) | 946,162 |
| `send_path` | `FlightTiled`, `RtoCoversFlight`, `RefsMatch`, `WindowRespected`, `TimeoutIsForUnackedData` | 787,422 |
| `send_path_live` | `FlightResolves`, `RefusalResolves` | 82,030 |
| `recv_path` | `ReorderShape`, `RefsExact`, `ViewStable`, `NoRenege`, and the refinement `Implements` | 363,190 |
| `passive_open` | `TableConsistent`, `TimersOwned`, `WaitIsTimed`, `OneEnd`, `ListenSlotSound`, `HandshakeResolves` | 360,349 |
| `tx_ring` | `RefsExact`, `BurstSound` | 32,722 |
| `rx_dispatch` | `FrameRefsExact`, `FramesAccounted`, `DamageContained`, `LearnedSound` | 3,790,682 |
| `engine_life` | `PoolsOutliveMbufs`, `CountersPtrSound` | 857,951 |
| `loss_state` | `BoardTrue`, `NewestPasses`, `EstimateSound`, `SamplesReal` | 334,416 |
| `bench_grid` | `ReportTrue`, `SocketsReturned`, `GridFinishes` | 54,879 |
| `campaign` | `EchoTrue`, `NetemContained`, `VerdictTrue` | 1,281,853 |
| `zero_window` | expects a violation of `ZeroWindowRecovers`, section 4 | |

Each property is stated in words above its definition. For each there is a mutant, an
operator beside the one it replaces, that changes the code the way a plausible bug
would; TLC finds the property violated with it.

### Bounds
* `timer_wheel`: 2 levels of 3 buckets and two timers; the clock passes the second
  turn of the upper level, gaps of 15 make the tick cap (levels x buckets) bite, and
  delays cover level 0, the level boundary, the upper level and beyond the horizon.
* `send_path`: segments of 1 byte, 3 bytes, a send buffer and a peer buffer of 2, budget
  of 2 retransmissions, one probe. That is enough for a partial ACK, a hole in the
  middle, a closed window, both kinds of exhaustion and a spent budget. Transmission
  counts are capped at `XmitCap`, above the budget; one ACK is in flight at a time, but
  it may be delivered again after any number of steps.
* `recv_path`: a stream of 6 bytes in segments of up to 3, a buffer of 5, three mbufs, two
  queued events. A frame can be carved in two, span two queued segments, be cut
  by the cap, and events can be dropped. `Chains` is FALSE: section 4.
* `passive_open`: two slots, one active and one passive tuple, two connections ever, one
  retransmission of SYN or SYN-ACK. A slot is reused, a table is full, a listener is
  refused while its slot is busy, and a SYN-ACK cannot be sent.
* `tx_ring`: three data and two header mbufs and a ring of two, so that a push flushes, a
  retransmission finds its first transmission in the ring, and both pools run out.
* `rx_dispatch`: two frames of ten kinds, three mbufs, a reorder ring of one: a second
  held packet evicts the first; a chain of two that is held leaves one mbuf, so that an
  injected chain fails at its second segment; another frame has no room in its mbuf. A flipped MTU is one of `FlipMtus`, 0 (ignored) or
  one above that of the frames; a flipped address is any of the three.
* `engine_life`: two engines, two threads, one port, two kinds of driver; the same thread may
  build both, one after the other has failed at any step.
* `loss_state`: three segments, a space of 128 in which the first sequence number is two
  below the wrap and both clocks wrap within the run, two packets on the way each
  direction, a scoreboard of two blocks. The clock has a grain of 8, the unit in which the
  estimator's shifts show. The handshake gave no sample or one of half a grain. It ends at `MaxNow`, hence no deadlock check.
* `bench_grid`: one and two connections, a window of 2 in a sequence space of 3, so that
  snd_una wraps between samples; a burst of 3 that a window cannot hold; windows of
  three rounds, timeouts of two.
* `campaign`: requests and responses of one or two bytes, two passes to a deadline, up to
  three scenarios of five kinds in a sweep, four slots, and 25 command lines that
  differ in what the tools do.

### Fairness
The API requires the user to poll in a loop, so `poll_once` runs to its end again and
again, and the clock advances: an armed timer eventually fires. That is all `FairSpec`
states in `SendPath` (the RTO fires) and `PFairSpec` in `PassiveOpen` (polls begin, a
batch is worked off, the SYN timer is eventually among the due). Strong fairness is used
for the SYN timer because the poll that finds it due is enabled only in one phase of
each poll. A passive connection whose SYN-ACK could not be sent has no timer and is
excluded from `HandshakeResolves` (`unsent`, section 4). In `send_path_live`
retransmission headers can be allocated: with `tx_hdr_mempool` empty for
ever the code retries for ever. Of the network nothing is assumed there. `FairNetSpec` is the
strongest assumption about network and peer (what is sent again and again gets
through; the application reads), and is used only to show that a property fails even
then. `BenchGrid` is a running thread: weak fairness of its next step.

## 4. Where code and documents disagree

`D` is `docs/superpowers/specs/2026-04-17-dpdk-tcp-design.md`. The first is a run, `zero_window`;
the next six can be seen by adding the named definition (or constant) to the cfg of the
run in the last column. They are stated in the modules and are in no run.

| the code | the document | to see it |
|---|---|---|
| `tcp_input.rs:1015` ignores the window of an ACK that does not advance snd_una, and there is no window probe: after a zero window the sender waits for ever | `D:940` WRITABLE "fires within 1 RTT of window open" | run `zero_window` |
| `tcp_timer_wheel.rs:117` places a timer relative to the wheel's position but computes its delay from the clock: while a poll is late the timer fires early by the lag | `dpdk-net/src/lib.rs:1092` "Rounded up to the next 10 µs wheel tick" | `NeverATickEarly`, `TimerWheel.cfg` |
| `tcp_input.rs:1630` advances snd_una after close without pruning: acknowledged data is retransmitted until ETIMEDOUT | `D:479` "with no ACK progress" | `TimeoutNeedsUnackedData`, `SendPath.cfg` |
| `engine.rs:4883`: removal by RST, LAST_ACK or reaping frees none of the queue's mbufs | `D:476` "holds an mbuf refcount until ACK or RST" | `RefsEndWithConnection`, `SendPath.cfg` |
| `tcp_conn.rs:380`: the window check is clamped to 65535, the advertised window is scaled | `D:444` "we accept everything the peer sends" | `AcceptsWhatItOffers` with `U16Max = 3`, `RecvPath.cfg` |
| `tcp_input.rs:1446`: payload of a multi-mbuf frame is dropped, its FIN accepted (release builds; debug builds assert) | `tcp_input.rs:1440` FIN "once all preceding data bytes have been accepted" | `Implements` with `Chains = TRUE`, `RecvPath.cfg` |
| `engine.rs` Engine::new: a step that fails after rte_eth_dev_start leaves the port running on a pool that is freed | `mempool.rs` Mempool::drop "no other references should exist" | `PoolFreedLast`, `EngineLife.cfg` |

Read while modelling, kept in the models where a module has the part, and not checked:

* **Connections.** `flow_table.rs:131` reuses the lowest slot at once and handles carry no
  generation, though `dpdk-net/src/lib.rs:740` says stale handles are refused. The FIN is
  sent once, never retransmitted, and no timer guards FIN_WAIT_1, FIN_WAIT_2 or LAST_ACK
  (`engine.rs:5939`). Any segment without SYN in SYN_SENT ends the connect
  (`tcp_input.rs:556`); close in SYN_SENT does nothing (`engine.rs:5960`). A SYN-ACK that cannot be
  sent leaves SYN_RECEIVED without a timer until the peer repeats its SYN
  (`engine.rs:7261`); the accept queue keeps the handle of a connection that has ended
  (`test_server.rs:24`).
* **Sending.** The budget counts the transmissions of whatever entry is in front, not of
  one segment (`engine.rs:3270`). A front entry that was marked lost and whose retransmission
  found no header mbuf is skipped by the RTO from then on (`tcp_rack.rs:98`). A TLP timeout
  is not capped by the RTO, SACK blocks are not checked against snd_una and snd_nxt,
  `mark_sacked` marks entries that a block covers in part, RACK has no test for
  retransmission ambiguity, and a repeated SACK block is counted as a DSACK in
  `tx_tlp_spurious` (`D:683`). The timestamp clock counts µs, so a peer is half a
  space behind after 36 minutes of silence, long before the 24 days after which
  PAWS expires. A NIC may still have the first transmission of a segment when
  retransmit strips its headers (`engine.rs:6395`, "our refcount of 1 is exclusive").
* **Receiving.** Adjacent segments of the reorder queue are never merged and take a SACK block
  each (`tcp_reassembly.rs:262`). A window that reopens because the user's events were
  released is not announced. Segments to a secondary local address are dropped at IP
  (`l3_ip.rs:118`), though a connection may be opened from it (`engine.rs:500`). Path MTUs
  are learned and consulted nowhere (`D:420`). `eth.rx_drop_nomem` is never incremented, so
  the event of `engine.rs:2862` is never raised (`D:498`). With RX checksum offload, bytes
  that the injector flips after the NIC's verdict are not noticed (`DamageContained`
  says exactly when); in ARP and ICMP frames they are never noticed, since `arp_decode` has no
  checksum to look at and `icmp_input` verifies none (`icmp.rs:58`), so that a damaged MAC address
  or MTU is learned. A held packet of the injector leaves only when its ring is full.
* **Life of engines.** `mempool.rs:12` says the counters pointer is null iff no engine is
  bound on the thread: with two engines the drop of one clears it for both. The LLQ verdict
  of an `eal_init` that failed is kept for the next one.
* **Tools.** A connection that times out reports Error, then Closed; the tools stop
  at the first, the slot is reused, and the next scenario reads the Closed event as
  its own, though `bench-stress/src/main.rs:398` says state does not leak across
  scenarios (`VerdictTrue` bounds it: only after a failed scenario). "No cleanup is
  attempted because no qdisc was installed" (`netem.rs:88`) is false when ssh breaks after tc
  ran. The fault-injector variable is set for the whole process when one selected
  scenario has a spec (`bench-stress/src/main.rs:28` says otherwise). In layer-h the
  workload drains the StateChange events before `observe_batch` could replay them
  (`workload.rs:127`), and a failed warm-up loses the verdicts so far. A precondition that is
  absent from the JSON counts as passed, in strict mode too. In bench-vs-mtcp a lost
  connection makes `wrapping_sub` add 2^32 minus the last value, which
  `dpdk_maxtp.rs:598` calls "a benign under-count"; connections opened before one that
  fails to open are not closed; the burst sanity check fails whenever there was a
  warm-up; and `--stacks fstack --workload burst` divides by a TSC frequency of 0.

## 5. What is proved

`SendPathProofs` proves with TLAPS, for every value of the constants allowed by the
assumptions in `SendPath` (naturals for sizes, budgets and bounds, MSS positive,
Booleans for options):

* `TypeCorrect`: `Spec => []TypeOK`
* `FlightIsTiled`, `RtoIsArmed`, `RefsAreMatched`, `WindowIsRespected`: the safety
  invariants of the run `send_path`, and `NothingIsLeftBehind`: an armed RTO has something
  to retransmit
* `TimeoutIsJustified`: the action property `TimeoutIsForUnackedData`

None of the invariants is inductive alone. `IInv` conjoins `TypeOK`, `QueueInv` (the entries
tile a range that ends where the data ends and starts at or below snd_una, every
entry non-empty), `FinInv` (our FIN lies at the end of the data, and only the states
after close have one), `RtoCoversFlight`, `NothingLeftBehind`, `RefsMatch` and `EdgeInv`. The last
relates what is in the sender's hands to the peer: every window in flight or taken over
lies below the peer's present edge, because the edge only grows; without it
`WindowRespected` is not preserved by an old ACK that arrives late. `QueueInv` is what makes
the prune sound: the cut removes a prefix of a tiled range, so the rest is tiled again.
The proof has one lemma per action, and under it one step per conjunct that the action
can disturb; retransmission and SACK marking touch neither `seq` nor `len`, which one
lemma states for all of them. `Invariant` combines them.

`LossStateProofs` proves the four invariants of the run `loss_state`, for every place of the
wrap, clock, grain, size of the scoreboard and of the network. `LossParams` assumes that the
space fits 32 bits and that fewer segments than half of it are sent: beyond that `seq_lt` does
not order the bytes. `OptionsRoundTrip` comes first, since the ACKs of the model are bytes:
what `parse_options` returns of an encoded option list are its timestamps and SACK
blocks, by the fast path or by the loop (`ParseEnds` shows that the parser, a function defined
from the end of the buffer backwards, exists, and `ParseIs` that it is the one). `WrapOrder` is
the arithmetic of `tcp_seq.rs`: on numbers less than half the space apart the comparison by
signed difference is the order before they wrapped. `BoardInvariant` and `SampleInvariant`
are read off `LInv`: every block of the scoreboard is a span of segments that the peer holds
(`TrueBlocks`), every entry of the queue has the number of a segment that was sent and is marked
only if the peer holds it, snd_una has everything below it at the peer (`Believes`); and,
without which none of it is inductive, all of this is true of every ACK that is still under way
(`TrueAck`), whatever its age, because the peer never gives a segment up. The argument follows
`handle_established`: merging blocks that touch leaves no gap (`UnionTrue`, `CollapseTrue`), a full
board drops a block and never invents one (`BoardInsertTrue`), pruning cuts a block within
itself (`BoardPruneTrue`); each SACK block of an ACK keeps the connection in `Sacking`, and
`AckTaken` carries `Through` over the rest. A sample is at most the age of the timestamp it
comes from, which is not before the first tick (`SampleReal`). `PawsInvariant` needs one
hypothesis more, that the connection lives for less than half a period of the peer's clock:
the network of the model may delay an ACK for as long as the connection lives, and one that
is older than half a period would be taken for new and leave a TS.Recent from the future.
`PInv` says that TS.Recent and all ACKs under way carry timestamps not younger than the last one
that the peer has sent.

`EstimateInvariant` of the same module is `Spec => []EstimateSound`, for all bounds of the timeout with
0 < MinRto <= InitialRto <= MaxRto (`RtoBounds`; a release build refuses only MinRto > MaxRto, the
rest are debug assertions of `RttEstimator::new`). `SmoothedBetween` is the arithmetic: with
srtt and the sample both in lo .. hi, `srtt - srtt \div 8 + rtt \div 8` stays in lo .. hi,
although each shift rounds by itself. `EstimatorSteps` shows that every step leaves the
estimator alone, backs it off, or gives it one positive sample, and `EstInv` adds the
shape of the estimator.

`TimerWheelProofs` proves the four invariants of the run `timer_wheel` for every tick,
number of buckets, set of delays and gaps, and for two levels or more (`WheelShape`; the
code has 8: with a single level a delay beyond the span would be clamped into the level
whose visit fires the timer). `SlotsAreAccounted`, `TimersHaveOneOutcome`,
`TimersAreNeverOverdue` and `TimersAreHardlyEarly` are read off `Invariance`. Its invariant
has two halves. `Acc` keeps the books: every live slot is queued exactly once, every other
is on the free list exactly once; inside a step a set X of slots is in hand, which is what
lets one invariant go through the loops that drain a bucket slot by slot. `Sched` keeps the
time: P[l] counts the steps that the cursor of level l has made, the cursor is P[l] modulo
BUCKETS, and each queued slot has a later step m of its cursor that lands on its bucket and
is a right time to visit it (`RightVisit`): not past its due tick at level 0, not past its
deadline at the levels where it is re-hashed. `Linked` says that the cursor of each level
moves exactly when the one below it has turned once, so that P[l] follows the wheel's time.
`HashIsTimely` is the heart of it: the bucket that `LevelAndBucketOffset` picks is visited
neither too late nor, for a timer that was added with the wheel level with the clock, more
than a tick early. The terms of a slot (`Terms`: its deadline, due tick and
whether it was caught up) are hidden in the invariant by a quantifier and tied to the
history `issued` by `Known`. The loops of `Advance`, `Cascade` and `RehashAll` are
recursive functions; `Iterates` shows that such a function exists and `UpTo`, from the
well-foundedness of the naturals, is the induction over its steps.

`PassiveOpenProofs` proves the five safety invariants of the run `passive_open` for every
number of slots, retries and connections and every set of tuples, ports and peers. Beyond
`TableConsistent` and `ListenSlotSound` the inductive invariant needs `TimerInv` (the ids a
connection notes are exactly its timers in wheel and batch, a timer in the wheel has a live
owner, and the batch is empty outside its phase) and `LifeInv` (the events told of a connection
follow from its state, and two slots never share a connection). The wheel is a finite
set of ids because a fresh id has to exist for each timer that is armed.

`TxRingProofs` proves `RefsExact` and `BurstSound` for every pair of disjoint pools without the
marker `NoMbuf` and every size of the ring. `StOK` is the invariant of the record that the
steps pass on: a count is the number of frames of ring and driver that hold the mbuf plus
the references held outside, by the retransmission queue or by the step that is under way;
this second term is what makes each half of a step provable by itself.

`RxDispatchProofs` proves the four invariants of the run `rx_dispatch`, for every pool, burst, ring and set of frames that arrive undamaged
(`RxDispatchParams`: only the injector damages a frame). `Known` adds that a
packet under way has a frame for content; `FramesAccounted` is inductive with it, because each
branch of the decoders ends in exactly one counter of its layer. `LearnedSound` needs `GInv`:
every frame in an mbuf, wherever the packet is, either is damaged or teaches only what a frame
in `arrived` said (`Genuine`), which a flip outside the body keeps because it adds failed checks
only. For the path MTU `LeastTold` shows that the update keeps the least of the floored values.

`EngineLifeProofs` proves `PoolsOutliveMbufs` and `CountersPtrSound` for any number of engines,
threads, ports and drivers. `LifeOK` says of an engine in Drop that the steps still to come
are distinct and `Ordered`: the step that clears an owner comes before the one that frees
its pool, and the unbinding before the counters. `PtrOK` places a thread's pointer between
the two steps that set and clear it.

`RecvPathProofs` proves the four invariants of the run `recv_path` and that the receive path
implements `ByteStream`, for every buffer, window scale, soft cap, number of mbufs and of SACK
blocks, stream and cut of it into frames (`RecvPathParams`: only naturals, positive where a size
is). `Invariance` is the induction. Its invariant `Inv` says of the reorder queue more than
`ReorderShape` does: each segment ends within the stream and within the window from rcv_nxt
(`QueueOf`), which is why the room left after the head of an in-order segment is enough for
everything the drain makes contiguous, and why the cap is never exceeded. `RefsInv` counts the
references by their three owners, `StreamInv` says that the bytes the user has, followed by those
the queued events show through their mbufs, ascend below rcv_nxt and are all of the stream as long
as no event was dropped; it is what makes `got` right at the next `drain_events`, long after
the frame was received. `LentInv` (nothing is lent while a poll runs) keeps the views out of
the handlers' way. The argument follows the code: `CarvedFacts` and `InsertedFacts` are what
insert does with a frame cut by the segments already queued, `DrainFacts` what
drain_contiguous_into returns (the segments beyond the gap, every reference either kept, handed
out or freed, exactly the bytes up to the new rcv_nxt), `PushFacts` what the soft cap cuts off,
`ReleaseExact` that a release leaves the count of the others. `Outcome` is the contract of the
three ways in which a payload is taken (`NothingOutcome`, `InOrderOutcome`, `OutOfOrderOutcome`), and
`ArrivesInv` needs only that contract. `ReorderQueueIsSound` has the condition `Trusted`: with a
chain of mbufs the FIN of a frame is accepted although its payload was dropped (section 4), and
after that rcv_nxt points into the stream. `ReorderQueueIsSoundUnchained` and
`ByteStreamIsImplemented` therefore assume `~Chains`; references, views and SACK promises are
proved with chains too. The refinement goes step by step: an accepted segment and a RST are
an `Arrive`, `drain_events` a `Deliver`, all else leaves the stream alone.

Only model-checked: liveness (`FlightResolves`, `RefusalResolves`, `HandshakeResolves`,
`GridFinishes`: out of reach of TLAPS here), and the tools (`BenchGrid`, `Campaign`): every
safety invariant that a run checks of the stack itself has a theorem.

## 6. Not modelled

* ISS generation: a keyed hash whose property is statistical.
* Building headers and checksums (`tcp_output.rs`), the RTT histogram, counters that no
  control flow reads, argument checks and struct layout of the C ABI, the generated
  bindings.
* bench-vs-linux mode wire-diff and the report, ablation and micro-benchmark drivers:
  sequential conversions of files. The conformance and fuzz runners replay scripts of
  other projects.
* `StateChange`, loss and ENOMEM events are left out of the event queues, except that
  layer-h is shown not to see them.
* Sequence numbers start at 0 and do not wrap in `SendPath` and `RecvPath`; `LossState` has
  the wrap for the sender's comparisons, `BenchGrid` for the sampled snd_una.

## 7. Plan

1. Proofs about the tools: `NetemContained` of `Campaign`, `SocketsReturned` of `BenchGrid`.
2. A composition of `SendPath` with the life of `Connections`: which closes complete once
   FINs are retransmitted, and the soft cap for life-cycle events.
3. `RecvPath` with sequence numbers that wrap.
