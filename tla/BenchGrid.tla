----------------------------- MODULE BenchGrid -----------------------------
(* bench-vs-mtcp: main() runs one workload (burst or maxtp) over a grid of  *)
(* buckets, on each selected stack in turn.  A bucket is checked, opened,   *)
(* warmed up, measured, checked again, written to the CSV and closed.       *)
(*                                                                          *)
(* The tool is one thread, and the engine moves only inside poll_once, so a *)
(* step of the model is one iteration of one of the tool's loops, with the  *)
(* poll it makes.  `left' counts the iterations until a deadline (a pump    *)
(* window, a stall timeout, a close or connect timeout): what is left open  *)
(* is what the stacks and the peer do meanwhile.                            *)
EXTENDS Integers, Sequences, FiniteSets, SequencesExt, FiniteSetsExt

CONSTANTS
    BurstBytes,  \* burst_bytes of the burst grid, ascending
    WriteBytes,  \* write_bytes of the maxtp grid, ascending
    Counts,      \* conn_count of the maxtp grid, ascending
    Commands,    \* the command lines (and builds) the tool is run with
    Slots,       \* handles of the flow table, or descriptors of a socket API
    Window,      \* bytes a connection may have in flight
    Space,       \* the sequence space of snd_una (2^32 in the code)
    WarmRounds,  \* iterations that fit into a warm-up
    Rounds,      \* iterations that fit into a measurement window
    Bursts,      \* bursts of a measurement (the warm-up has one, or none)
    TxBound,     \* above it the payload counter counts no retransmission
    Patience     \* idle iterations that fit into a timeout

ASSUME GridAssumption ==
    /\ Window < Space /\ Slots # {} /\ Slots \subseteq Nat \ {0}
    /\ {WarmRounds, Rounds, Bursts, Patience} \subseteq Nat \ {0}

VARIABLES
    opt,     \* the command line and the build: fixed once main has started
    at,      \* the position: step, stack, bucket
    net,     \* the connections: up, snd_una, bytes in flight
    conns,   \* the handles the current bucket holds
    work,    \* the locals of run_bucket and of the loop it is in
    row,     \* what the current bucket, or the last one, wrote to the CSV
    ghost    \* the truth that the rows are measured against, and leaks
vars == <<opt, at, net, conns, work, row, ghost>>

Ends == {"done", "aborted", "panicked"}
\* work.tx is the delta of tcp.tx_payload_bytes since the bucket's snapshot.
Idle == [left |-> 0, sent |-> 0, todo |-> 0, n |-> 0, sum |-> 0, tx |-> 0,
         last |-> <<>>, bytes |-> <<>>, due |-> FALSE, failed |-> FALSE]
\* ghost.acked and ghost.since count, per connection, the bytes acknowledged
\* in the window and since the last sample.
NoTruth == [acked |-> <<>>, since |-> <<>>, burst |-> 0, bytes |-> 0, lost |-> FALSE, stray |-> {}]
Sockets == {h + 100 : h \in Slots}       \* descriptors of linux and fstack
Down == [up |-> FALSE, una |-> 0, flight |-> 0]
Fresh == [up |-> TRUE, una |-> 1 % Space, flight |-> 0]

Stack == opt.stacks[at.stack]

\* burst::enumerate_filtered_grid: K outside; one connection, and the gaps,
\* which only sleep, are one.
BurstGrid(sizes) == [i \in 1 .. Len(sizes) |-> [size |-> sizes[i], count |-> 1]]
\* maxtp::enumerate_filtered_grid: W outside, C inside.
MaxtpGrid(sizes, counts) ==
    FlattenSeq([i \in 1 .. Len(sizes) |->
                   [j \in 1 .. Len(counts) |-> [size |-> sizes[i], count |-> counts[j]]]])
Grid == opt.grid
Bucket == Grid[at.bucket]

Go(step) == at' = [at EXCEPT !.step = step]
\* A bucket is finished with: the next one, at its pre-run checks.
NextBucket == at' = [at EXCEPT !.step = "bucket", !.bucket = @ + 1]
NextStack == at' = [at EXCEPT !.step = "stack", !.stack = @ + 1, !.bucket = 1]
Abort == Go("aborted") /\ UNCHANGED <<net, conns, work, row, ghost>>

Row(kind, value, g) == [kind |-> kind, value |-> value, truth |-> g.bytes, lost |-> g.lost]
NoRow == Row("none", 0, [bytes |-> 0, lost |-> FALSE])
Marker == Row("marker", 0, [bytes |-> 0, lost |-> FALSE])
\* burst::emit_bucket_rows for an aggregate without a summary: a single row
\* of value 0, which names the reason when the verdict has one.
MarkBurst == row' = Marker
\* maxtp::emit_bucket_rows, and emit_linux_bucket_rows, without a sample.
MarkMaxtp == row' = Marker

\* check_nic_saturation_bps: a rate above 70 % of nic_max_bps, when it is given.
NicSaturation == BOOLEAN
\* What BurstSample::from_timestamps asserts of a burst, and run_bucket tests before it.
FromTimestamps == BOOLEAN
\* BucketAggregate::from_samples, then override_verdict when the achieved
\* rate is above the ceiling (`saturated'), then emit_bucket_rows: an
\* aggregate without samples, or with a bad verdict, is a marker.
AggregateBurst(w, saturated) ==
    IF w.n = 0 \/ saturated THEN Marker ELSE Row("sample", w.sum, ghost)
\* MaxtpSample::from_window and BucketAggregate::from_sample: likewise.
AggregateMaxtp(value, g, saturated) ==
    IF saturated THEN Marker ELSE Row("sample", value, g)

--------------------------------------------------------------------------
(* What the stacks do.                                                     *)

LiveSlots == {h \in Slots : net[h].up}
\* Engine::send_bytes, write and ff_write: nothing, or as much as fits.
Accepts(c, wanted) == {0, Min({wanted, Window - c.flight})}
Sent(h, n) == [net EXCEPT ![h].flight = @ + n]

\* What a poll may do to the connections of the bucket: acknowledge some of
\* their bytes, or lose them.  The tool does not see a socket's snd_una.
Gone == -1
Polled(h, c, n) ==
    IF n = Gone THEN Down
    ELSE [c EXCEPT !.una = IF h \in Slots THEN (@ + n) % Space ELSE @, !.flight = @ - n]
PolledAll(table, n) == [h \in DOMAIN table |-> IF h \in DOMAIN n THEN Polled(h, table[h], n[h]) ELSE table[h]]
Acks(table, Most(_)) ==
    LET mine == {h \in ToSet(conns) : table[h].up}
    IN  {n \in [mine -> Gone .. Window] : \A h \in mine : n[h] <= table[h].flight /\ n[h] <= Most(h)}
AnyAck(h) == Window
Polls(table) == {PolledAll(table, n) : n \in Acks(table, AnyAck)}

\* snapshot_snd_una_per_conn: one number per handle, 0 for a lost connection.
SnapshotSndUna(table) == [i \in 1 .. Len(conns) |-> table[conns[i]].una]
\* snapshot_inflight_total
SnapshotInflight(table) ==
    MapThenSumSet(LAMBDA i : table[conns[i]].flight, {i \in 1 .. Len(conns) : table[conns[i]].up})
SeqSum(s) == MapThenSumSet(LAMBDA i : s[i], DOMAIN s)
SomeLost(table) == \/ \E i \in 1 .. Len(conns) : ~table[conns[i]].up
                   \/ Cardinality(ToSet(conns)) < Len(conns)

\* A mutant: the samples inside the window are skipped.
AccumulateOnce(w, new) == IF w.left > 0 THEN w ELSE
    [w EXCEPT !.bytes = [i \in DOMAIN new |-> w.bytes[i] + ((new[i] - w.last[i]) % Space)],
              !.last = new]
\* SndUnaAccumulator::accumulate: the difference modulo the sequence space.
Accumulate(w, new) ==
    [w EXCEPT !.bytes = [i \in DOMAIN new |-> w.bytes[i] + ((new[i] - w.last[i]) % Space)],
              !.last = new]

--------------------------------------------------------------------------
(* main                                                                    *)

\* run_preconditions_check: what the script printed, or the environment holds;
\* bytes that are no JSON are an error.  Without either, strict mode has an
\* error too, and lenient mode takes every check as not applicable.
PreconditionsCheck(strict) == {"pass", "fail", "error"} \cup (IF strict THEN {} ELSE {"n/a"})
\* preconditions_all_pass: every check passed or is not applicable.
AllPass(checks) == checks \in {"pass", "n/a"}
\* validate_dpdk_args, eal_init, build_engine, the TSC frequency: any may fail.
BringUp == BOOLEAN
\* init_fstack: the configuration file is missing, or ff_init fails.
InitFstack(built) == IF built THEN BOOLEAN ELSE {TRUE}

\* Before any work: lenient mode leaves mtcp out, strict mode needs the host
\* preconditions, the stacks selected must come up, and the filters must match.
\* Only the engine's set-up reads the TSC frequency.
Main ==
    /\ at.step = "start"
    /\ \E checks \in PreconditionsCheck(opt.strict), engine \in BringUp, fstack \in InitFstack(opt.fstack) :
       LET chosen == IF opt.strict THEN opt.stacks ELSE SelectSeq(opt.stacks, LAMBDA s : s # "mtcp")
           grid == IF ~opt.filter THEN <<>> ELSE IF opt.workload = "burst" THEN BurstGrid(BurstBytes) ELSE MaxtpGrid(WriteBytes, Counts)
           ready == /\ chosen # <<>> /\ checks # "error" /\ (opt.strict => AllPass(checks))
                    /\ ("dpdk_net" \in ToSet(chosen) => engine) /\ ("fstack" \in ToSet(chosen) => fstack)
                    /\ grid # <<>>
       IN  IF ready
           THEN /\ opt' = [opt EXCEPT !.stacks = chosen, !.tsc = "dpdk_net" \in ToSet(chosen), !.grid = grid]
                /\ Go("stack") /\ UNCHANGED <<net, conns, work, row, ghost>>
           ELSE opt' = opt /\ Abort

\* The loop over the stacks: linux has no burst arm, the other arms begin
\* their grid, and after the last stack the writer is flushed.
BeginStack ==
    /\ at.step = "stack" /\ UNCHANGED <<opt, net, conns, work, row, ghost>>
    /\ IF at.stack > Len(opt.stacks) THEN Go("done")
       ELSE IF Stack = "linux" /\ opt.workload = "burst" THEN NextStack
       ELSE IF Stack = "dpdk_net" /\ opt.workload = "burst" THEN Go("dial")
       ELSE Go("bucket")

\* invoke_driver waits for the driver's end: not there, exit 0, ENOSYS in the
\* JSON on its stderr, or another failure.
InvokeDriver == {"missing", "exited", "unimplemented", "failed"}
\* parse_burst_json, parse_maxtp_json: samples that are finite and not negative.
ParseDriver(outcome) == IF outcome = "exited" THEN {"ok", "bad json"} ELSE {outcome}
\* The mtcp arms: a failed driver is an error in strict mode, the only mode
\* that keeps this stack, and its success is one too ("not yet finalised").
RunBurstGridMtcp ==
    /\ at.step = "bucket" /\ Stack = "mtcp" /\ opt.workload = "burst"
    /\ \E outcome \in InvokeDriver : \E result \in ParseDriver(outcome) : Abort /\ UNCHANGED opt
RunMaxtpGridMtcp ==
    /\ at.step = "bucket" /\ Stack = "mtcp" /\ opt.workload = "maxtp"
    /\ \E outcome \in InvokeDriver : \E result \in ParseDriver(outcome) : Abort /\ UNCHANGED opt

\* Without the fstack feature both F-Stack arms write a marker per bucket.
RunGridFstackStub ==
    /\ at.step = "bucket" /\ Stack = "fstack" /\ ~opt.fstack /\ at.bucket <= Len(Grid)
    /\ MarkMaxtp /\ NextBucket /\ UNCHANGED <<opt, net, conns, work, ghost>>

\* Every arm leaves its grid after the last bucket.
EndGrid ==
    /\ at.step = "bucket" /\ at.bucket > Len(Grid) /\ NextStack
    /\ conns' = <<>> /\ UNCHANGED <<opt, net, work, row, ghost>>

--------------------------------------------------------------------------
(* Opening and closing.                                                    *)

FreeSlot == Min(Slots \ LiveSlots)
\* Engine::connect and the polls until Connected: the connection is in the
\* table, and the ones opened before it may have gone meanwhile.
Dial(h) ==
    \E gone \in SUBSET ToSet(conns) :
        net' = [s \in DOMAIN net |-> CASE s = h -> Fresh
                                        [] s \in gone -> Down
                                        [] OTHER -> net[s]]

\* run_burst_grid_dpdk opens one connection for all its buckets; a failure
\* ends the program.
OpenPersistentConnection ==
    /\ at.step = "dial"
    /\ \/ /\ LiveSlots # Slots /\ Dial(FreeSlot)
          /\ conns' = <<FreeSlot>> /\ Go("bucket") /\ UNCHANGED <<opt, work, row, ghost>>
       \/ Abort /\ UNCHANGED opt

\* dpdk_maxtp::open_persistent_connections: one after the other; the first
\* failure (no slot, refusal, timeout) gives up the bucket, without a row
\* and without closing the connections opened before it, nor its own.
OpenPersistentConnections ==
    /\ at.step = "open" /\ Stack = "dpdk_net" /\ UNCHANGED <<opt, row>>
    /\ \/ /\ Len(conns) = Bucket.count /\ Go("warm")
          /\ work' = [Idle EXCEPT !.left = WarmRounds] /\ UNCHANGED <<net, conns, ghost>>
       \/ /\ Len(conns) < Bucket.count /\ LiveSlots # Slots /\ Dial(FreeSlot)
          /\ conns' = Append(conns, FreeSlot) /\ UNCHANGED <<at, work, ghost>>
       \/ /\ Len(conns) < Bucket.count
          /\ \/ LiveSlots # Slots /\ Dial(FreeSlot)
             \/ net' = net
          /\ ghost' = [NoTruth EXCEPT !.stray = {h \in Slots : net'[h].up}]
          /\ conns' = <<>> /\ NextBucket /\ UNCHANGED work

\* dpdk_maxtp::close_persistent_connections: a FIN on each, then polls until
\* all are reaped or five seconds are over; what is left then stays.  After
\* it, a violated sanity check ends the program.
ClosePersistentConnections ==
    /\ at.step = "close" /\ UNCHANGED <<opt, row>>
    /\ \E table \in Polls(net) :
        LET alive == {h \in ToSet(conns) : table[h].up}
        IN  /\ net' = table
            /\ IF alive # {} /\ work.left > 1
               THEN work' = [work EXCEPT !.left = @ - 1] /\ UNCHANGED <<at, conns, ghost>>
               ELSE /\ work' = Idle /\ conns' = <<>>
                    /\ ghost' = [NoTruth EXCEPT !.stray = (ghost.stray \ ToSet(conns)) \cup alive]
                    /\ IF work.failed THEN Go("aborted") ELSE NextBucket

\* linux_maxtp::open_persistent_connections: all, or none, since the streams
\* opened before the failing one are dropped; then no row.
SocketsOf(count) == [i \in 1 .. count |-> Min(Sockets) + i - 1]
WithSockets(count) == [h \in DOMAIN net |-> IF h \in ToSet(SocketsOf(count)) THEN Fresh ELSE net[h]]
WithoutSockets == [h \in DOMAIN net |-> IF h \in Sockets THEN Down ELSE net[h]]
LinuxOpen ==
    /\ at.step = "open" /\ Stack = "linux" /\ UNCHANGED <<opt, row, ghost>>
    /\ \/ /\ net' = WithSockets(Bucket.count) /\ conns' = SocketsOf(Bucket.count)
          /\ work' = [Idle EXCEPT !.left = WarmRounds] /\ Go("warm")
       \/ NextBucket /\ UNCHANGED <<net, conns, work>>

\* The fstack arms open one descriptor after the other.  A failure closes the
\* failing one and the ones before it (close_all) and leaves a marker.
NextSocket == Min(Sockets) + Len(conns)
FstackConnected ==
    LET all == Append(conns, NextSocket)
    IN  /\ conns' = all /\ net' = [net EXCEPT ![NextSocket] = Fresh]
        /\ IF Len(all) < Bucket.count THEN Go("open") /\ work' = Idle
           ELSE IF opt.workload = "maxtp" THEN Go("warm") /\ work' = [Idle EXCEPT !.left = WarmRounds]
           ELSE /\ Go(IF opt.warm = 0 THEN "first" ELSE "warm")
                /\ work' = [Idle EXCEPT !.left = Patience, !.todo = Bursts]
        /\ UNCHANGED <<opt, row, ghost>>
FstackRefused ==
    /\ net' = WithoutSockets /\ conns' = <<>> /\ work' = Idle
    /\ MarkMaxtp /\ NextBucket /\ UNCHANGED <<opt, ghost>>

\* connect_nonblocking: without a descriptor or an option, or with an errno
\* other than EINPROGRESS, an error; the connection may be complete at once.
FstackConnect ==
    /\ at.step = "open" /\ Stack = "fstack"
    /\ \/ FstackConnected
       \/ FstackRefused
       \/ /\ net' = [net EXCEPT ![NextSocket] = Fresh] /\ Go("select")
          /\ work' = [Idle EXCEPT !.left = Patience] /\ UNCHANGED <<opt, conns, row, ghost>>

\* wait_connect_complete: select slices until the descriptor is writable, and
\* then SO_ERROR; a slice without news, EINTR and a spurious wake-up go round
\* again, up to the deadline.
FstackSelect ==
    /\ at.step = "select"
    /\ \/ work.left = 0 /\ FstackRefused
       \/ work.left > 0 /\ (FstackConnected \/ FstackRefused)
       \/ /\ work.left > 0 /\ work' = [work EXCEPT !.left = @ - 1]
          /\ UNCHANGED <<opt, at, net, conns, row, ghost>>

\* The sockets of a finished bucket are closed or dropped.
CloseSockets == net' = WithoutSockets /\ conns' = <<>> /\ work' = Idle /\ ghost' = [NoTruth EXCEPT !.stray = ghost.stray]

--------------------------------------------------------------------------
(* Pre-run checks.                                                         *)

\* fetch_peer_rwnd_bytes: up to three ssh round trips, for the window that ss
\* on the peer shows (too small, or not), or for nothing.
FetchPeerRwnd == {"small", "ample", "failed"}
\* parse_rcv_window takes the smaller of rcv_space and rcv_ssthresh.
ParseRcvWindow(ss) == IF ss = "small" THEN Bucket.size - 1 ELSE Bucket.size
\* resolve_peer_rwnd_bytes: without ssh, and when it failed, the placebo,
\* which is the bucket's own size.
PeerRwnd == {IF ss = "failed" THEN Bucket.size ELSE ParseRcvWindow(ss) : ss \in FetchPeerRwnd}
\* The MSS check compares an argument with itself.
CheckPeerWindow(rwnd) == rwnd >= Bucket.size

PreRunDpdkBurst ==
    /\ at.step = "bucket" /\ Stack = "dpdk_net" /\ opt.workload = "burst" /\ at.bucket <= Len(Grid)
    /\ UNCHANGED <<opt, net, conns>>
    /\ \E rwnd \in PeerRwnd :
        IF CheckPeerWindow(rwnd)
        THEN /\ work' = [Idle EXCEPT !.left = Patience, !.todo = Bursts]
             /\ Go(IF opt.warm = 0 THEN "first" ELSE "warm")
             /\ ghost' = NoTruth /\ row' = NoRow
        ELSE MarkBurst /\ NextBucket /\ UNCHANGED <<work, ghost>>

PreRunMaxtp(stack) ==
    /\ at.step = "bucket" /\ Stack = stack /\ opt.workload = "maxtp" /\ at.bucket <= Len(Grid)
    /\ UNCHANGED <<opt, net, conns, work, ghost>>
    /\ \E rwnd \in PeerRwnd :
        IF CheckPeerWindow(rwnd) THEN Go("open") /\ row' = NoRow ELSE MarkMaxtp /\ NextBucket
PreRunDpdkMaxtp == PreRunMaxtp("dpdk_net")
PreRunLinux == PreRunMaxtp("linux")

\* run_burst_grid_fstack and run_maxtp_grid_fstack have no pre-run check.
PreRunFstack ==
    /\ at.step = "bucket" /\ Stack = "fstack" /\ opt.fstack /\ at.bucket <= Len(Grid)
    /\ Go("open") /\ row' = NoRow /\ UNCHANGED <<opt, net, conns, work, ghost>>

--------------------------------------------------------------------------
(* Burst: a burst is handed over in pieces, each loop with its own stall   *)
(* timeout.  A failure of run_bucket ends the program on dpdk_net and      *)
(* leaves a marker on fstack.                                              *)

Conn == conns[1]
\* A mutant: the stall clock starts again when it has run out.
ProgressForever(w, n) == [w EXCEPT !.sent = @ + n, !.left = IF n = 0 /\ @ > 1 THEN @ - 1 ELSE Patience]
\* The stall clock: reset by progress, one idle iteration less otherwise.
Progress(w, n) == [w EXCEPT !.sent = @ + n, !.left = IF n = 0 THEN @ - 1 ELSE Patience]
NextBurst(w) == [w EXCEPT !.sent = 0, !.left = Patience]
DpdkBurstFails == Abort /\ UNCHANGED opt
FstackBurstFails == MarkBurst /\ NextBucket /\ CloseSockets /\ UNCHANGED opt

\* tcp.tx_payload_bytes counts under obs-byte-counters only, retransmissions
\* (here, of one byte) too.
TxCounts(n) == IF ~opt.obs THEN {0} ELSE IF work.tx < TxBound THEN {n, n + 1} ELSE {n}

\* send_one_burst_and_drain_acks: send, poll, drain; an ended connection or a
\* stall is an error.
DpdkWarmBurst ==
    /\ at.step = "warm" /\ Stack = "dpdk_net" /\ opt.workload = "burst"
    /\ \/ ~net[Conn].up /\ DpdkBurstFails
       \/ /\ net[Conn].up
          /\ \E n \in Accepts(net[Conn], Bucket.size - work.sent) : \E t \in TxCounts(n) :
             LET w == [Progress(work, n) EXCEPT !.tx = @ + t]
             IN  \E table \in Polls(Sent(Conn, n)) :
                    \/ (~table[Conn].up \/ w.left = 0) /\ DpdkBurstFails
                    \/ /\ table[Conn].up /\ w.left > 0 /\ net' = table
                       /\ IF w.sent = Bucket.size THEN Go("first") /\ work' = NextBurst(w)
                                                  ELSE work' = w /\ UNCHANGED at
                       /\ UNCHANGED <<opt, conns, row, ghost>>

\* send_first_segment_and_capture_wire_time: until a byte is taken; it polls
\* and does not drain.
DpdkFirstSegment ==
    /\ at.step = "first" /\ Stack = "dpdk_net"
    /\ \/ ~net[Conn].up /\ DpdkBurstFails
       \/ /\ net[Conn].up
          /\ \E n \in Accepts(net[Conn], Bucket.size) : \E t \in TxCounts(n) :
             LET w == [Progress(work, n) EXCEPT !.tx = @ + t]
             IN  \/ w.left = 0 /\ DpdkBurstFails
                \/ /\ w.left > 0 /\ net' \in Polls(Sent(Conn, n)) /\ work' = w
                   /\ ghost' = [ghost EXCEPT !.burst = n]
                   /\ IF n > 0 THEN Go("rest") ELSE UNCHANGED at
                   /\ UNCHANGED <<opt, conns, row>>

\* run_bucket, after a burst: the sample is kept unless its timestamps are
\* not monotonic; after the last one the bucket is reported.
KeepSample(keep) ==
    /\ work' = [NextBurst(work) EXCEPT !.todo = @ - 1, !.n = IF keep THEN @ + 1 ELSE @,
                                       !.sum = IF keep THEN @ + Bucket.size ELSE @]
    /\ ghost' = [ghost EXCEPT !.bytes = IF keep THEN @ + ghost.burst ELSE @, !.burst = 0]
    /\ Go(IF work.todo > 1 THEN "first" ELSE "report")

\* drive_burst_remainder_to_completion: polls only when nothing was taken,
\* and once, with a drain, when the burst is complete.
DpdkRemainder ==
    /\ at.step = "rest" /\ Stack = "dpdk_net"
    /\ \/ /\ work.sent = Bucket.size
          /\ \E table \in Polls(net), keep \in FromTimestamps :
              \/ ~table[Conn].up /\ DpdkBurstFails
              \/ /\ table[Conn].up /\ net' = table /\ KeepSample(keep)
                 /\ UNCHANGED <<opt, conns, row>>
       \/ work.sent < Bucket.size /\ ~net[Conn].up /\ DpdkBurstFails
       \/ /\ work.sent < Bucket.size /\ net[Conn].up
          /\ \E n \in Accepts(net[Conn], Bucket.size - work.sent) : \E t \in TxCounts(n) :
             LET w == [Progress(work, n) EXCEPT !.tx = @ + t]
             IN  \E table \in IF n = 0 THEN Polls(net) ELSE {Sent(Conn, n)} :
                    \/ (~table[Conn].up \/ w.left = 0) /\ DpdkBurstFails
                    \/ /\ table[Conn].up /\ w.left > 0 /\ net' = table /\ work' = w
                       /\ ghost' = [ghost EXCEPT !.burst = @ + n]
                       /\ UNCHANGED <<opt, at, conns, row>>

\* The fstack loops: ff_write until the burst is taken; an errno other than
\* EAGAIN, or a stall, is an error.  The stack runs by itself.
FstackWrites(wanted, Then(_, _)) ==
    \/ ~net[Conn].up /\ FstackBurstFails
    \/ /\ net[Conn].up
       /\ \E n \in Accepts(net[Conn], wanted) :
          LET w == Progress(work, n)
          IN  \/ w.left = 0 /\ FstackBurstFails
             \/ /\ w.left > 0 /\ net' \in Polls(Sent(Conn, n)) /\ Then(w, n)
                /\ UNCHANGED <<opt, conns, row>>

FstackWarmBurst ==
    /\ at.step = "warm" /\ Stack = "fstack" /\ opt.workload = "burst"
    /\ FstackWrites(Bucket.size - work.sent, LAMBDA w, n :
          /\ IF w.sent = Bucket.size THEN Go("first") /\ work' = NextBurst(w) ELSE work' = w /\ UNCHANGED at
          /\ UNCHANGED ghost)

FstackFirstSegment ==
    /\ at.step = "first" /\ Stack = "fstack"
    /\ FstackWrites(Bucket.size, LAMBDA w, n :
          /\ work' = w /\ ghost' = [ghost EXCEPT !.burst = n]
          /\ IF n > 0 THEN Go("rest") ELSE UNCHANGED at)

\* tsc_to_absolute_ns divides by the TSC frequency, which is 0 unless
\* dpdk_net was selected beside fstack.
FstackRemainder ==
    /\ at.step = "rest" /\ Stack = "fstack"
    /\ \/ work.sent = Bucket.size /\ ~opt.tsc /\ Go("panicked") /\ UNCHANGED <<opt, net, conns, work, row, ghost>>
       \/ /\ work.sent = Bucket.size /\ opt.tsc /\ \E keep \in FromTimestamps : KeepSample(keep)
          /\ UNCHANGED <<opt, net, conns, row>>
       \/ /\ work.sent < Bucket.size
          /\ FstackWrites(Bucket.size - work.sent, LAMBDA w, n :
                work' = w /\ ghost' = [ghost EXCEPT !.burst = @ + n] /\ UNCHANGED at)

\* run_burst_grid_dpdk after run_bucket: preflight::check_sanity_invariant
\* wants the bursts to be all that was transmitted, and ends the program
\* otherwise; it is skipped when the counter did not move.
ReportDpdkBurst ==
    /\ at.step = "report" /\ Stack = "dpdk_net" /\ opt.workload = "burst"
    /\ \/ work.tx \notin {0, work.sum} /\ DpdkBurstFails
       \/ /\ work.tx \in {0, work.sum}
          /\ \E saturated \in NicSaturation : row' = AggregateBurst(work, saturated)
          /\ work' = Idle /\ ghost' = NoTruth /\ NextBucket /\ UNCHANGED <<opt, net, conns>>

ReportFstackBurst ==
    /\ at.step = "report" /\ Stack = "fstack" /\ opt.workload = "burst"
    /\ \E saturated \in NicSaturation : row' = AggregateBurst(work, saturated)
    /\ CloseSockets /\ NextBucket /\ UNCHANGED opt

--------------------------------------------------------------------------
(* Maxtp: rounds of one write on each connection, for a warm-up and for a  *)
(* measurement window.                                                     *)

\* The writes of a round: what each handle takes (twice, if it is twice in
\* the list).
Writes ==
    LET mine == ToSet(conns)
        times(h) == Cardinality({i \in 1 .. Len(conns) : conns[i] = h})
        takes(h) == Accepts(net[h], Bucket.size * times(h))
    IN  {n \in [mine -> UNION {takes(h) : h \in mine}] : \A h \in mine : n[h] \in takes(h)}
AfterWrites(n) == [h \in ToSet(conns) |-> [net[h] EXCEPT !.flight = @ + n[h]]] @@ net
Taken(n) == MapThenSumSet(LAMBDA h : n[h], DOMAIN n)
AllUp == \A h \in ToSet(conns) : net[h].up

\* A mutant: the failure skips the close.
DpdkMaxtpFailsEarly ==
    /\ NextBucket /\ work' = Idle
    /\ UNCHANGED <<opt, net, conns, row, ghost>>
\* The bucket failed: its connections are closed, without a row.
DpdkMaxtpFails ==
    /\ Go("close") /\ work' = [Idle EXCEPT !.left = Patience]
    /\ UNCHANGED <<opt, net, conns, row, ghost>>
Zeros == [i \in 1 .. Len(conns) |-> 0]
\* run_bucket at the end of the warm-up: the snapshots the window starts from.
WindowOpens ==
    /\ Go("pump")
    /\ work' = [Idle EXCEPT !.left = Rounds, !.last = SnapshotSndUna(net'), !.bytes = Zeros]
    /\ ghost' = [ghost EXCEPT !.acked = Zeros, !.since = Zeros]

\* pump_round_robin in the warm-up: a send on a lost connection is an error;
\* with a single connection the deadline may pass before the poll.
DpdkPumpWarm ==
    /\ at.step = "warm" /\ Stack = "dpdk_net" /\ opt.workload = "maxtp"
    /\ \/ ~AllUp /\ DpdkMaxtpFails
       \/ /\ AllUp /\ UNCHANGED <<opt, conns, row>>
          /\ \E n \in Writes :
              /\ \/ net' \in Polls(AfterWrites(n))
                 \/ Len(conns) = 1 /\ work.left = 1 /\ net' = AfterWrites(n)
              /\ IF work.left > 1 THEN work' = [work EXCEPT !.left = @ - 1] /\ UNCHANGED <<at, ghost>>
                 ELSE WindowOpens

\* SndUnaAccumulator::maybe_sample: the first call only sets the time of the
\* first sample; later calls take one when it is due.
MaybeSample(w, table, now) ==
    IF w.due /\ now THEN Accumulate(w, SnapshotSndUna(table)) ELSE [w EXCEPT !.due = TRUE]

\* pump_round_robin in the window.  Less than the sequence space is
\* acknowledged between two samples, as the comment on SAMPLE_INTERVAL argues.
MostSinceSample(h) == Space - 1 - ghost.since[CHOOSE i \in 1 .. Len(conns) : conns[i] = h]
DpdkPump ==
    /\ at.step = "pump" /\ Stack = "dpdk_net"
    /\ \/ ~AllUp /\ DpdkMaxtpFails
       \/ /\ AllUp /\ UNCHANGED <<opt, conns, row>>
          /\ IF work.left > 1 THEN UNCHANGED at ELSE Go("report")
          /\ \E n \in Writes : \E t \in TxCounts(Taken(n)) :
             LET w == [work EXCEPT !.left = @ - 1, !.tx = @ + t]
                 table == AfterWrites(n)
             IN  \/ \E acks \in Acks(table, MostSinceSample), now \in BOOLEAN :
                        /\ net' = PolledAll(table, acks)
                        /\ work' = MaybeSample(w, net', now)
                        /\ ghost' = [ghost EXCEPT
                              !.acked = [i \in DOMAIN @ |-> @[i] + acks[conns[i]]],
                              !.since = IF work.due /\ now THEN Zeros ELSE [i \in DOMAIN @ |-> @[i] + acks[conns[i]]]]
                 \/ /\ Len(conns) = 1 /\ work.left = 1 /\ net' = table
                    /\ work' = w /\ UNCHANGED ghost

\* maxtp::check_sanity_invariant
MaxtpSanity(acked, sent, inflight) == sent >= acked /\ sent - acked <= inflight

\* run_bucket after the pump: the last sample.
WindowCloses == Accumulate(work, SnapshotSndUna(net))
\* The rest of the closure in run_maxtp_grid_dpdk: the sanity check if the
\* counter moved, the saturation check, the row.  In every case the close follows.
ReportDpdkMaxtp ==
    /\ at.step = "report" /\ Stack = "dpdk_net" /\ opt.workload = "maxtp" /\ Go("close")
    /\ LET acked == SeqSum(WindowCloses.bytes)
           truth == [ghost EXCEPT !.bytes = SeqSum(ghost.acked), !.lost = SomeLost(net)]
           insane == work.tx > 0 /\ ~MaxtpSanity(acked, work.tx, SnapshotInflight(net))
       IN  /\ work' = [Idle EXCEPT !.left = Patience, !.failed = insane]
           /\ IF insane THEN row' = row
              ELSE \E saturated \in NicSaturation : row' = AggregateMaxtp(acked, truth, saturated)
    /\ UNCHANGED <<opt, net, conns, ghost>>

\* linux_maxtp::pump_round_robin: WouldBlock is a write of nothing, any other
\* error fails the bucket: `continue', no row, the streams are dropped.
LinuxPump ==
    /\ at.step \in {"warm", "pump"} /\ Stack = "linux" /\ UNCHANGED <<opt, row>>
    /\ \/ ~AllUp /\ NextBucket /\ CloseSockets
       \/ /\ AllUp /\ UNCHANGED conns
          /\ \E n \in Writes :
              /\ net' \in Polls(AfterWrites(n))
              /\ work' = [work EXCEPT !.left = IF @ > 1 THEN @ - 1 ELSE Rounds,
                                      !.sum = IF at.step = "pump" THEN @ + Taken(n) ELSE 0]
              /\ ghost' = [ghost EXCEPT !.bytes = IF at.step = "pump" THEN @ + Taken(n) ELSE @]
              /\ IF work.left > 1 THEN UNCHANGED at ELSE Go(IF at.step = "warm" THEN "pump" ELSE "report")

\* fstack_maxtp::pump_round_robin: an error is logged, and the bucket goes on
\* with the connections that are left.
FstackPump ==
    /\ at.step \in {"warm", "pump"} /\ Stack = "fstack" /\ opt.workload = "maxtp"
    /\ UNCHANGED <<opt, row, conns>>
    /\ \E n \in {n \in Writes : \A h \in DOMAIN n : net[h].up \/ n[h] = 0} :
        /\ net' \in Polls(AfterWrites(n))
        /\ work' = [work EXCEPT !.left = IF @ > 1 THEN @ - 1 ELSE Rounds,
                                !.sum = IF at.step = "pump" THEN @ + Taken(n) ELSE 0]
        /\ ghost' = [ghost EXCEPT !.bytes = IF at.step = "pump" THEN @ + Taken(n) ELSE @]
        /\ IF work.left > 1 THEN UNCHANGED at ELSE Go(IF at.step = "warm" THEN "pump" ELSE "report")

\* run_maxtp_grid_linux and run_maxtp_grid_fstack after run_bucket: the row,
\* then the sockets are closed.
ReportLinux ==
    /\ at.step = "report" /\ Stack = "linux"
    /\ \E saturated \in NicSaturation : row' = AggregateMaxtp(work.sum, ghost, saturated)
    /\ CloseSockets /\ NextBucket /\ UNCHANGED opt
ReportFstackMaxtp ==
    /\ at.step = "report" /\ Stack = "fstack" /\ opt.workload = "maxtp"
    /\ \E saturated \in NicSaturation : row' = AggregateMaxtp(work.sum, ghost, saturated)
    /\ CloseSockets /\ NextBucket /\ UNCHANGED opt

--------------------------------------------------------------------------

Init ==
    /\ opt \in {c @@ [tsc |-> FALSE, grid |-> <<>>] : c \in Commands}
    /\ at = [step |-> "start", stack |-> 1, bucket |-> 1]
    /\ net = [h \in Slots \cup Sockets |-> Down] /\ conns = <<>> /\ work = Idle
    /\ row = NoRow /\ ghost = NoTruth

Finished == at.step \in Ends /\ UNCHANGED vars

Tool ==
    \/ Main \/ BeginStack \/ RunBurstGridMtcp \/ RunMaxtpGridMtcp \/ RunGridFstackStub \/ EndGrid
    \/ OpenPersistentConnection \/ OpenPersistentConnections \/ ClosePersistentConnections
    \/ LinuxOpen \/ FstackConnect \/ FstackSelect
    \/ PreRunDpdkBurst \/ PreRunDpdkMaxtp \/ PreRunLinux \/ PreRunFstack
    \/ DpdkWarmBurst \/ DpdkFirstSegment \/ DpdkRemainder
    \/ FstackWarmBurst \/ FstackFirstSegment \/ FstackRemainder
    \/ ReportDpdkBurst \/ ReportFstackBurst
    \/ DpdkPumpWarm \/ DpdkPump \/ ReportDpdkMaxtp
    \/ LinuxPump \/ FstackPump \/ ReportLinux \/ ReportFstackMaxtp
Next == Tool \/ Finished
\* The tool is a running thread: it takes its next step.
Spec == Init /\ [][Next]_vars /\ WF_vars(Tool)

\* A reported number is what the connections did in the window: every byte
\* acknowledged (dpdk_net maxtp, across wraps of the sequence space, late
\* samples and a deadline in mid-round), written (linux, fstack) or handed
\* over in the sampled bursts, none counted twice or outside, unless a
\* connection was lost before the last snapshot.
ReportTrue == row.kind = "sample" /\ ~row.lost => row.value = row.truth

\* Between buckets no descriptor is open, and no connection of a finished
\* bucket is in the flow table, failed buckets included, except those whose
\* close timed out or whose bucket could not be opened.
SocketsReturned ==
    at.step = "bucket" =>
        /\ \A h \in Sockets : ~net[h].up
        /\ opt.workload = "maxtp" => LiveSlots \subseteq ghost.stray

\* Whatever the peer and the connections do, the tool comes to an end: each of
\* its loops has a deadline or a stall timeout.  (The mtcp driver is a process
\* that returns, and ff_write of a non-empty buffer does not return 0.)
GridFinishes == <>(at.step \in Ends)
=============================================================================
