----------------------------- MODULE RxDispatch -----------------------------
(***************************************************************************)
(* From the RX burst to the connection: poll_once, the fault injector      *)
(* between the driver and the decoders (feature fault-injector), the test  *)
(* injection of frames (feature test-inject), the Ethernet, ARP, IPv4,     *)
(* ICMP and TCP decoders, the gateway's MAC address, the path MTU table    *)
(* and the local addresses of the engine.                                  *)
(*                                                                         *)
(* A frame is what its decoders tell apart: per layer the set of checks it *)
(* fails, and the few fields that are used.  A packet is the sequence of   *)
(* the mbufs of a frame.  What a connection does with a segment is in      *)
(* RecvPath and Connections; here it may keep the mbuf and release it      *)
(* later.  Time is free: a throttled probe is due or it is not.            *)
(***************************************************************************)
EXTENDS Integers, Sequences, FiniteSets, SequencesExt, FiniteSetsExt

CONSTANTS
    NumMbufs,       \* the mbufs of rx_mempool and of the test-inject pool
    Frames,         \* the frames that may arrive
    Burst,          \* frames per rx_burst (32)
    RingDepth,      \* depth of the injector's reorder ring (16)
    LocalIp,        \* EngineConfig.local_ip
    GatewayIp,      \* EngineConfig.gateway_ip
    OtherIps,       \* further addresses
    ListenIps,      \* addresses with a listen slot (feature test-server)
    FlipMtus,       \* MTUs that a flipped byte may leave in an ICMP frame
    MinMtu,         \* IPV4_MIN_MTU
    MaxFrames       \* bound: frames ever received

Ips  == {LocalIp, GatewayIp} \cup OtherIps
Macs == {"gw", "other", "flipped"}

\* The checks that a frame may fail, in all layers.
Checks == {"eth_short", "mac", "arp", "icmp", "len", "version", "hl", "total", "frag", "ttl",
           "ip_csum", "tcp_len", "offset", "flags", "tcp_csum"}

\* A frame; `damaged` says that the injector flipped a byte behind its Ethernet
\* header, `syn` that it is a SYN without ACK.  `nic` is the driver's verdict on
\* the checksums: none, both good, the IP header's bad, or only TCP's bad.
FrameType ==
    [eth : {"ipv4", "arp", "other"}, fails : SUBSET Checks, proto : {"tcp", "icmp", "other"},
     dst : Ips, nic : {"none", "good", "bad", "bad_l4"}, segs : Nat \ {0}, huge : BOOLEAN,
     syn : BOOLEAN, damaged : BOOLEAN, op : {"request", "reply"}, sender : Ips, target : Ips, mac : Macs,
     about : Ips, mtu : Nat]

ASSUME RxDispatchParams ==
    /\ {NumMbufs, Burst, RingDepth, MaxFrames, MinMtu} \subseteq Nat \ {0}
    /\ LocalIp # GatewayIp /\ {LocalIp, GatewayIp} \cap OtherIps = {}
    /\ ListenIps \subseteq Ips /\ FlipMtus \subseteq Nat
    /\ \A f \in Frames : f \in FrameType /\ ~f.damaged

VARIABLES
    refcnt,         \* reference counts of the mbufs
    content,        \* the frame of a packet, by its head mbuf
    burst,          \* packets of this poll that are not dispatched yet
    todo,           \* packets that the injector let through
    ring,           \* FaultInjector.reorder_ring
    kept,           \* bag as a function: references connections keep
    gateway_mac,    \* the learned address of the gateway
    pmtu,           \* PmtuTable.entries
    secondary,      \* secondary_local_ips
    conns,          \* the local addresses that have a connection
    count,          \* the counters
    phase,          \* "idle", "rx": where poll_once is
    env,            \* what does not change: injector and offload active
    damaged_in,     \* history: a damaged segment reached a connection, and
                    \* the NIC had (had not) vouched for it
    arrived,        \* history: the ARP and ICMP frames, as they arrived
    told,           \* history: the path MTUs that icmp_input read
    misled          \* history: what a damaged frame taught, "mac" or "mtu"

vars == <<refcnt, content, burst, todo, ring, kept, gateway_mac, pmtu, secondary,
          conns, count, phase, env, damaged_in, arrived, told, misled>>

history == <<damaged_in, arrived, told, misled>>

Mbufs   == 1 .. NumMbufs
NoFrame == [eth |-> "none"]
ZeroMac == "00"

\* EngineConfig.gateway_mac: not given, or given.
ConfiguredMacs == {ZeroMac, "gw"}

\* The counters, in the groups that a frame goes through; `chains`, `fi_freed`
\* and `matched` are counted by no field of the code: the injected chains, the
\* packets that the ring frees when the engine goes, and the segments that are
\* dispatched to a connection; `listener` is tcp.rx_syn_ack where a SYN met a
\* listen slot.
EthDrops == {"short", "miss_mac", "unknown_ethertype"}
IpDrops  == {"ip_short", "bad_version", "bad_hl", "csum_bad", "ttl_zero", "frag",
             "not_ours", "unsupported_proto"}
TcpDrops == {"tcp_short", "bad_flags", "bad_csum", "unmatched"}
Passed   == {"rx_arp", "rx_tcp", "rx_icmp"}
Counters == EthDrops \cup IpDrops \cup TcpDrops \cup Passed
                \cup {"matched", "listener", "rx_drop_cksum_bad", "rx_pkts", "chains", "fi_drops", "fi_dups", "fi_freed"}

Bump(names) == [c \in Counters |-> count[c] + IF c \in names THEN 1 ELSE 0]

Free == {m \in Mbufs : refcnt[m] = 0}

\* What is in the mbufs that are still in use.
Cleared(refs) == [m \in Mbufs |-> IF refs[m] = 0 THEN NoFrame ELSE content[m]]

\* The reference counts with d more for each of the mbufs ms.
Refs(ms, d) == [m \in Mbufs |-> refcnt[m] + IF m \in ToSet(ms) THEN d ELSE 0]

-----------------------------------------------------------------------------
\* The decoders.

\* The first of the checks, in the decoder's order, that the frame fails.
FirstOf(order, fails) == SelectInSeq(order, LAMBDA c : c \in fails)

\* l2_decode
L2Decode(f) ==
    IF "eth_short" \in f.fails THEN "short"
    ELSE IF "mac" \in f.fails THEN "miss_mac"
    ELSE IF f.eth = "other" THEN "unknown_ethertype"
    ELSE "ok"

IpChecks   == <<"len", "version", "hl", "total", "frag", "ttl", "ip_csum">>
IpCounters == <<"ip_short", "bad_version", "bad_hl", "ip_short", "frag", "ttl_zero", "csum_bad">>

\* ip_decode; nic_csum_ok: the checksum is not looked at.
IpDecode(f, nicOk) ==
    LET i == FirstOf(IpChecks, IF nicOk THEN f.fails \ {"ip_csum"} ELSE f.fails)
    IN  IF i # 0 THEN IpCounters[i]
        ELSE IF f.dst # LocalIp THEN "not_ours"
        ELSE IF f.proto = "other" THEN "unsupported_proto"
        ELSE "ok"

\* Mutant: what the NIC says counts although its offload is not active.
IpDecodeOffloadAwareLatchless(f) ==
    IF f.nic = "bad" THEN "csum_bad" ELSE IpDecode(f, f.nic = "good")

\* ip_decode_offload_aware, with classify_ip_rx_cksum.
IpDecodeOffloadAware(f) ==
    IF env.cksum_offload /\ f.nic = "bad" THEN "csum_bad"
    ELSE IpDecode(f, env.cksum_offload /\ f.nic = "good")

TcpChecks   == <<"tcp_len", "offset", "flags", "tcp_csum">>
TcpCounters == <<"tcp_short", "tcp_short", "bad_flags", "bad_csum">>

\* parse_segment
ParseSegment(f, nicOk) ==
    LET i == FirstOf(TcpChecks, IF nicOk THEN f.fails \ {"tcp_csum"} ELSE f.fails)
    IN  IF i # 0 THEN TcpCounters[i] ELSE "ok"

\* tcp_input up to the dispatch: classify_l4_rx_cksum, parse, lookup, and for a
\* SYN without connection the listen slots.
TcpInput(f) ==
    LET parsed == IF env.cksum_offload /\ f.nic = "bad_l4" THEN "bad_csum"
                  ELSE ParseSegment(f, env.cksum_offload /\ f.nic = "good")
    IN  IF parsed # "ok" THEN parsed
        ELSE IF f.dst \in conns THEN "matched"
        ELSE IF f.syn /\ f.dst \in ListenIps THEN "listener" ELSE "unmatched"

\* What the driver's verdict adds to the layer's own counter.
NicDrop(f, verdict) ==
    IF env.cksum_offload /\ f.nic = verdict THEN {"rx_drop_cksum_bad"} ELSE {}

\* The counters of one decoded frame.
HandleIpv4(f) ==
    LET ip == IpDecodeOffloadAware(f)
    IN  IF ip # "ok" THEN {ip} \cup NicDrop(f, "bad")
        ELSE IF f.proto = "icmp" THEN {"rx_icmp"}
        ELSE {"rx_tcp", TcpInput(f)} \cup NicDrop(f, "bad_l4")

RxFrame(f) ==
    LET l2 == L2Decode(f)
    IN  IF l2 # "ok" THEN {l2} ELSE IF f.eth = "arp" THEN {"rx_arp"} ELSE HandleIpv4(f)

\* arp_decode and classify_arp: a request for us is answered and nothing more;
\* the gateway's replies and announcements teach its address.
ClassifyArp(f) ==
    IF "arp" \in f.fails THEN "none"
    ELSE IF f.op = "request" /\ f.target = LocalIp THEN "reply"
    ELSE IF f.sender = GatewayIp /\ (f.op = "reply" \/ f.target = GatewayIp) THEN "learn"
    ELSE "none"

HandleArp(f) ==
    gateway_mac' = IF ClassifyArp(f) = "learn" THEN f.mac ELSE gateway_mac

Floored(mtu) == Max({mtu, MinMtu})

\* Mutant: the last MTU that is heard counts.
PmtuUpdateLatest(ip, mtu) ==
    [k \in DOMAIN pmtu \cup {ip} |-> IF k = ip THEN Floored(mtu) ELSE pmtu[k]]

\* PmtuTable::update: floored, and never grown.
PmtuUpdate(ip, mtu) ==
    IF ip \in DOMAIN pmtu /\ Floored(mtu) >= pmtu[ip] THEN pmtu
    ELSE [k \in DOMAIN pmtu \cup {ip} |-> IF k = ip THEN Floored(mtu) ELSE pmtu[k]]

\* icmp_input acts on a well-formed "fragmentation needed" that names an MTU;
\* it verifies no checksum.
NamesMtu(f) == "icmp" \notin f.fails /\ f.mtu # 0

IcmpInput(f) == pmtu' = IF NamesMtu(f) THEN PmtuUpdate(f.about, f.mtu) ELSE pmtu

-----------------------------------------------------------------------------
\* The fault injector.

\* An ARP frame with one byte of its body flipped: nothing protects the body, so
\* that a field has another value, or arp_decode refuses the frame.  (A byte that
\* nobody reads is no fault.)
ArpFlips(f) ==
    LET g == [f EXCEPT !.damaged = TRUE]
    IN  {[g EXCEPT !.fails = @ \cup {"arp"}], [g EXCEPT !.mac = "flipped"]}
            \cup {[g EXCEPT !.op = o] : o \in {"request", "reply"} \ {f.op}}
            \cup {[g EXCEPT !.sender = ip] : ip \in Ips \ {f.sender}}
            \cup {[g EXCEPT !.target = ip] : ip \in Ips \ {f.target}}

\* An IPv4 frame with one byte behind the Ethernet header flipped: in the IP
\* header or in a TCP segment the checksum over it is wrong then; icmp_input
\* verifies none.
Ipv4Flips(f) ==
    LET g == [f EXCEPT !.damaged = TRUE]
    IN  {[g EXCEPT !.fails = @ \cup {"ip_csum"}]}
            \cup IF f.proto = "icmp"
                 THEN {[g EXCEPT !.fails = @ \cup {"icmp"}]}
                          \cup {[g EXCEPT !.mtu = mtu] : mtu \in FlipMtus}
                          \cup {[g EXCEPT !.about = ip] : ip \in Ips \ {f.about}}
                 ELSE {[g EXCEPT !.fails = @ \cup {"tcp_csum"}]}

\* What one flipped byte may make of a frame, by where it is: nowhere, in the
\* destination address, in the type (0x0800 and 0x0806 are one byte apart, but
\* the body then fails the first check of the other decoder), or behind the
\* Ethernet header.  The NIC has given its verdict before.
Flips(f, where) ==
    CASE where = "no"   -> {f}
      [] where = "mac"  -> {[f EXCEPT !.fails = @ \cup {"mac"}]}
      [] where = "type" -> {[f EXCEPT !.eth = e, !.fails = @ \cup {"arp", "version"}] :
                               e \in {"ipv4", "arp", "other"} \ {f.eth}}
      [] where = "body" -> IF f.eth = "arp" THEN ArpFlips(f) ELSE Ipv4Flips(f)

\* The outcomes of the four random draws.
Faults == [drop : BOOLEAN, corrupt : {"no", "mac", "type", "body"},
           dup : BOOLEAN, hold : BOOLEAN]
NoFault == [drop |-> FALSE, corrupt |-> "no", dup |-> FALSE, hold |-> FALSE]

\* Mutant: only the head of a chain gets the second reference.
DupSegmentsHead(pkt) == <<Head(pkt)>>

\* The mbufs of a duplicated packet that get another reference.
DupSegments(pkt) == pkt

\* Mutant: a full ring forgets its oldest packet.
EvictedLost(r) == <<>>

\* What a full ring lets go when a packet is put into it.
Evicted(r) == IF Len(r) = RingDepth THEN <<Head(r)>> ELSE <<>>

Held(r, pkt) == Append(IF Len(r) = RingDepth THEN Tail(r) ELSE r, pkt)

\* FaultInjector::process
Process(pkt, d) ==
    LET out == IF d.dup THEN <<pkt, pkt>> ELSE <<pkt>>
    IN  IF d.drop
        THEN /\ refcnt' = Refs(pkt, -1)
             /\ count' = Bump({"fi_drops"})
             /\ content' = Cleared(refcnt')
             /\ UNCHANGED <<todo, ring>>
        ELSE /\ \E g \in Flips(content[pkt[1]], d.corrupt) :
                    content' = [content EXCEPT ![pkt[1]] = g]
             /\ refcnt' = IF d.dup THEN Refs(DupSegments(pkt), 1) ELSE refcnt
             /\ count' = Bump(IF d.dup THEN {"fi_dups"} ELSE {})
             /\ todo' = IF d.hold THEN Front(out) \o Evicted(ring) ELSE out
             /\ ring' = IF d.hold THEN Held(ring, pkt) ELSE ring

\* dispatch_one_rx_mbuf, its first half: the next packet of the burst goes to
\* the injector if there is one.
DispatchOneRxMbuf(d) ==
    /\ phase = "rx" /\ burst # <<>> /\ todo = <<>>
    /\ d # NoFault => env.injector
    /\ Process(Head(burst), d)
    /\ burst' = Tail(burst)
    /\ UNCHANGED <<kept, gateway_mac, pmtu, secondary, conns, phase, env, history>>

\* What a frame that is counted under `bumps` teaches the engine.
Teaches(f, bumps) ==
    (IF "rx_arp" \in bumps /\ ClassifyArp(f) = "learn" THEN {"mac"} ELSE {})
        \cup IF "rx_icmp" \in bumps /\ NamesMtu(f) THEN {"mtu"} ELSE {}

\* dispatch_one_real_mbuf: decode the frame and drop its reference.  A
\* connection keeps a reference of its own (`keep`) only to a frame of one mbuf.
\* A SYN for a listen slot makes a connection or is refused.
DispatchOneRealMbuf(keep) ==
    LET pkt   == Head(todo)
        f     == content[pkt[1]]
        bumps == RxFrame(f)
        ours  == bumps \cap {"rx_arp", "rx_icmp", "matched"}
    IN  /\ todo # <<>>
        /\ keep => "matched" \in bumps /\ Len(pkt) = 1
        /\ refcnt' = IF keep THEN refcnt ELSE Refs(pkt, -1)
        /\ kept' = IF keep THEN [kept EXCEPT ![pkt[1]] = @ + 1] ELSE kept
        /\ content' = Cleared(refcnt')
        /\ todo' = Tail(todo)
        /\ count' = Bump(bumps)
        /\ IF "rx_arp" \in ours THEN HandleArp(f) ELSE UNCHANGED gateway_mac
        /\ IF "rx_icmp" \in ours THEN IcmpInput(f) ELSE UNCHANGED pmtu
        /\ conns' \in {conns, conns \cup IF "listener" \in bumps THEN {f.dst} ELSE {}}
        /\ damaged_in' = IF "matched" \in ours /\ f.damaged
                         THEN damaged_in \cup {f.nic = "good"} ELSE damaged_in
        /\ told' = IF "mtu" \in Teaches(f, bumps) THEN told \cup {<<f.about, f.mtu>>} ELSE told
        /\ misled' = IF f.damaged THEN misled \cup Teaches(f, bumps) ELSE misled
        /\ UNCHANGED <<burst, ring, secondary, phase, env, arrived>>

-----------------------------------------------------------------------------
\* Where frames come from.

\* n mbufs of the pool, which of them does not matter.
Alloc(n) == CHOOSE s \in [1 .. n -> Free] : IsInjective(s)

Received == count["rx_pkts"] + count["chains"]

\* A frame is remembered if the engine may learn from it.
Teachers(f) == {g \in {f} : g.eth = "arp" \/ (g.eth = "ipv4" /\ g.proto = "icmp")}

\* poll_once: a burst of frames that the driver put into free mbufs.
PollOnce(f) ==
    /\ phase = "idle"
    /\ Received < MaxFrames
    /\ Cardinality(Free) >= f.segs
    /\ refcnt' = Refs(Alloc(f.segs), 1)
    /\ content' = [content EXCEPT ![Alloc(f.segs)[1]] = f]
    /\ burst' = Append(burst, Alloc(f.segs))
    /\ count' = Bump({"rx_pkts"})
    /\ phase' = IF Len(burst) + 1 = Burst THEN "rx" ELSE "idle"
    /\ arrived' = arrived \cup Teachers(f)
    /\ UNCHANGED <<todo, ring, kept, gateway_mac, pmtu, secondary, conns, env, damaged_in,
                   told, misled>>

\* The burst is complete: what the driver has now is dispatched.
BurstEnds ==
    /\ phase = "idle" /\ burst # <<>>
    /\ phase' = "rx"
    /\ UNCHANGED <<refcnt, content, burst, todo, ring, kept, gateway_mac, pmtu, secondary,
                   conns, count, env, history>>

\* The rest of poll_once: timers, reaping, ARP, the TX ring.  An ARP probe
\* changes nothing here; what it brings in is a frame of a later burst.
PollEnds ==
    /\ phase = "rx" /\ burst = <<>> /\ todo = <<>>
    /\ phase' = "idle"
    /\ UNCHANGED <<refcnt, content, burst, todo, ring, kept, gateway_mac, pmtu, secondary,
                   conns, count, env, history>>

\* Mutant: the mbuf that has no room for its segment is not freed.
CleanedUpHeld(taken) == Front(taken)

\* What the error paths of an injection free: every mbuf that was taken.
CleanedUp(taken) == taken

\* An injection that fails when it has taken some mbufs: the pool is empty, or
\* the last one has no room.  Each was taken with one reference, and freed.
InjectAbandoned(taken) ==
    refcnt' = [m \in Mbufs |-> Refs(taken, 1)[m]
                                 - IF m \in ToSet(CleanedUp(taken)) THEN 1 ELSE 0]

\* inject_rx_frame, inject_rx_frame_with_ol_flags and inject_rx_chain, between
\* polls; only a single frame is counted in eth.rx_pkts.
InjectRx(f) ==
    /\ phase = "idle" /\ burst = <<>> /\ todo = <<>>
    /\ Received < MaxFrames
    /\ IF Cardinality(Free) >= f.segs /\ ~f.huge
       THEN /\ refcnt' = Refs(Alloc(f.segs), 1)
            /\ content' = [content EXCEPT ![Alloc(f.segs)[1]] = f]
            /\ burst' = <<Alloc(f.segs)>>
            /\ count' = Bump({IF f.segs = 1 THEN "rx_pkts" ELSE "chains"})
            /\ phase' = "rx"
            /\ arrived' = arrived \cup Teachers(f)
       ELSE /\ InjectAbandoned(Alloc(Min({Cardinality(Free), f.segs})))
            /\ UNCHANGED <<content, burst, count, phase, arrived>>
    /\ UNCHANGED <<todo, ring, kept, gateway_mac, pmtu, secondary, conns, env, damaged_in,
                   told, misled>>

-----------------------------------------------------------------------------
\* The user, and the connections.

\* A connection drops a reference it kept.
Release(m) ==
    /\ kept[m] > 0
    /\ kept' = [kept EXCEPT ![m] = @ - 1]
    /\ refcnt' = Refs(<<m>>, -1)
    /\ content' = Cleared(refcnt')
    /\ UNCHANGED <<burst, todo, ring, gateway_mac, pmtu, secondary, conns, count,
                   phase, env, history>>

\* dpdk_net_engine_add_local_ip: not zero, not the primary address; repeating
\* it is no error.
AddLocalIp(ip) ==
    /\ phase = "idle" /\ burst = <<>>
    /\ ip # LocalIp
    /\ secondary' = secondary \cup {ip}
    /\ UNCHANGED <<refcnt, content, burst, todo, ring, kept, gateway_mac, pmtu, conns, count,
                   phase, env, history>>

\* connect_with_opts, as far as addresses go: the gateway's MAC is known, and
\* select_source_ip accepts the local address.
Connect(ip) ==
    /\ phase = "idle" /\ burst = <<>>
    /\ gateway_mac # ZeroMac
    /\ ip = LocalIp \/ ip \in secondary
    /\ conns' = conns \cup {ip}
    /\ UNCHANGED <<refcnt, content, burst, todo, ring, kept, gateway_mac, pmtu, secondary,
                   count, phase, env, history>>

\* FaultInjector::drop, when the engine goes.
DropInjector ==
    /\ phase = "idle" /\ burst = <<>> /\ ring # <<>>
    /\ refcnt' = [m \in Mbufs |-> refcnt[m] - Cardinality({i \in DOMAIN ring : m \in ToSet(ring[i])})]
    /\ content' = Cleared(refcnt')
    /\ count' = [count EXCEPT !["fi_freed"] = @ + Len(ring)]
    /\ ring' = <<>>
    /\ env' = [env EXCEPT !.injector = FALSE]
    /\ UNCHANGED <<burst, todo, kept, gateway_mac, pmtu, secondary, conns, phase,
                   history>>

-----------------------------------------------------------------------------
Init ==
    /\ refcnt = [m \in Mbufs |-> 0] /\ kept = [m \in Mbufs |-> 0]
    /\ content = [m \in Mbufs |-> NoFrame]
    /\ burst = <<>> /\ todo = <<>> /\ ring = <<>>
    /\ gateway_mac \in ConfiguredMacs
    /\ pmtu = <<>> /\ secondary = {} /\ conns = {}
    /\ count = [c \in Counters |-> 0]
    /\ phase = "idle"
    /\ env \in [injector : BOOLEAN, cksum_offload : BOOLEAN]
    /\ damaged_in = {} /\ arrived = {} /\ told = {} /\ misled = {}

Next ==
    \/ \E f \in Frames : PollOnce(f) \/ InjectRx(f)
    \/ BurstEnds \/ PollEnds
    \/ \E d \in Faults : DispatchOneRxMbuf(d)
    \/ \E keep \in BOOLEAN : DispatchOneRealMbuf(keep)
    \/ \E m \in Mbufs : Release(m)
    \/ \E ip \in {LocalIp} \cup OtherIps : AddLocalIp(ip) \/ Connect(ip)
    \/ DropInjector

Spec == Init /\ [][Next]_vars

-----------------------------------------------------------------------------
\* How many of the packets of a sequence have the mbuf m.
Holders(m, pkts) == Cardinality({i \in DOMAIN pkts : m \in ToSet(pkts[i])})

\* An mbuf has one reference for each place that will free it: the burst, the
\* packets on their way to the decoder, the reorder ring, the connections; what
\* an injection took before it failed has none.  A duplicated or held packet,
\* every segment of a chain and the clean-up of a chain that is given up are
\* where a reference could be lost or dropped twice.
FrameRefsExact ==
    \A m \in Mbufs :
        refcnt[m] = Holders(m, burst) + Holders(m, todo) + Holders(m, ring) + kept[m]

\* The totals of the groups of counters.
EthDropped == count["short"] + count["miss_mac"] + count["unknown_ethertype"]
IpDropped  == count["ip_short"] + count["bad_version"] + count["bad_hl"] + count["csum_bad"]
                  + count["ttl_zero"] + count["frag"] + count["not_ours"]
                  + count["unsupported_proto"]
TcpEnded   == count["tcp_short"] + count["bad_flags"] + count["bad_csum"]
                  + count["unmatched"] + count["listener"] + count["matched"]
PassedOn   == count["rx_arp"] + count["rx_tcp"] + count["rx_icmp"]

\* Every frame ends in exactly one counter: what came in and what was
\* duplicated is what was dropped by the injector, is still on its way or
\* held, or was counted by the layer that dropped or took it; the segments
\* that IP passed on are those that TCP dropped, refused or dispatched; and a
\* frame that is dropped on the NIC's word is in its layer's counter, too.
FramesAccounted ==
    /\ count["rx_pkts"] + count["chains"] + count["fi_dups"] =
          Len(burst) + Len(todo) + Len(ring) + count["fi_drops"] + count["fi_freed"]
              + EthDropped + IpDropped + PassedOn
    /\ count["rx_tcp"] = TcpEnded
    /\ count["rx_drop_cksum_bad"] <= count["csum_bad"] + count["bad_csum"]

\* A flipped byte never reaches a connection unless the NIC had approved the
\* frame before it was flipped and its verdict is trusted.
DamageContained == damaged_in # {} => env.cksum_offload /\ damaged_in = {TRUE}

\* What frames said when they arrived: the addresses in ARP frames of the
\* gateway, and the path MTUs in ICMP frames.
AnnouncedMacs == {f.mac : f \in {g \in arrived : g.eth = "arp" /\ g.sender = GatewayIp}}
AnnouncedMtus == {<<f.about, f.mtu>> : f \in {g \in arrived : g.eth = "ipv4"}}

\* What the network teaches the engine.  The gateway's address is the configured
\* one or one that a frame of the gateway had when it arrived, however frames
\* are dropped, duplicated, held and let go later, unless a frame with a flipped
\* byte taught it: ARP and ICMP have no check against that.  The path MTU to an
\* address is the least of those that icmp_input read for it, in whatever order
\* and however often they come, raised to the minimum, and each of them was in a
\* frame that arrived, with the same exception.
LearnedSound ==
    /\ gateway_mac \in ConfiguredMacs \cup AnnouncedMacs \/ "mac" \in misled
    /\ \A t \in told : t[1] \in DOMAIN pmtu /\ pmtu[t[1]] <= Floored(t[2])
    /\ \A ip \in DOMAIN pmtu : \E t \in told : t[1] = ip /\ pmtu[ip] = Floored(t[2])
    /\ told \subseteq AnnouncedMtus \/ "mtu" \in misled

=============================================================================
