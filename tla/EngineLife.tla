----------------------------- MODULE EngineLife -----------------------------
(***************************************************************************)
(* The life of engines: eal_init, Engine::new step by step, with the       *)
(* failure of every step, the offloads of the port, the scraping of the    *)
(* NIC's statistics, and Drop in the order in which it gives things back.  *)
(*                                                                         *)
(* A thread runs one step of one call at a time; threads interleave.  Each *)
(* engine is created once and dropped by the thread that created it.  The  *)
(* DPDK calls are external: each may fail at any time.  An mbuf owner is   *)
(* the place in the engine that will touch the mbuf when it is dropped.    *)
(***************************************************************************)
EXTENDS Naturals, Sequences, FiniteSets, SequencesExt

CONSTANTS
  Engines,      \* the engines of one execution
  Threads,      \* the threads that create them
  Lcores,       \* lcore ids, from which the pool names are made
  Ports,        \* DPDK ports
  Caps,         \* what a port's driver may offer: offloads, ENA or not, statistics
  Names         \* the sequence XSTAT_NAMES; its head stands for the five ENI allowances

VARIABLES
  eal,       \* EAL_INIT and EAL_INIT_VERDICT
  eng,       \* the engines, with the step that each has reached
  pools,     \* the mempools that exist
  port,      \* the ports: state, the engine whose pool the RX queue uses, offloads
  ptr,       \* THREAD_COUNTERS_PTR of every thread
  held       \* per engine, the owners that hold an mbuf

vars == <<eal, eng, pools, port, ptr, held>>

None == "none"
MAX  == "port_max"       \* port_id == u16::MAX, the test server's bypass

Bits      == {"tx_ip", "tx_tcp", "rx_ip", "rx_tcp", "rss"}
PoolKinds == {"rx", "tx_hdr", "tx_data", "inject"}

(***************************************************************************)
(* The pool that the mbufs of an owner come from.                          *)
(***************************************************************************)
RxOwners == {"scratch", "events", "recv", "injector"}
Owners   == RxOwners \cup {"ring"}
PoolOf(o) == IF o = "ring" THEN "tx_data" ELSE "rx"

Pool(e, kind) == [eng |-> e, kind |-> kind, lcore |-> eng[e].lcore]

(***************************************************************************)
(* The steps of Engine::new, in order: the checks of the RTO bounds, the   *)
(* clock and the histogram edges, the pools, the thread's pointer, the     *)
(* port.  The port's steps are skipped on the bypass port.                 *)
(***************************************************************************)
NewSteps  == <<"checks", "rx", "tx_hdr", "tx_data", "bind">>
PortSteps == <<"configure", "rxq", "txq", "start", "llq", "mac">>

StepsFor(p) == NewSteps \o (IF p = MAX THEN <<>> ELSE PortSteps)

NoCaps == [offloads |-> {}, ena |-> FALSE, xstats |-> {}]

(***************************************************************************)
(* Drop: the owners first, then the port, the pointer, and the fields in   *)
(* the order of their declaration.                                         *)
(***************************************************************************)
PoolsFirst(p) ==
  <<"rx", "tx_hdr", "tx_data", "scratch", "events", "flow", "ring", "injector", "port",
    "unbind", "counters", "inject">>

DropSteps(p) ==
  <<"scratch", "events", "flow", "ring", "injector">>
  \o (IF p = MAX THEN <<>> ELSE <<"port">>)
  \o <<"unbind", "counters", "rx", "tx_hdr", "tx_data", "inject">>

Busy(t) == \E e \in Engines : eng[e].thread = t /\ eng[e].todo # <<>>

(***************************************************************************)
(* eal_init: the flag is set on success only, so a failed call may be      *)
(* repeated; the verdict on LLQ is read from the log of the first call     *)
(* that captured one, and is never replaced.                               *)
(***************************************************************************)
EalInit(t, ok, log) ==
  /\ ~Busy(t)
  /\ ~eal.done
  /\ eal' = [done    |-> ok,
             verdict |-> IF log = "empty" \/ eal.verdict # "unset" THEN eal.verdict ELSE log]
  /\ UNCHANGED <<eng, pools, port, ptr, held>>

(***************************************************************************)
(* dpdk_net_engine_create: a null config, a small event queue or an        *)
(* unknown preset are refused before Engine::new and change nothing.  Two  *)
(* calls for one port do not run at the same time: DPDK's set-up calls are *)
(* not made for that; one after another they may.                          *)
(***************************************************************************)
EngineCreate(t, e, lcore, p, caps) ==
  /\ ~Busy(t)
  /\ eal.done
  /\ eng[e].life = "unborn"
  /\ \A f \in Engines : eng[f].life \in {"new", "drop"} => (eng[f].port # p \/ p = MAX)
  /\ eng' = [eng EXCEPT ![e] = [@ EXCEPT !.life = "new", !.thread = t, !.lcore = lcore,
                                         !.port = p, !.todo = StepsFor(p),
                                         !.caps = IF p = MAX THEN NoCaps ELSE caps]]
  /\ UNCHANGED <<eal, pools, port, ptr, held>>

(***************************************************************************)
(* and_offload_with_miss_counter over the offloads compiled in: what the   *)
(* driver does not advertise is left out and counted.                      *)
(***************************************************************************)
AndOffload(requested, caps) ==
  [bits |-> requested \cap caps, missing |-> requested \ caps]

Latches(bits) == [tx_cksum |-> {"tx_ip", "tx_tcp"} \subseteq bits,
                  rx_cksum |-> {"rx_ip", "rx_tcp"} \subseteq bits,
                  rss      |-> "rss" \in bits]

Started(p) == port[p].state = "started"

(***************************************************************************)
(* One step of Engine::new that succeeds.  DPDK refuses to configure a     *)
(* started port and to create a pool whose name exists.                    *)
(***************************************************************************)
NameTaken(e, kind) == \E q \in pools : q.kind = kind /\ q.lcore = eng[e].lcore

PortCalled(e, step, outcome) ==
  CASE step = "configure" ->
         /\ ~Started(eng[e].port)
         /\ port' = [port EXCEPT ![eng[e].port] =
                       [state |-> "configured", user |-> None, offloads |-> outcome.bits]]
    [] step = "rxq"       -> port' = [port EXCEPT ![eng[e].port].user = e]
    [] step = "start"     -> /\ ~Started(eng[e].port)
                             /\ port' = [port EXCEPT ![eng[e].port].state = "started"]
    [] OTHER              -> UNCHANGED port

LlqPasses(e) == ~eng[e].caps.ena \/ eal.verdict \in {"unset", "active"}

Unborn == [life |-> "unborn", thread |-> None, lcore |-> None, port |-> MAX, todo |-> <<>>,
           caps |-> NoCaps, latch |-> Latches({}), missing |-> {},
           ids |-> [i \in DOMAIN Names |-> FALSE], xstat |-> [i \in DOMAIN Names |-> 0]]

(***************************************************************************)
(* resolve_xstat_ids and Ok(Self): the names that the port exposes.        *)
(***************************************************************************)
Completed(r) ==
  IF Len(r.todo) > 1 THEN [r EXCEPT !.todo = Tail(@)]
  ELSE [r EXCEPT !.todo = <<>>, !.life = "live",
                 !.ids = [i \in DOMAIN Names |-> Names[i] \in r.caps.xstats]]

NewStep(e) ==
  LET step    == Head(eng[e].todo)
      outcome == AndOffload(Bits, eng[e].caps.offloads)
  IN /\ eng[e].life = "new"
     /\ step \in PoolKinds => ~NameTaken(e, step)
     /\ step = "llq" => LlqPasses(e)
     /\ PortCalled(e, step, outcome)
     /\ eng' = [eng EXCEPT ![e] =
          Completed(IF step = "configure"
                    THEN [@ EXCEPT !.latch = Latches(outcome.bits), !.missing = outcome.missing]
                    ELSE @)]
     /\ pools' = IF step \in PoolKinds THEN pools \cup {Pool(e, step)} ELSE pools
     /\ ptr' = IF step = "bind" THEN [ptr EXCEPT ![eng[e].thread] = e] ELSE ptr
     /\ UNCHANGED <<eal, held>>

(***************************************************************************)
(* A step that fails: everything built so far is dropped, the scope guard  *)
(* clears the thread's pointer if it was bound, and the port is left as it *)
(* is.                                                                     *)
(***************************************************************************)
Bound(e) == \A i \in DOMAIN eng[e].todo : eng[e].todo[i] # "bind"

ClearOnErrorForgotten(e) == ptr

ClearOnError(e) == IF Bound(e) THEN [ptr EXCEPT ![eng[e].thread] = None] ELSE ptr

Dead(r) == [Unborn EXCEPT !.life = "dead", !.thread = r.thread, !.lcore = r.lcore]

NewFails(e) ==
  /\ eng[e].life = "new"
  /\ Head(eng[e].todo) # "bind"
  /\ Head(eng[e].todo) = "llq" => ~LlqPasses(e)
  /\ ptr'   = ClearOnError(e)
  /\ pools' = {q \in pools : q.eng # e}
  /\ eng'   = [eng EXCEPT ![e] = Dead(@)]
  /\ UNCHANGED <<eal, port, held>>

-----------------------------------------------------------------------------
(***************************************************************************)
(* The running engine: mbufs come to its owners and leave them, the test   *)
(* pool is made on first use, and the test server clears what it pinned.   *)
(***************************************************************************)
Idle(e) == eng[e].life = "live" /\ ~Busy(eng[e].thread)

Own(e, o) ==
  /\ Idle(e) /\ o \notin held[e]
  /\ held' = [held EXCEPT ![e] = @ \cup {o}]
  /\ UNCHANGED <<eal, eng, pools, port, ptr>>

Release(e, o) ==
  /\ Idle(e) /\ o \in held[e]
  /\ held' = [held EXCEPT ![e] = @ \ {o}]
  /\ UNCHANGED <<eal, eng, pools, port, ptr>>

TestInjectPool(e) ==
  /\ Idle(e) /\ ~NameTaken(e, "inject")
  /\ pools' = pools \cup {Pool(e, "inject")}
  /\ UNCHANGED <<eal, eng, port, ptr, held>>

TestClearPinned(e) ==
  /\ Idle(e)
  /\ held' = [held EXCEPT ![e] = @ \ {"scratch", "events", "recv"}]
  /\ UNCHANGED <<eal, eng, pools, port, ptr>>

(***************************************************************************)
(* scrape: the ids that were resolved are asked for in one call; values    *)
(* come back packed and are spread to the counters by query_index.  On an  *)
(* error the allowances are zeroed and the queue counters keep their last  *)
(* value.  The port's own statistic of the i-th name is i.                 *)
(***************************************************************************)
QueryIndex(ids) == SelectSeq([i \in DOMAIN Names |-> i], LAMBDA i : ids[i])

Spread(ids) ==
  LET got == QueryIndex(ids)
  IN [i \in DOMAIN Names |->
        IF \E k \in DOMAIN got : got[k] = i
        THEN got[CHOOSE k \in DOMAIN got : got[k] = i] ELSE 0]

ScrapeXstats(e, ok) ==
  /\ Idle(e)
  /\ QueryIndex(eng[e].ids) = <<>> => ok
  /\ eng' = [eng EXCEPT ![e].xstat =
               IF ok THEN Spread(eng[e].ids) ELSE [@ EXCEPT ![1] = 0]]
  /\ UNCHANGED <<eal, pools, port, ptr, held>>

-----------------------------------------------------------------------------
EngineDestroy(e) ==
  /\ Idle(e)
  /\ eng' = [eng EXCEPT ![e] = [@ EXCEPT !.life = "drop", !.todo = DropSteps(eng[e].port)]]
  /\ UNCHANGED <<eal, pools, port, ptr, held>>

Released(step) ==
  CASE step = "flow" -> {"recv"}
    [] OTHER         -> {step}

DropStep(e) ==
  LET step == Head(eng[e].todo)
      rest == Tail(eng[e].todo)
  IN /\ eng[e].life = "drop"
     /\ eng'  = [eng EXCEPT ![e] = IF rest = <<>> THEN Dead(@) ELSE [@ EXCEPT !.todo = rest]]
     /\ held' = [held EXCEPT ![e] = @ \ Released(step)]
     /\ port' = IF step # "port" THEN port
                ELSE [port EXCEPT ![eng[e].port] =
                        [state |-> "closed", user |-> None, offloads |-> {}]]
     /\ ptr'  = IF step = "unbind" THEN [ptr EXCEPT ![eng[e].thread] = None] ELSE ptr
     /\ pools' = {q \in pools : ~(q.eng = e /\ q.kind = step)}
     /\ UNCHANGED eal

-----------------------------------------------------------------------------
Init ==
  /\ eal   = [done |-> FALSE, verdict |-> "unset"]
  /\ eng   = [e \in Engines |-> Unborn]
  /\ pools = {}
  /\ port  = [p \in Ports |-> [state |-> "closed", user |-> None, offloads |-> {}]]
  /\ ptr   = [t \in Threads |-> None]
  /\ held  = [e \in Engines |-> {}]

(***************************************************************************)
(* When every engine is dead the program is over.                          *)
(***************************************************************************)
Over ==
  /\ \A e \in Engines : eng[e].life = "dead"
  /\ UNCHANGED vars

Next ==
  \/ \E t \in Threads, ok \in BOOLEAN, log \in {"empty", "active", "failed"} : EalInit(t, ok, log)
  \/ \E t \in Threads, e \in Engines, l \in Lcores, p \in Ports \cup {MAX}, c \in Caps :
        EngineCreate(t, e, l, p, c)
  \/ \E e \in Engines : NewStep(e) \/ NewFails(e) \/ EngineDestroy(e) \/ DropStep(e)
  \/ \E e \in Engines : TestInjectPool(e) \/ TestClearPinned(e)
  \/ \E e \in Engines, o \in Owners : Own(e, o) \/ Release(e, o)
  \/ \E e \in Engines, ok \in BOOLEAN : ScrapeXstats(e, ok)
  \/ Over

Spec == Init /\ [][Next]_vars

-----------------------------------------------------------------------------
(***************************************************************************)
(* Whatever still holds an mbuf of an engine - its event scratch, event    *)
(* queue, connections, TX ring or fault injector - holds it while the pool *)
(* that the mbuf belongs to exists: Drop clears every owner before the     *)
(* pools, although the pools are declared before them.                     *)
(***************************************************************************)
PoolsOutliveMbufs == \A e \in Engines : \A o \in held[e] : Pool(e, PoolOf(o)) \in pools

(***************************************************************************)
(* THREAD_COUNTERS_PTR, through which the drop of an mbuf handle counts,   *)
(* is null or points to counters that exist: those of an engine being      *)
(* built, live, or being dropped and not yet past its counters, whichever  *)
(* step of Engine::new failed on that thread.                              *)
(***************************************************************************)
CountersPtrSound ==
  \A t \in Threads : ptr[t] # None =>
     LET r == eng[ptr[t]]
     IN r.life \in {"new", "live"} \/ (r.life = "drop" /\ ToSet(r.todo) \cap {"counters"} # {})

(***************************************************************************)
(* Mempool::drop: "no other references should exist".  The RX queue of a   *)
(* port that is configured or started refers to a pool that exists.        *)
(***************************************************************************)
PoolFreedLast ==
  \A p \in Ports : Started(p) => Pool(port[p].user, "rx") \in pools
=============================================================================
