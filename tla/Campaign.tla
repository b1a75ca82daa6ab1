------------------------------ MODULE Campaign ------------------------------
(* The closed-loop echo tools.  bench-e2e and bench-ab-runner measure one   *)
(* connection, bench-vs-linux one per stack; bench-stress and               *)
(* layer-h-correctness sweep over scenarios, each with a netem qdisc on the *)
(* peer, a fault-injector spec in the engine, a connection of its own and a *)
(* verdict.                                                                 *)
(*                                                                          *)
(* The tools are one thread: a step is one pass of one of their loops, with *)
(* the poll_once it makes.  `left' counts the passes that fit into a        *)
(* deadline.  The engine's event queue is kept as what matters of it        *)
(* between two drains: the connections whose end was reported and not read. *)
EXTENDS Integers, Sequences, FiniteSets, SequencesExt

CONSTANTS
    Matrix,     \* the scenarios: netem, fi, all, any, stage2
    SmokeSet,   \* layer-h's SMOKE_SET, as positions in Matrix
    Commands,   \* the command lines the tools are run with
    Checks,     \* the host preconditions that are checked
    Handles,    \* slots of the flow table
    Patience,   \* passes of a loop that fit into RTT_TIMEOUT
    Batches     \* batches that fit into a layer-h scenario's duration

ASSUME CampaignAssumption ==
    /\ Handles \subseteq Nat \ {0} /\ IsFiniteSet(Handles)
    /\ Patience \in Nat \ {0} /\ Batches \in Nat

VARIABLES
    opt,    \* the command line, the scenarios it selects, the engine's FI spec
    at,     \* the step, the scenario (0: the idle baseline), the exit code
    peer,   \* the qdisc on the peer, whether a NetemGuard is held for it, and
            \* (ghost) whether one was left behind
    net,    \* the flow table, unread ends, and the bytes not yet echoed
    load,   \* the locals of run_one_scenario and of the workload call
    rec     \* the verdicts so far
vars == <<opt, at, peer, net, load, rec>>

Tool == opt.tool
At(step) == at.step = step
Go(step) == at' = [at EXCEPT !.step = step]
Stop(code) == at' = [at EXCEPT !.step = "done", !.exit = code]
\* An error that leaves main: layer-h exits with 2, the others with 1.
AbortCode == IF Tool = "layer_h" THEN 2 ELSE 1
Aborted == at' = [at EXCEPT !.step = "aborted", !.exit = AbortCode]
Abort == Aborted /\ UNCHANGED <<opt, peer, net, load, rec>>
Exit == Stop(0) /\ UNCHANGED <<opt, peer, net, load, rec>>

Idle == [conn |-> 0, warm |-> 0, todo |-> 0, sent |-> 0, got |-> 0, carry |-> 0, left |-> 0,
         batches |-> 0, moved |-> {}, failed |-> FALSE, why |-> "none", est |-> TRUE,
         done |-> 0, delivered |-> 0]

Scenario == opt.plan[at.n]
Mine == load.conn
Live(h) == net.table[h] # "free"

--------------------------------------------------------------------------
(* Selection and bring-up.                                                 *)

Pick(names) == [i \in DOMAIN names |-> Matrix[names[i]]]
Known(names) == \A i \in DOMAIN names : names[i] \in DOMAIN Matrix
IsStage2Placeholder(s) == s.stage2
\* bench-stress: every scenario but the placeholders, or the ones named; an
\* unknown name and a placeholder are errors.
Resolvable(names) == Known(names) /\ \A i \in DOMAIN names : ~IsStage2Placeholder(Matrix[names[i]])
ResolveScenarios(names) ==
    IF names = <<>> THEN SelectSeq(Matrix, LAMBDA s : ~IsStage2Placeholder(s)) ELSE Pick(names)
\* layer-h: the smoke set, or every scenario without a fault injector, or the
\* ones named.
ResolveSelection(names, smoke) ==
    IF smoke THEN Pick(SmokeSet)
    ELSE IF names = <<>> THEN SelectSeq(Matrix, LAMBDA s : s.fi = "none") ELSE Pick(names)

Specs(sel) == {sel[i].fi : i \in DOMAIN sel} \ {"none"}
\* enforce_single_fi_spec: at most one, since the engine reads it once.
\* Scenarios without a spec may be mixed in.
EnforceSingleFiSpec(sel) == Cardinality(Specs(sel)) <= 1
\* fi_spec: the first one found.
FiSpec(sel) == IF Specs(sel) = {} THEN "none" ELSE CHOOSE s \in Specs(sel) : TRUE
\* layer-h: in-process netem needs the peer's address and interface.
NetemArgs(sel) == opt.external \/ opt.ssh \/ \A i \in DOMAIN sel : ~sel[i].netem

\* What the script, or the environment, may hold: nothing, bytes that do not
\* parse, or an answer to each check (a check may be missing from it).
Sources == {[kind |-> "missing"], [kind |-> "garbage"]} \cup
           [kind : {"json"}, checks : [Checks -> {"pass", "fail", "na", "absent"}]]
Unparsed == [ok |-> FALSE]
Parsed(values) == [ok |-> TRUE, checks |-> values]
\* parse_preconditions_json: a check that is absent keeps its default, a pass.
ParsePreconditionsJson(source) ==
    IF source.kind = "garbage" THEN Unparsed
    ELSE Parsed([c \in Checks |-> IF source.checks[c] = "absent" THEN "pass" ELSE source.checks[c]])
\* run_preconditions_check: the script is preferred.  Without either, strict
\* mode has an error, and lenient mode a value for every check.
PreconditionsCheck(script, env, default) ==
    CASE script.kind # "missing" -> ParsePreconditionsJson(script)
      [] script.kind = "missing" /\ env.kind # "missing" -> ParsePreconditionsJson(env)
      [] OTHER -> IF opt.strict THEN Unparsed ELSE Parsed([c \in Checks |-> default])
\* bench-ab-runner, bench-stress and bench-vs-linux have copies of it; only
\* the last one does not claim a pass for what it did not check.
E2ePreconditions(script, env) == PreconditionsCheck(script, env, "pass")
AbPreconditions(script, env) == PreconditionsCheck(script, env, "pass")
StressPreconditions(script, env) == PreconditionsCheck(script, env, "pass")
LinuxPreconditions(script, env) == PreconditionsCheck(script, env, "na")
\* preconditions_all_pass, which only strict mode asks for.
AllPass(checks) == \A c \in Checks : checks[c] \in {"pass", "na"}
Admitted(p) == p.ok /\ (opt.strict => AllPass(p.checks))
\* eal_init, build_engine, the TSC frequency, the metadata and the CSV file:
\* any may fail.
BringUp == BOOLEAN

\* The counters of the snapshots: those that the expectations name.
CounterNames(sel) ==
    UNION {{e.counter : e \in sel[i].all} \cup UNION {g.counters : g \in sel[i].any} : i \in DOMAIN sel}
\* layer-h adds those of the side checks.
SelectCounterNames(sel) == CounterNames(sel) \cup {"events_dropped"}
Relations == {">0", "==0"}
\* pre_flight_validate: every relation of the selection parses.
PreFlightValidate(sel) ==
    \A i \in DOMAIN sel : \A e \in sel[i].all \cup sel[i].any : e.relation \in Relations

Begin(sel, n) ==
    /\ opt' = [opt EXCEPT !.plan = sel, !.fi = FiSpec(sel),
         !.counters = IF Tool = "layer_h" THEN SelectCounterNames(sel) ELSE CounterNames(sel)]
    /\ at' = [at EXCEPT !.step = IF n = 0 \/ Len(sel) = 0 THEN "open" ELSE "netem", !.n = n]
    /\ UNCHANGED <<peer, net, load, rec>>

\* bench-stress main: --list-scenarios ends it before the FI specs are
\* compared; the idle baseline is skipped when the engine injects faults.
MainStress ==
    /\ At("start") /\ Tool = "stress"
    /\ LET sel == ResolveScenarios(opt.names)
       IN  \/ ~Resolvable(opt.names) /\ Abort
           \/ Resolvable(opt.names) /\ opt.list /\ Exit
           \/ /\ Resolvable(opt.names) /\ ~opt.list
              /\ \E script \in Sources, env \in Sources, up \in BringUp :
                  IF EnforceSingleFiSpec(sel) /\ Admitted(StressPreconditions(script, env)) /\ up
                  THEN Begin(sel, IF FiSpec(sel) = "none" THEN 0 ELSE 1) ELSE Abort

\* layer-h run: the specs are compared before --list-scenarios; a report in
\* the way, and relations or counters that do not resolve, end it at once.
MainLayerH ==
    /\ At("start") /\ Tool = "layer_h"
    /\ LET sel == ResolveSelection(opt.names, opt.smoke)
           sound == Known(opt.names) /\ EnforceSingleFiSpec(sel)
       IN  \E clobbers \in BOOLEAN, up \in BringUp :
           \/ ~(sound /\ ~clobbers) /\ Abort
           \/ sound /\ ~clobbers /\ opt.list /\ Exit
           \/ /\ sound /\ ~clobbers /\ ~opt.list
              /\ IF NetemArgs(sel) /\ PreFlightValidate(sel) /\ up THEN Begin(sel, 1) ELSE Abort

\* bench-e2e main
MainE2e ==
    /\ At("start") /\ Tool = "e2e"
    /\ \E script \in Sources, env \in Sources, up \in BringUp :
        IF Admitted(E2ePreconditions(script, env)) /\ up THEN Begin(<<>>, 1) ELSE Abort
\* bench-ab-runner main: it looks at the TSC frequency after connecting.
MainAb ==
    /\ At("start") /\ Tool = "ab"
    /\ \E script \in Sources, env \in Sources, up \in BringUp :
        IF Admitted(AbPreconditions(script, env)) /\ up THEN Begin(<<>>, 1) ELSE Abort

\* bench-vs-linux: parse_stacks drops repetitions.
ParseStacks(tokens) ==
    FoldLeft(LAMBDA acc, t : IF Contains(acc, t) THEN acc ELSE Append(acc, t), <<>>, tokens)
StackNames == {"dpdk_net", "linux_kernel", "afpacket", "fstack"}
\* Lenient mode leaves out what is not implemented or not built.
Offered(s) == opt.strict \/ (s # "afpacket" /\ (s = "fstack" => opt.fstack))
\* bench-vs-linux main, mode rtt: only dpdk_net needs the engine; every
\* selection needs the metadata, the CSV file and the peer's address.
MainLinux ==
    /\ At("start") /\ Tool = "rtt"
    /\ LET stacks == SelectSeq(ParseStacks(opt.names), Offered)
       IN  \E script \in Sources, env \in Sources, up \in BringUp, ready \in BOOLEAN :
           IF /\ ready /\ ToSet(opt.names) \subseteq StackNames /\ stacks # <<>>
              /\ Admitted(LinuxPreconditions(script, env))
              /\ Contains(stacks, "dpdk_net") => up
           THEN /\ opt' = [opt EXCEPT !.stacks = stacks]
                /\ at' = [at EXCEPT !.step = "open", !.n = 1]
                /\ UNCHANGED <<peer, net, load, rec>>
           ELSE Abort

--------------------------------------------------------------------------
(* Netem on the peer, over ssh.                                            *)

NeedsNetem == Scenario.netem /\ ~opt.external
\* A mutant: the guard is not bound to a name, and is dropped at once.
AppliedUnbound(n) == [peer EXCEPT !.qdisc = 0]
\* NetemGuard::apply succeeded: a guard is held.
Applied(n) == [peer EXCEPT !.qdisc = n, !.guard = TRUE]
\* The ssh call failed after tc had run: a qdisc, and no guard.
Orphaned(n) == [peer EXCEPT !.qdisc = n, !.orphan = TRUE]
\* NetemGuard::drop: best effort.
Dropped ==
    IF peer.guard
    THEN {[peer EXCEPT !.qdisc = 0, !.guard = FALSE], [peer EXCEPT !.guard = FALSE, !.orphan = TRUE]}
    ELSE {peer}

\* Where an error takes the tool.  bench-stress turns the error of a scenario
\* into a verdict, layer-h only those of the connection and of a batch.
Handler(why) ==
    CASE Tool = "stress" /\ at.n > 0 -> "leave"
      [] Tool = "layer_h" /\ why \in {"connect", "stale"} -> "leave"
      [] Tool = "layer_h" /\ why = "batch" -> "final"
      [] OTHER -> "quit"
Raise(l, why) == Go(Handler(why)) /\ load' = [l EXCEPT !.failed = TRUE, !.why = why]

\* The head of a scenario.  tc refuses a second root qdisc.  bench-stress
\* takes its first counter snapshot here.
ApplyNetem ==
    /\ At("netem") /\ UNCHANGED <<opt, net, rec>>
    /\ \/ ~NeedsNetem /\ Go("open") /\ load' = Idle /\ UNCHANGED peer
       \/ NeedsNetem /\ peer.qdisc = 0 /\ peer' = Applied(at.n) /\ Go("open") /\ load' = Idle
       \/ NeedsNetem /\ Raise(Idle, "netem") /\ UNCHANGED peer
       \/ NeedsNetem /\ peer.qdisc = 0 /\ peer' = Orphaned(at.n) /\ Raise(Idle, "netem")

--------------------------------------------------------------------------
(* The connection.                                                         *)

\* FlowTable::insert takes the lowest free slot: the slot of a connection
\* that has ended is the next one's.
FreeSlot == Min({h \in Handles : ~Live(h)})
\* run_rtt_workload: warm-up iterations, then measured ones.  carry_forward is
\* a local of the call.
Call(l, warm, todo) ==
    /\ load' = [l EXCEPT !.warm = warm, !.todo = todo, !.sent = 0, !.got = 0, !.carry = 0,
                         !.left = Patience, !.done = 0, !.delivered = 0]
    /\ Go(IF warm + todo = 0 THEN "check" ELSE "send")
\* bench-e2e's run_workload: the same, with a check of each measured sample.
RunWorkload(l) == Call(l, opt.warm, opt.iters)
\* bench-ab-runner's workload::run
AbRun(l) == Call(l, opt.warm, opt.iters)

\* open_connection with the slot h: drain_until_connected_or_error reads the
\* queue from its head, so an end of an earlier connection that nobody read
\* counts as the end of this one.
Opens(h) ==
    /\ h \notin net.unread
    /\ net' = [net EXCEPT !.table[h] = "est", !.unread = {}, !.owed = 0]
    /\ LET l == [load EXCEPT !.conn = h]
       IN  CASE Tool = "e2e" -> RunWorkload(l)
             [] Tool = "ab" -> AbRun(l)
             [] Tool \in {"stress", "rtt"} -> Call(l, opt.warm, opt.iters)
             [] Tool = "layer_h" -> Call([l EXCEPT !.batches = Batches + 1], 0, opt.warm)
OpenFails(h) ==
    \/ /\ h \in net.unread /\ Raise(load, "stale")
       /\ \E rest \in SUBSET (net.unread \ {h}) :
            net' = [net EXCEPT !.table[h] = "left", !.unread = rest]
    \/ Raise(load, "connect") /\ net' = net                  \* no gateway
    \/ /\ h \notin net.unread /\ Raise(load, "connect")
       /\ \/ net' = [net EXCEPT !.unread = {}]               \* refused
          \/ net' = [net EXCEPT !.unread = {h}]              \* SYNs used up: Error, then Closed
          \/ net' = [net EXCEPT !.unread = {}, !.table[h] = "left"]  \* no answer in time
\* All but two of bench-vs-linux's stacks drive the engine.
OnEngine == Tool = "rtt" => opt.stacks[at.n] = "dpdk_net"
OpenConnection ==
    /\ At("open") /\ OnEngine /\ UNCHANGED <<opt, peer, rec>>
    /\ Opens(FreeSlot) \/ OpenFails(FreeSlot)

--------------------------------------------------------------------------
(* One request and its response: request_response_attributed, and          *)
(* bench-ab-runner's request_response_once.                                *)

\* What a poll does: bytes come back, the connection may leave ESTABLISHED
\* (a FIN) or end (a reset, or a timeout with its two events), an error may be
\* reported of it, connections of earlier scenarios may end, counters move.
Others == {h \in Handles : Live(h) /\ h # Mine}
Polls(owed) ==
    {p \in [bytes : 0 .. owed, end : {"none", "fin", "rst", "timeout", "error"},
            gone : SUBSET Others, unread : SUBSET Others, moved : SUBSET opt.counters] :
        /\ p.unread \subseteq p.gone
        /\ p.end \in {"none", "fin"} => p.unread = {}
        /\ net.table[Mine] # "est" => p.bytes = 0 /\ p.end # "fin"}
\* drain_and_accumulate_readable fails at the first Error or Closed of the
\* connection, and leaves the rest of the queue where it is: after a timeout,
\* the Closed event of the same connection.
DrainFails(p) == p.end \in {"rst", "timeout", "error"}
Unread(p) == p.unread \cup (IF p.end = "timeout" THEN {Mine} ELSE {})
After(p, owed) ==
    [table |-> [h \in Handles |-> IF h \in p.gone THEN "free"
                                  ELSE IF h # Mine THEN net.table[h]
                                  ELSE CASE p.end \in {"rst", "timeout"} -> "free"
                                         [] p.end = "fin" -> "left"
                                         [] OTHER -> net.table[h]],
     unread |-> Unread(p), owed |-> owed - p.bytes]

\* The workload's error: the warm-up's ends layer-h, a batch's does not.
CallFails == Raise(load, IF Tool = "layer_h" /\ load.batches > Batches THEN "warmup" ELSE "batch")

\* A mutant: what a drain of the send phase reads is not kept.
CarriedLost(l, bytes) == l
\* *carry_forward = carry_forward.saturating_add(...)
Carried(l, bytes) == [l EXCEPT !.carry = @ + bytes]
\* let mut got = *carry_forward; *carry_forward = 0
Received(l) == [l EXCEPT !.got = l.carry, !.carry = 0, !.left = Patience]
\* if got > response_bytes { *carry_forward = got - response_bytes }
Excess(l) == [l EXCEPT !.carry = l.got - opt.response, !.got = 0, !.sent = 0, !.left = Patience]

\* send_bytes fails unless the connection is ESTABLISHED; a partial accept is
\* followed by a poll and a drain; the deadline is the phase's.
SendPhase ==
    /\ At("send") /\ OnEngine /\ UNCHANGED <<opt, peer, rec>>
    /\ \/ CallFails /\ UNCHANGED net
       \/ /\ net.table[Mine] = "est"
          /\ Go("recv") /\ net' = [net EXCEPT !.owed = @ + opt.request - load.sent]
          /\ load' = Received(load)
       \/ /\ net.table[Mine] = "est"
          /\ \E n \in 0 .. opt.request - load.sent - 1 : \E p \in Polls(net.owed + n) :
              /\ net' = After(p, net.owed + n)
              /\ IF DrainFails(p) \/ load.left = 1 THEN CallFails
                 ELSE /\ load' = [Carried(load, p.bytes) EXCEPT
                                     !.sent = @ + n, !.left = @ - 1,
                                     !.moved = @ \cup p.moved, !.delivered = @ + p.bytes]
                      /\ UNCHANGED at

RecvPhase ==
    /\ At("recv") /\ OnEngine /\ load.got < opt.response /\ UNCHANGED <<opt, peer, rec>>
    /\ \E p \in Polls(net.owed) :
        /\ net' = After(p, net.owed)
        /\ IF DrainFails(p) \/ (load.got + p.bytes < opt.response /\ load.left = 1) THEN CallFails
           ELSE /\ load' = [load EXCEPT !.got = @ + p.bytes, !.left = @ - 1,
                                        !.moved = @ \cup p.moved, !.delivered = @ + p.bytes]
                /\ UNCHANGED at

\* assert_sum_identity: the buckets are rounded one by one.
SumIdentity(measured) == IF Tool = "e2e" /\ measured THEN BOOLEAN ELSE {TRUE}
\* The response is complete; more than it is carried to the next iteration of
\* this call.  Then the next iteration, or the call returns.
Sampled ==
    /\ At("recv") /\ load.got >= opt.response /\ UNCHANGED <<opt, peer, net, rec>>
    /\ LET warming == load.warm > 0
           l == [Excess(load) EXCEPT
                             !.done = @ + 1, !.warm = IF warming THEN @ - 1 ELSE @,
                             !.todo = IF warming THEN @ ELSE @ - 1]
       IN  \E agrees \in SumIdentity(~warming) :
           IF ~agrees THEN Raise(l, "batch")
           ELSE /\ load' = l
                /\ Go(IF l.warm + l.todo = 0 THEN "check" ELSE "send")

--------------------------------------------------------------------------
(* The socket stacks of bench-vs-linux.                                    *)

\* linux_kernel::connect; fstack::connect, when it is built in; AF_PACKET is
\* a stub.
LinuxConnect == BOOLEAN
FstackConnect == IF opt.fstack THEN BOOLEAN ELSE {FALSE}
SocketConnect ==
    /\ At("open") /\ ~OnEngine /\ UNCHANGED <<opt, peer, rec>>
    /\ \E ok \in CASE opt.stacks[at.n] = "linux_kernel" -> LinuxConnect
                   [] opt.stacks[at.n] = "fstack" -> FstackConnect
                   [] OTHER -> {FALSE} :
        IF ok THEN Call(load, opt.warm, opt.iters) /\ net' = [net EXCEPT !.owed = 0]
        ELSE Raise(load, "connect") /\ UNCHANGED net
\* write_all, and the loop around ff_write: all of the request, or an error.
SocketWrite ==
    /\ At("send") /\ ~OnEngine /\ UNCHANGED <<opt, peer, rec>>
    /\ \/ CallFails /\ UNCHANGED net
       \/ /\ Go("recv") /\ load' = Received(load)
          /\ net' = [net EXCEPT !.owed = @ + opt.request]
\* read_exact, and the loop around ff_read: never more than the response, so
\* that the rest waits in the socket; the end of the stream is an error.
SocketRead ==
    /\ At("recv") /\ ~OnEngine /\ load.got < opt.response /\ UNCHANGED <<opt, peer, rec>>
    /\ \/ CallFails /\ UNCHANGED net
       \/ \E n \in 1 .. net.owed :
            /\ load.got + n <= opt.response /\ UNCHANGED at
            /\ load' = [load EXCEPT !.got = @ + n, !.delivered = @ + n]
            /\ net' = [net EXCEPT !.owed = @ - n]

--------------------------------------------------------------------------
(* Checks and verdicts.                                                    *)

\* Relation::check on the delta of two snapshots.
Check(relation, moved) == IF relation = ">0" THEN moved ELSE ~moved
\* bench-stress's assert_delta: the first that fails is the scenario's error.
AssertDelta(s, moved) == \A e \in s.all : Check(e.relation, e.counter \in moved)
\* evaluate_counter_expectations
CounterExpectations(s, moved) == \A e \in s.all : Check(e.relation, e.counter \in moved)
\* evaluate_disjunctive: one counter of each group is enough.
Disjunctive(s, moved) == \A g \in s.any : \E c \in g.counters : Check(g.relation, c \in moved)
\* evaluate_global_side_checks
GlobalSideChecks(moved) == "events_dropped" \notin moved

\* The p999 ratio is only checked against a baseline.
P999Ratio == IF opt.fi = "none" THEN BOOLEAN ELSE {TRUE}
\* emit_scenario_rows: the writer may fail.
ScenarioRows == BOOLEAN
\* The samples, the second snapshot, the expectations, the ratio, the rows.
CheckStress ==
    /\ At("check") /\ Tool = "stress" /\ at.n > 0 /\ UNCHANGED <<opt, peer, net, rec>>
    /\ \E ratio \in P999Ratio, written \in ScenarioRows :
        IF opt.iters > 0 /\ AssertDelta(Scenario, load.moved) /\ ratio /\ written
        THEN Go("leave") /\ UNCHANGED load ELSE Raise(load, "check")
\* run_idle_baseline: its p999 is what the scenarios are compared with.
CheckBaseline ==
    /\ At("check") /\ Tool = "stress" /\ at.n = 0 /\ UNCHANGED <<opt, peer, net, rec, load>>
    /\ IF opt.iters > 0 THEN at' = [at EXCEPT !.step = "netem", !.n = 1] ELSE Go("quit")

\* assert_hw_task_18_post_run and assert_all_events_rx_hw_ts_ns_zero, on request.
HwTask18 == IF opt.task18 THEN BOOLEAN ELSE {TRUE}
\* emit_csv refuses an empty set of samples, or cannot write.
EmitCsv(written) == opt.iters > 0 /\ written
CheckE2e ==
    /\ At("check") /\ Tool = "e2e" /\ UNCHANGED <<opt, peer, net, load, rec>>
    /\ \E sound \in HwTask18, written \in BOOLEAN :
        IF sound /\ EmitCsv(written) THEN Stop(0) ELSE Go("quit")
CheckAb ==
    /\ At("check") /\ Tool = "ab" /\ UNCHANGED <<opt, peer, net, load, rec>>
    /\ \E written \in BOOLEAN :
        IF opt.iters > 0 /\ written THEN Stop(0) ELSE Go("quit")

\* run_mode_rtt: the rows of a stack, then the next one; an F-Stack socket is
\* closed, and any error ends the tool.
CheckLinux ==
    /\ At("check") /\ Tool = "rtt" /\ load' = Idle /\ UNCHANGED <<opt, peer, net, rec>>
    /\ \E written \in BOOLEAN :
        IF ~(opt.iters > 0 /\ written) THEN Go("quit")
        ELSE IF at.n = Len(opt.stacks) THEN Stop(0)
        ELSE at' = [at EXCEPT !.step = "open", !.n = @ + 1]

\* layer-h: the warm-up returned.  Its events are thrown away and the
\* assertion window opens with the first snapshot.
OpenWindow ==
    /\ At("check") /\ Tool = "layer_h" /\ load.batches > Batches
    /\ net' = [net EXCEPT !.unread = {}]
    /\ load' = [load EXCEPT !.batches = Batches, !.moved = {}]
    /\ Go("observe") /\ UNCHANGED <<opt, peer, rec>>
BatchDone ==
    /\ At("check") /\ Tool = "layer_h" /\ load.batches <= Batches
    /\ Go("observe") /\ UNCHANGED <<opt, peer, net, load, rec>>

\* check_rx_mempool_floor: the gauge may be below its minimum at any time.
RxMempoolFloor == BOOLEAN
\* check_events_dropped_delta: against the value at the last look, which was
\* that of the first snapshot, or the scenario would have ended.
EventsDropped(moved) == "events_dropped" \notin moved
\* observe_batch: the state first, then the events, then the live checks.  The
\* workload has drained the queue before it is looked at, so no StateChange is
\* ever seen by the replay.
Observed(floor) == net.table[Mine] = "est" /\ floor /\ EventsDropped(load.moved)
\* The queue is read only when the state was right.
ObservedQueue == IF net.table[Mine] = "est" THEN [net EXCEPT !.unread = {}] ELSE net
ObserveBatch ==
    /\ At("observe") /\ UNCHANGED <<opt, peer, rec>>
    /\ \/ Go("final") /\ UNCHANGED <<net, load>>             \* the deadline
       \/ /\ load.batches > 0 /\ net' = ObservedQueue
          /\ \E floor \in RxMempoolFloor :
              IF Observed(floor) THEN Call([load EXCEPT !.batches = @ - 1], 0, opt.iters)
              ELSE Go("final") /\ load' = [load EXCEPT !.failed = TRUE, !.why = "observe"]

\* close_conn is best effort; it leaves ESTABLISHED.
Closing(table) == [net EXCEPT !.table[Mine] = IF table[Mine] = "free" THEN "free" ELSE "left"]
\* A mutant: no last look after the last batch.
JudgedUnobserved(floor) ==
    \/ load.failed \/ ~CounterExpectations(Scenario, load.moved)
    \/ ~Disjunctive(Scenario, load.moved) \/ ~GlobalSideChecks(load.moved)
\* All failures count: the last look, the error of a batch, the counters.
Judged(floor) ==
    \/ load.failed \/ ~Observed(floor) \/ ~CounterExpectations(Scenario, load.moved)
    \/ ~Disjunctive(Scenario, load.moved) \/ ~GlobalSideChecks(load.moved)
FinalObserve ==
    /\ At("final") /\ UNCHANGED <<opt, peer, rec>>
    /\ \E floor \in RxMempoolFloor :
        load' = [load EXCEPT !.failed = Judged(floor), !.est = net.table[Mine] = "est"]
    /\ net' = [Closing(net.table) EXCEPT !.unread = ObservedQueue.unread]
    /\ Go("leave")

NextScenario ==
    at' = IF at.n = Len(opt.plan) THEN [at EXCEPT !.step = "end"]
          ELSE [at EXCEPT !.step = "netem", !.n = @ + 1]
Verdict == [pass |-> ~load.failed, why |-> load.why, est |-> load.est]
\* run_one_scenario returns and its guard is dropped.  A failure is kept, with
\* a sentinel row if that can be written, and the sweep goes on.
LeaveStress ==
    /\ At("leave") /\ Tool = "stress" /\ peer' \in Dropped
    /\ rec' = Append(rec, Verdict) /\ NextScenario
    /\ load' = Idle /\ UNCHANGED <<opt, net>>
\* write_failure_bundle: an error gives up the sweep, and its earlier results.
FailureBundle == IF load.failed THEN BOOLEAN ELSE {TRUE}
\* The end of the loop's body, where the guard is dropped.
LeaveLayerH ==
    /\ At("leave") /\ Tool = "layer_h" /\ peer' \in Dropped
    /\ \E written \in FailureBundle :
        IF written THEN rec' = Append(rec, Verdict) /\ NextScenario ELSE Aborted /\ UNCHANGED rec
    /\ load' = Idle /\ UNCHANGED <<opt, net>>
\* An error leaves main; the guard of the scenario is dropped on the way.
Quit == At("quit") /\ peer' \in Dropped /\ Aborted /\ UNCHANGED <<opt, net, load, rec>>

AnyFail == \E i \in DOMAIN rec : ~rec[i].pass
\* bench-stress: the last flush; the first failure is the error of main.
FinishStress ==
    /\ At("end") /\ Tool = "stress"
    /\ \/ Stop(IF AnyFail THEN 1 ELSE 0) /\ UNCHANGED <<opt, peer, net, load, rec>>
       \/ Abort
\* layer-h: the report, then 1 if a scenario failed.
FinishLayerH ==
    /\ At("end") /\ Tool = "layer_h"
    /\ \E written \in BOOLEAN :
        IF written THEN Stop(IF AnyFail THEN 1 ELSE 0) ELSE Aborted
    /\ UNCHANGED <<opt, peer, net, load, rec>>

--------------------------------------------------------------------------
Init ==
    /\ opt \in Commands
    /\ at = [step |-> "start", n |-> 0, exit |-> 0]
    /\ peer = [qdisc |-> 0, guard |-> FALSE, orphan |-> FALSE]
    /\ net = [table |-> [h \in Handles |-> "free"], unread |-> {}, owed |-> 0]
    /\ load = Idle /\ rec = <<>>

Finished == at.step \in {"done", "aborted"} /\ UNCHANGED vars

Next ==
    \/ MainStress \/ MainLayerH \/ MainE2e \/ MainAb \/ MainLinux
    \/ ApplyNetem \/ OpenConnection \/ SendPhase \/ RecvPhase \/ Sampled
    \/ SocketConnect \/ SocketWrite \/ SocketRead
    \/ CheckStress \/ CheckBaseline \/ CheckE2e \/ CheckAb \/ CheckLinux \/ OpenWindow \/ BatchDone
    \/ ObserveBatch \/ FinalObserve \/ LeaveStress \/ LeaveLayerH \/ Quit
    \/ FinishStress \/ FinishLayerH
    \/ Finished

Spec == Init /\ [][Next]_vars

--------------------------------------------------------------------------
(* Properties.                                                             *)

\* No byte of a response is lost or counted for two samples: what the drains
\* of a workload call have read is what its samples took, plus what is
\* counted for the current one, in either phase.  And when the request is as
\* long as the response, an iteration starts with nothing on the wire, so that
\* its time is that of its own bytes.
EchoTrue ==
    /\ At("send") => load.delivered = load.done * opt.response + load.carry
    /\ At("recv") => load.delivered = load.done * opt.response + load.got
    /\ At("send") /\ load.sent = 0 /\ load.done > 0 /\ opt.request = opt.response
       /\ load.left = Patience => net.owed = 0

\* NetemGuard: as long as no ssh call has left a qdisc behind, a workload runs
\* under exactly the qdisc of its scenario, the baseline under none, and the
\* tool leaves none on the peer, on any way out.
NetemContained ==
    ~opt.external /\ ~peer.orphan =>
        /\ At("send") \/ At("recv") =>
            peer.qdisc = (IF at.n > 0 /\ opt.plan # <<>> /\ Scenario.netem THEN at.n ELSE 0)
        /\ At("done") \/ At("aborted") => peer.qdisc = 0

\* Verdicts mean what they say.  layer-h passes a scenario only if its
\* connection was still ESTABLISHED when the window closed; a sweep that ends
\* has one verdict per scenario and an exit code that tells of any failure; and
\* a scenario fails on account of another's events only after that one, too,
\* has failed.
VerdictTrue ==
    /\ \A i \in DOMAIN rec : rec[i].pass => rec[i].est
    /\ At("done") /\ opt.plan # <<>> =>
        Len(rec) = Len(opt.plan) /\ (at.exit = 0 <=> \A i \in DOMAIN rec : rec[i].pass)
    /\ \A i \in DOMAIN rec : rec[i].why = "stale" => i > 1 /\ ~rec[i - 1].pass
=============================================================================
