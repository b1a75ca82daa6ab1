---------------------------- MODULE Connections ----------------------------
(***************************************************************************)
(* The engine's connections from connect to removal: the flow table of     *)
(* flow_table.rs, the active handshake with its SYN retransmission, the    *)
(* connection state machine, the identity of the timers that connections   *)
(* leave in the wheel, and the events that tell a connection's life.       *)
(*                                                                         *)
(* A poll is a sequence of phases, as in poll_once: received segments, the *)
(* batch of timers that the wheel returned and TIME_WAIT reaping; the      *)
(* user's calls come between polls.  Of the data path,                     *)
(* which SendPath models, a connection keeps only whether anything is      *)
(* queued for retransmission: whether a probe is armed and whether the     *)
(* retransmission budget is spent are left open.  Time is free: any set of *)
(* pending timers may be due.  Of the events, those of a connection's life *)
(* are kept, in the order they are pushed; the queue they wait in is part  *)
(* of RecvPath, and StateChange, Readable, Writable and the EPERM of a     *)
(* refused flag are left out.  SYN_RECEIVED is reached only through        *)
(* PassiveOpen, which extends this module.                                 *)
(***************************************************************************)
EXTENDS Integers, Sequences, FiniteSets

CONSTANTS
    Slots,          \* max_connections
    Tuples,         \* the four-tuples the user may ask for
    TsEnabled,      \* the peers negotiate timestamps
    SynRetries,     \* SYN retransmissions before ETIMEDOUT (3)
    MaxConns        \* bound: connections ever opened

ASSUME ConnectionsParams ==
    /\ Slots \in Nat \ {0}
    /\ {SynRetries, MaxConns} \subseteq Nat
    /\ TsEnabled \in BOOLEAN

VARIABLES
    slots,          \* FlowTable.slots, by handle
    by_tuple,       \* FlowTable.by_tuple
    wheel,          \* the timers pending in the wheel
    batch,          \* the fired timers whose handlers have not run yet
    phase,          \* where poll_once is
    log             \* history: per connection the events pushed for it

vars == <<slots, by_tuple, wheel, batch, phase, log>>

Handles == 1 .. Slots
Kinds   == {"syn", "rto", "tlp"}
States  == {"SynSent", "SynReceived", "Established", "FinWait1", "FinWait2", "CloseWait",
            "Closing", "LastAck", "TimeWait"}
NoConn  == [state |-> "None"]
NoTimer == [kind |-> "None"]

Live(h) == slots[h] # NoConn

-----------------------------------------------------------------------------
\* Timers.  A connection notes a timer twice: in timer_ids, and in one of
\* syn_retrans_timer_id, rto_timer_id and tlp_timer_id (here timer[kind]).
\* A timer is its id: one of the owner's handle and the kind that nothing
\* refers to (the wheel's slot and generation make it so: TimerWheel,
\* OneOutcome); of the batch, what its connection still notes is looked at,
\* which TimersOwned shows to be enough.  The operators work on a pair of a
\* connection and the wheel.

Timer(h, kind, n) == [owner |-> h, kind |-> kind, n |-> n]

Fresh(p, h, kind) ==
    LET used == p.wheel \cup p.conn.timer_ids \cup {p.conn.timer[kind]}
    IN  CHOOSE n \in 1 .. Cardinality(used) + 1 :
           /\ Timer(h, kind, n) \notin used
           /\ \A m \in 1 .. n - 1 : Timer(h, kind, m) \in used

Pair(c, w) == [conn |-> c, wheel |-> w]

Forgotten(c, t) == [c EXCEPT !.timer[t.kind] = NoTimer, !.timer_ids = @ \ {t}]

Start(p, h, kind) ==
    LET t == Timer(h, kind, Fresh(p, h, kind))
    IN  Pair([p.conn EXCEPT !.timer[kind] = t, !.timer_ids = @ \cup {t}], p.wheel \cup {t})

Stop(p, kind) ==
    LET t == p.conn.timer[kind]
    IN  IF t = NoTimer THEN p ELSE Pair(Forgotten(p.conn, t), p.wheel \ {t})

\* arm_tlp_pto.  `probe`: the gate lets it, as far as RTT samples and the
\* probe budget go.
ArmTlp(p, h, probe) ==
    IF probe /\ p.conn.flight /\ p.conn.timer["tlp"] = NoTimer
    THEN Start(p, h, "tlp") ELSE p

Update(h, p) ==
    /\ slots' = [slots EXCEPT ![h] = p.conn]
    /\ wheel' = p.wheel

\* Mutant: one of the named fields is not collected, and the list was pruned
\* of that timer.
CancelledNoTlp(w, c) ==
    w \ ((c.timer_ids \ {c.timer["tlp"]}) \cup {c.timer["syn"], c.timer["rto"]})

\* What every removal does with the timers of c: the list and the three fields.
Cancelled(w, c) == w \ (c.timer_ids \cup {c.timer[k] : k \in Kinds})

-----------------------------------------------------------------------------
\* Events.

\* events.push of these kinds, in this order, for the connections hs.
Push(hs, kinds) ==
    log' = [b \in DOMAIN log |->
              IF \E h \in hs : slots[h].birth = b THEN log[b] \o kinds ELSE log[b]]

\* Mutant: the tuple stays registered.
RemoveSlotOnly(hs) ==
    /\ slots' = [h \in Handles |-> IF h \in hs THEN NoConn ELSE slots[h]]
    /\ by_tuple' = by_tuple

\* FlowTable::remove of the handles hs.
RemoveConns(hs) ==
    /\ slots' = [h \in Handles |-> IF h \in hs THEN NoConn ELSE slots[h]]
    /\ by_tuple' = [t \in DOMAIN by_tuple \ {slots[h].tuple : h \in hs} |-> by_tuple[t]]

\* FlowTable::insert: the tuple is new and a slot is free.
CanInsert(tuple) ==
    /\ Len(log) < MaxConns
    /\ tuple \notin DOMAIN by_tuple
    /\ \E k \in Handles : ~Live(k)

\* A new connection in the lowest free slot; its SYN timer runs if its first
\* segment could be sent.
Insert(tuple, state, timed) ==
    LET h == CHOOSE k \in Handles : ~Live(k) /\ \A j \in 1 .. k - 1 : Live(j)
        c == [tuple |-> tuple, birth |-> Len(log) + 1, state |-> state,
              syn_retrans_count |-> 0, timer |-> [k \in Kinds |-> NoTimer],
              timer_ids |-> {}, flight |-> FALSE, ts_enabled |-> FALSE,
              force_tw_skip |-> FALSE]
        p == Pair(c, wheel)
    IN  /\ Update(h, IF timed THEN Start(p, h, "syn") ELSE p)
        /\ by_tuple' = [t \in DOMAIN by_tuple \cup {tuple} |->
                          IF t = tuple THEN h ELSE by_tuple[t]]
        /\ log' = Append(log, <<>>)

-----------------------------------------------------------------------------
\* The user, between polls.

\* connect_with_opts.  A tuple in use, a full table and a SYN that cannot be
\* sent are errors and leave everything as it was.
Connect(tuple) ==
    /\ phase = "user"
    /\ CanInsert(tuple)
    /\ Insert(tuple, "SynSent", TRUE)
    /\ UNCHANGED <<batch, phase>>

\* send_bytes, of which at least one byte is accepted: the RTO is armed when
\* nothing was in flight and none is pending.
SendBytes(h, probe) ==
    LET c    == slots[h]
        p    == Pair([c EXCEPT !.flight = TRUE], wheel)
        arms == ~c.flight /\ c.timer["rto"] = NoTimer
    IN  /\ phase = "user"
        /\ Live(h) /\ c.state = "Established"
        /\ Update(h, ArmTlp(IF arms THEN Start(p, h, "rto") ELSE p, h, probe))
        /\ UNCHANGED <<by_tuple, batch, phase, log>>

CloseState(s) ==
    CASE s = "Established" -> "FinWait1" [] s = "CloseWait" -> "LastAck" [] OTHER -> s

\* dpdk_net_close -> close_conn_with_flags -> close_conn.  `sent`: the FIN
\* could be allocated and queued; if not the state stays, as it does in any
\* state but ESTABLISHED and CLOSE_WAIT.  FORCE_TW_SKIP needs timestamps.
CloseConn(h, force, sent) ==
    /\ phase = "user"
    /\ Live(h)
    /\ slots' = [slots EXCEPT ![h].state = IF sent THEN CloseState(@) ELSE @,
                              ![h].force_tw_skip = @ \/ (force /\ slots[h].ts_enabled)]
    /\ UNCHANGED <<by_tuple, wheel, batch, phase, log>>

PollBegins ==
    /\ phase = "user"
    /\ phase' = "rx"
    /\ UNCHANGED <<slots, by_tuple, wheel, batch, log>>

-----------------------------------------------------------------------------
\* Received segments, by what handle_syn_sent, handle_established and
\* handle_close_path tell apart.

\* The connection ends on a segment: Closed event, timers cancelled, removed.
Ends(h) ==
    /\ Push({h}, <<"closed">>)
    /\ wheel' = Cancelled(wheel, slots[h])
    /\ RemoveConns({h})
    /\ UNCHANGED <<batch, phase>>

\* SYN_SENT, and a SYN-ACK that acknowledges our SYN.
RecvSynAck(h) ==
    LET c == [slots[h] EXCEPT !.state = "Established", !.ts_enabled = TsEnabled]
    IN  /\ phase = "rx"
        /\ Live(h) /\ slots[h].state = "SynSent"
        /\ Update(h, Stop(Pair(c, wheel), "syn"))
        /\ Push({h}, <<"connected">>)
        /\ UNCHANGED <<by_tuple, batch, phase>>

\* An RST (in SYN_SENT: one that acknowledges our SYN); in SYN_SENT also any
\* segment without SYN, or a SYN-ACK of something else or with bad options,
\* which is answered with an RST.
RecvFatal(h) ==
    /\ phase = "rx"
    /\ Live(h) /\ slots[h].state # "SynReceived"
    /\ Ends(h)

\* The timers after an ACK: when it took all of the flight, RTO and TLP stop;
\* when it took a part, the RTO restarts; a probe may be armed after either.
Acked(p, h, acks, probe) ==
    LET stopped == IF acks = "all" THEN Stop(Stop(p, "rto"), "tlp")
                   ELSE IF acks = "some" /\ p.conn.timer["rto"] # NoTimer
                   THEN Start(Stop(p, "rto"), h, "rto")
                   ELSE p
    IN  ArmTlp(stopped, h, probe)

\* An acceptable segment in ESTABLISHED.
RecvEstablished(h, acks, fin, probe) ==
    LET c == [slots[h] EXCEPT !.flight = @ /\ acks # "all",
                              !.state = IF fin THEN "CloseWait" ELSE @]
    IN  /\ phase = "rx"
        /\ Live(h) /\ slots[h].state = "Established"
        /\ acks # "none" => slots[h].flight
        /\ Update(h, Acked(Pair(c, wheel), h, acks, probe))
        /\ UNCHANGED <<by_tuple, batch, phase, log>>

ClosePathState(s, finAcked, fin) ==
    CASE s = "FinWait1" /\ finAcked /\ fin -> "TimeWait"
      [] s = "FinWait1" /\ finAcked /\ ~fin -> "FinWait2"
      [] s = "FinWait1" /\ ~finAcked /\ fin -> "Closing"
      [] s = "FinWait2" /\ fin -> "TimeWait"
      [] s = "Closing" /\ finAcked -> "TimeWait"
      [] s = "LastAck" /\ finAcked -> "Closed"
      [] OTHER -> s

\* Any segment but an RST in one of the closing states.
RecvClosePath(h, finAcked, fin, probe) ==
    LET to == ClosePathState(slots[h].state, finAcked, fin)
    IN  /\ phase = "rx"
        /\ Live(h)
        /\ slots[h].state \notin {"SynSent", "SynReceived", "Established"}
        /\ IF to = "Closed" THEN Ends(h)
           ELSE /\ Update(h, ArmTlp(Pair([slots[h] EXCEPT !.state = to], wheel), h, probe))
                /\ UNCHANGED <<by_tuple, batch, phase, log>>

-----------------------------------------------------------------------------
\* Timers: the wheel returns the batch of the due ones, then each handler runs.

FireTimers(due) ==
    /\ phase = "rx"
    /\ phase' = "timers"
    /\ batch' = due
    /\ wheel' = wheel \ due
    /\ UNCHANGED <<slots, by_tuple, log>>

\* Mutant: the Closed event is left to the removal's caller.
ForceCloseSilently(h) ==
    /\ Push({h}, <<"etimedout">>)
    /\ wheel' = Cancelled(wheel, slots[h])
    /\ RemoveConns({h})

\* force_close_etimedout
ForceClose(h) ==
    /\ Push({h}, <<"etimedout", "closed">>)
    /\ wheel' = Cancelled(wheel, slots[h])
    /\ RemoveConns({h})

\* The handler leaves p behind and raises no event.
Settles(h, p) ==
    /\ Update(h, p)
    /\ UNCHANGED <<by_tuple, log>>

\* Mutant: the timer is not armed again when the SYN is resent.
SynRetransmittedOnce(h, c) == Settles(h, Pair(c, wheel))

SynRetransmitted(h, c) == Settles(h, Start(Pair(c, wheel), h, "syn"))

SynBudgetSpent(count) == count > SynRetries

\* The handshakes that are still waiting: active, or passive (PassiveOpen).
OnSynRetransFire(h, forgot) ==
    LET c == [forgot EXCEPT !.syn_retrans_count = @ + 1]
    IN  IF forgot.state \notin {"SynSent", "SynReceived"} THEN Settles(h, Pair(forgot, wheel))
        ELSE IF SynBudgetSpent(c.syn_retrans_count) THEN ForceClose(h)
        ELSE SynRetransmitted(h, c)

\* Mutant: the timer is not armed again after the retransmission.
RtoRetransmittedOnce(h, c) == Settles(h, Pair(c, wheel))

RtoRetransmitted(h, c) == Settles(h, Start(Pair(c, wheel), h, "rto"))

\* `spent`: the oldest segment has been retransmitted too often.
OnRtoFire(h, forgot, spent) ==
    IF ~forgot.flight THEN Settles(h, Pair(forgot, wheel))
    ELSE IF spent THEN ForceClose(h)
    ELSE RtoRetransmitted(h, forgot)

\* The handler of the timer t.  One that its connection has not noted, or
\* whose connection is gone, is ignored.
HandleTimer(t, spent) ==
    LET h      == t.owner
        forgot == Forgotten(slots[h], t)
    IN  /\ phase = "timers"
        /\ IF ~Live(h) \/ slots[h].timer[t.kind] # t
           THEN UNCHANGED <<slots, by_tuple, wheel, log>>
           ELSE CASE t.kind = "syn" -> OnSynRetransFire(h, forgot)
                  [] t.kind = "rto" -> OnRtoFire(h, forgot, spent)
                  [] t.kind = "tlp" -> Settles(h, Pair(forgot, wheel))
        /\ batch' = batch \ {t}
        /\ UNCHANGED phase

\* reap_time_wait: the connections whose 2 MSL are over, and all that skip it.
\* The poll ends with it.
ReapTimeWait(hs) ==
    /\ phase = "timers" /\ batch = {}
    /\ \A h \in hs : Live(h) /\ slots[h].state = "TimeWait"
    /\ \A h \in Handles \ hs :
          Live(h) => ~(slots[h].state = "TimeWait" /\ slots[h].force_tw_skip)
    /\ Push(hs, <<"closed">>)
    /\ wheel' = {t \in wheel : \A h \in hs : t \in Cancelled(wheel, slots[h])}
    /\ RemoveConns(hs)
    /\ phase' = "user"
    /\ UNCHANGED batch

-----------------------------------------------------------------------------
Init ==
    /\ slots = [h \in Handles |-> NoConn]
    /\ by_tuple = <<>>
    /\ wheel = {} /\ batch = {}
    /\ phase = "user"
    /\ log = <<>>

User ==
    \/ \E tuple \in Tuples : Connect(tuple)
    \/ \E h \in Handles, probe \in BOOLEAN : SendBytes(h, probe)
    \/ \E h \in Handles, force, sent \in BOOLEAN : CloseConn(h, force, sent)

Rx ==
    \/ \E h \in Handles : RecvSynAck(h)
    \/ \E h \in Handles : RecvFatal(h)
    \/ \E h \in Handles, acks \in {"none", "some", "all"}, fin, probe \in BOOLEAN :
          RecvEstablished(h, acks, fin, probe)
    \/ \E h \in Handles, finAcked, fin, probe \in BOOLEAN :
          RecvClosePath(h, finAcked, fin, probe)

Timers ==
    \/ \E due \in SUBSET wheel : FireTimers(due)
    \/ \E t \in batch, spent \in BOOLEAN : HandleTimer(t, spent)
    \/ \E hs \in SUBSET Handles : ReapTimeWait(hs)

Next == User \/ PollBegins \/ Rx \/ Timers

Spec == Init /\ [][Next]_vars

\* The pending SYN timer of the handle h is among those that fire.
SynTimerFires(h) ==
    \E due \in SUBSET wheel :
        /\ \E t \in due : t.owner = h /\ t.kind = "syn"
        /\ FireTimers(due)

-----------------------------------------------------------------------------
Birth(h) == IF Live(h) THEN slots[h].birth ELSE 0

\* The two halves of the flow table agree: a tuple leads to the slot of the
\* connection that has it, and every connection is reached by its tuple.  A
\* segment is never handed to a connection of another tuple, and a removed
\* connection never blocks the tuple for the next connect.
TableConsistent ==
    /\ \A t \in DOMAIN by_tuple :
          Live(by_tuple[t]) /\ slots[by_tuple[t]].tuple = t
    /\ \A h \in Handles : Live(h) =>
          slots[h].tuple \in DOMAIN by_tuple /\ by_tuple[slots[h].tuple] = h

\* No timer outlives its connection: each pending timer is noted, both in the
\* list and in the field of its kind, by the connection that has its handle
\* now; one in the batch may have lost its connection to an earlier handler of
\* the same batch, but is never taken for a timer of another connection.
TimersOwned ==
    /\ \A t \in wheel : Live(t.owner)
    /\ \A t \in wheel \cup batch : Live(t.owner) =>
          /\ slots[t.owner].timer[t.kind] = t
          /\ t \in slots[t.owner].timer_ids

\* What waits for an answer has a timer running for it: a handshake its SYN
\* timer, data in flight its RTO.
WaitIsTimed ==
    \A h \in Handles : Live(h) =>
        /\ slots[h].state = "SynSent" =>
              \E t \in wheel \cup batch : t.owner = h /\ t.kind = "syn"
        /\ slots[h].flight =>
              \E t \in wheel \cup batch : t.owner = h /\ t.kind = "rto"

\* The life of a connection as its events tell it: Connected at most once and
\* before the end, Closed once, as the last event, and exactly when the
\* connection has left the table; ETIMEDOUT only right before Closed.
OneEnd ==
    \A b \in DOMAIN log :
        LET told(k) == {i \in DOMAIN log[b] : log[b][i] = k}
            gone    == \A h \in Handles : Birth(h) # b
        IN  /\ Cardinality(told("connected")) <= 1
            /\ told("closed") = IF gone THEN {Len(log[b])} ELSE {}
            /\ told("etimedout") \subseteq {Len(log[b]) - 1}
=============================================================================
