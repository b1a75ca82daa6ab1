---------------------------- MODULE PassiveOpen ----------------------------
(***************************************************************************)
(* The passive open of the in-memory test server (feature test-server):    *)
(* listen slots with one handshake in progress and one connection queued   *)
(* for accept, over the flow table, timers and events of Connections.      *)
(*                                                                         *)
(* A SYN that no connection has is matched against the listen slots; a     *)
(* slot that has a handshake in progress or a queued connection refuses it *)
(* with an RST and nothing changes, as nothing does when the flow table is *)
(* full.  A SYN-ACK may fail to be sent (no mbuf): `sent`.  The connection *)
(* then waits without a timer for the peer's next SYN.                     *)
(***************************************************************************)
EXTENDS Connections

CONSTANTS
    Ports,          \* the local ports that may be listened on
    Peers           \* the remote ends that send SYNs

VARIABLES
    listen,         \* Engine.listen_slots, by port
    unsent          \* history: the connections whose SYN-ACK never went out

pvars == <<slots, by_tuple, wheel, batch, phase, log, listen, unsent>>

None == 0
PassiveTuple(port, peer) == [port |-> port, peer |-> peer]

-----------------------------------------------------------------------------
\* Engine::listen; a port that is listened on is refused.
Listen(port) ==
    /\ phase = "user"
    /\ port \notin DOMAIN listen
    /\ listen' = [p \in DOMAIN listen \cup {port} |->
                    IF p = port THEN [in_progress |-> None, accept_queue |-> None]
                    ELSE listen[p]]
    /\ UNCHANGED <<vars, unsent>>

\* Engine::accept_next
AcceptNext(port) ==
    /\ phase = "user"
    /\ port \in DOMAIN listen
    /\ listen[port].accept_queue # None
    /\ listen' = [listen EXCEPT ![port].accept_queue = None]
    /\ UNCHANGED <<vars, unsent>>

Full(slot) == slot.in_progress # None \/ slot.accept_queue # None

\* handle_inbound_syn_listen: the connection, its listen slot, the SYN-ACK and
\* its timer.
InboundSyn(port, peer, sent) ==
    /\ phase = "rx"
    /\ port \in DOMAIN listen
    /\ ~Full(listen[port])
    /\ CanInsert(PassiveTuple(port, peer))
    /\ Insert(PassiveTuple(port, peer), "SynReceived", sent)
    /\ listen' = [listen EXCEPT ![port].in_progress = by_tuple'[PassiveTuple(port, peer)]]
    /\ unsent' = IF sent THEN unsent ELSE unsent \cup {Len(log')}
    /\ UNCHANGED <<batch, phase>>

\* clear_in_progress_for_conn
Cleared(h) ==
    [p \in DOMAIN listen |->
        IF listen[p].in_progress = h THEN [listen[p] EXCEPT !.in_progress = None]
        ELSE listen[p]]

\* listen_promote_to_accept_queue
Promoted(h) ==
    [p \in DOMAIN listen |->
        IF listen[p].in_progress = h THEN [in_progress |-> None, accept_queue |-> h]
        ELSE listen[p]]

-----------------------------------------------------------------------------
\* A segment in SYN_RECEIVED, by what handle_syn_received tells apart.

SynReceived(h) == Live(h) /\ slots[h].state = "SynReceived"

\* An RST: re_listen_if_from_passive removes the connection without passing
\* through CLOSED; only the SYN timer is cancelled.
RecvRst(h) ==
    /\ phase = "rx" /\ SynReceived(h)
    /\ listen' = Cleared(h)
    /\ wheel' = wheel \ {slots[h].timer["syn"]}
    /\ RemoveConns({h})
    /\ Push({h}, <<"closed">>)
    /\ UNCHANGED <<batch, phase, unsent>>

\* Mutant: the slot stays occupied by the handshake that failed.
RecvBadHandshakeWedges(h) ==
    /\ phase = "rx" /\ SynReceived(h)
    /\ Ends(h)
    /\ UNCHANGED <<listen, unsent>>

\* Another SYN, or an ACK of something that was not sent: RST and CLOSED.
RecvBadHandshake(h) ==
    /\ phase = "rx" /\ SynReceived(h)
    /\ listen' = Cleared(h)
    /\ Ends(h)
    /\ UNCHANGED unsent

\* The peer's SYN again: the SYN-ACK is resent, and the timer is armed only if
\* none runs.
RecvDupSyn(h, sent) ==
    LET p == Pair(slots[h], wheel)
    IN  /\ phase = "rx" /\ SynReceived(h)
        /\ Update(h, IF sent /\ p.conn.timer["syn"] = NoTimer THEN Start(p, h, "syn") ELSE p)
        /\ unsent' = IF sent THEN unsent \ {slots[h].birth} ELSE unsent
        /\ UNCHANGED <<by_tuple, batch, phase, log, listen>>

\* The ACK of our SYN: ESTABLISHED, and queued for accept.
RecvFinalAck(h) ==
    /\ phase = "rx" /\ SynReceived(h)
    /\ Update(h, Stop(Pair([slots[h] EXCEPT !.state = "Established",
                                            !.ts_enabled = TsEnabled], wheel), "syn"))
    /\ listen' = Promoted(h)
    /\ Push({h}, <<"connected">>)
    /\ UNCHANGED <<by_tuple, batch, phase, unsent>>

-----------------------------------------------------------------------------
\* The timer handlers are those of Connections; when the SYN-ACKs of a passive
\* handshake are used up its listen slot is cleared first.

Exhausted(t) ==
    /\ SynReceived(t.owner)
    /\ slots[t.owner].timer[t.kind] = t
    /\ t.kind = "syn"
    /\ SynBudgetSpent(slots[t.owner].syn_retrans_count + 1)

ListenAfterTimer(t) == IF Exhausted(t) THEN Cleared(t.owner) ELSE listen

FireOne(t, spent) ==
    /\ HandleTimer(t, spent)
    /\ listen' = ListenAfterTimer(t)
    /\ UNCHANGED unsent

-----------------------------------------------------------------------------
PInit == Init /\ listen = <<>> /\ unsent = {}

PTimers ==
    \/ (\E due \in SUBSET wheel : FireTimers(due)) /\ UNCHANGED <<listen, unsent>>
    \/ \E t \in batch, spent \in BOOLEAN : FireOne(t, spent)
    \/ (\E hs \in SUBSET Handles : ReapTimeWait(hs)) /\ UNCHANGED <<listen, unsent>>

PNext ==
    \/ (User \/ PollBegins \/ Rx) /\ UNCHANGED <<listen, unsent>>
    \/ PTimers
    \/ \E port \in Ports : Listen(port) \/ AcceptNext(port)
    \/ \E port \in Ports, peer \in Peers, sent \in BOOLEAN : InboundSyn(port, peer, sent)
    \/ \E h \in Handles : RecvRst(h) \/ RecvBadHandshake(h) \/ RecvFinalAck(h)
    \/ \E h \in Handles, sent \in BOOLEAN : RecvDupSyn(h, sent)

PSpec == PInit /\ [][PNext]_pvars

\* The user polls again and again, a poll runs to its end, and a deadline that
\* is in the wheel passes: no timer stays pending forever.
PFairSpec ==
    /\ PSpec
    /\ WF_pvars(PollBegins /\ UNCHANGED <<listen, unsent>>)
    /\ WF_pvars(PTimers)
    /\ \A h \in Handles : SF_pvars(SynTimerFires(h) /\ UNCHANGED <<listen, unsent>>)

-----------------------------------------------------------------------------
\* A listen slot and its handshake belong together through every way a
\* handshake can end: what is in progress is a live connection in SYN_RECEIVED
\* of that port, and every connection in SYN_RECEIVED is in progress in the
\* slot of its port.  No failed handshake keeps a slot occupied, and no
\* handshake completes without reaching accept.
ListenSlotSound ==
    /\ \A p \in DOMAIN listen : listen[p].in_progress # None =>
          SynReceived(listen[p].in_progress)
    /\ \A h \in Handles : SynReceived(h) =>
          {p \in DOMAIN listen : listen[p].in_progress = h} = {slots[h].tuple.port}

\* A connection that waits for its handshake.
Waits(b) ==
    \E h \in Handles :
        /\ Birth(h) = b
        /\ \/ slots[h].state = "SynSent"
           \/ slots[h].state = "SynReceived" /\ b \notin unsent

\* Every handshake comes to an end, active or passive, even when the peer falls
\* silent: on_syn_retrans_fire resends and finally gives up.  The exception is
\* a passive one whose SYN-ACK never went out, which nothing times.
HandshakeResolves == \A b \in 1 .. MaxConns : Waits(b) ~> ~Waits(b)
=============================================================================
