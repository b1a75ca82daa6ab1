------------------------- MODULE PassiveOpenProofs -------------------------
(***************************************************************************)
(* Proofs, for every value of the constants, of the safety properties of   *)
(* connections, active and passive, that the run of PassiveOpen checks on  *)
(* a small instance.                                                       *)
(***************************************************************************)
EXTENDS PassiveOpen, FiniteSetTheorems, SequenceTheorems, TLAPS

Tuple == Tuples \cup {PassiveTuple(p, q) : p \in Ports, q \in Peers}

TimerId == [owner : Handles, kind : Kinds, n : Nat]

Conn == [tuple : Tuple, birth : Nat, state : States, syn_retrans_count : Nat,
         timer : [Kinds -> TimerId \cup {NoTimer}], timer_ids : SUBSET TimerId,
         flight : BOOLEAN, ts_enabled : BOOLEAN, force_tw_skip : BOOLEAN]

LifeEvents == {"connected", "etimedout", "closed"}

ListenSlot == [in_progress : 0 .. Slots, accept_queue : 0 .. Slots]

TypeOK ==
    /\ slots \in [Handles -> Conn \cup {NoConn}]
    /\ DOMAIN by_tuple \subseteq Tuple /\ by_tuple \in [DOMAIN by_tuple -> Handles]
    /\ wheel \in SUBSET TimerId /\ IsFiniteSet(wheel)
    /\ batch \in SUBSET TimerId
    /\ phase \in {"user", "rx", "timers"}
    /\ log \in Seq(Seq(LifeEvents))
    /\ DOMAIN listen \subseteq Ports /\ listen \in [DOMAIN listen -> ListenSlot]

\* The timers that the connection c of the handle h notes are those of h among
\* the pending timers w, each in the list and in the field of its kind.
Noted(h, c, w) ==
    /\ \A k \in Kinds : c.timer[k] # NoTimer =>
          c.timer[k] \in w /\ c.timer[k].owner = h /\ c.timer[k].kind = k
    /\ c.timer_ids = {c.timer[k] : k \in Kinds} \ {NoTimer}
    /\ \A t \in w : t.owner = h => c.timer[t.kind] = t

Handshakes == {"SynSent", "SynReceived"}

\* What has a timer, and what cannot have one yet.
Duty(c) ==
    /\ c.state = "SynSent" => c.timer["syn"] # NoTimer
    /\ c.flight => c.timer["rto"] # NoTimer
    /\ c.state \in Handshakes =>
          ~c.flight /\ c.timer["rto"] = NoTimer /\ c.timer["tlp"] = NoTimer

TimerInv ==
    /\ \A h \in Handles : Live(h) => Noted(h, slots[h], wheel \cup batch) /\ Duty(slots[h])
    /\ \A t \in wheel : Live(t.owner)
    /\ wheel \cap batch = {}
    /\ phase # "timers" => batch = {}

\* The events of a connection that has ended.
Ended == {<<"closed">>, <<"connected", "closed">>, <<"etimedout", "closed">>,
          <<"connected", "etimedout", "closed">>}

Told(c) == IF c.state \in Handshakes THEN <<>> ELSE <<"connected">>

\* Each connection has a story of its own, and the story of one that is in the
\* table follows from its state.
LifeInv ==
    /\ \A h \in Handles : Live(h) =>
          slots[h].birth \in DOMAIN log /\ log[slots[h].birth] = Told(slots[h])
    /\ \A h, j \in Handles :
          Live(h) /\ Live(j) /\ slots[h].birth = slots[j].birth => h = j
    /\ \A b \in DOMAIN log :
          (\A h \in Handles : Live(h) => slots[h].birth # b) => log[b] \in Ended

IInv == TypeOK /\ TableConsistent /\ TimerInv /\ LifeInv /\ ListenSlotSound

-----------------------------------------------------------------------------
\* Numbers.

Before == {r \in Nat \X Nat : r[1] < r[2]}

\* A set of naturals has a least element.
LEMMA Least ==
    ASSUME NEW T \in SUBSET Nat, T # {}
    PROVE  \E x \in T : \A y \in T : x <= y
<1>1. IsWellFoundedOn(Before, Nat)
  BY NatLessThanWellFounded, Zenon DEF OpToRel, Before
<1>2. ASSUME NEW x \in Nat, NEW y \in Nat, <<y, x>> \notin Before
      PROVE  x <= y
  BY <1>2 DEF Before
<1>3. PICK x \in T : \A y \in T : ~(<<y, x>> \in Before)
  BY <1>1, WFMin
<1>4. \A y \in T : x <= y
  BY <1>2, <1>3
<1> QED BY <1>4

\* FlowTable::insert finds the lowest free slot whenever there is a free one.
LEMMA LowestFree ==
    ASSUME \E k \in Handles : ~Live(k)
    PROVE  LET h == CHOOSE k \in Handles : ~Live(k) /\ \A j \in 1 .. k - 1 : Live(j)
           IN  h \in Handles /\ ~Live(h)
<1> DEFINE T == {k \in Handles : ~Live(k)}
<1>1. Slots \in Nat
  BY ConnectionsParams
<1>2. T \in SUBSET Nat /\ T # {}
  BY <1>1 DEF Handles
<1>3. PICK x \in T : \A y \in T : x <= y
  BY <1>2, Least
<1>4. ASSUME NEW j \in 1 .. x - 1 PROVE Live(j)
  <2>1. j \in Handles /\ j < x
    BY <1>1, <1>3 DEF Handles
  <2> QED BY <1>1, <1>3, <2>1 DEF Handles
<1>5. x \in Handles /\ ~Live(x) /\ \A j \in 1 .. x - 1 : Live(j)
  BY <1>3, <1>4
<1> QED BY <1>5

-----------------------------------------------------------------------------
\* Timers.

\* Whatever refers to timers, there is an id that it does not refer to.
LEMMA FreshId ==
    ASSUME NEW p, NEW h \in Handles, NEW kind \in Kinds,
           IsFiniteSet(p.wheel), IsFiniteSet(p.conn.timer_ids)
    PROVE  LET n == Fresh(p, h, kind)
           IN  n \in Nat /\ Timer(h, kind, n) \notin p.wheel \cup p.conn.timer_ids
<1> DEFINE used == p.wheel \cup p.conn.timer_ids \cup {p.conn.timer[kind]}
           C == Cardinality(used)
           T == {n \in 1 .. C + 1 : Timer(h, kind, n) \notin used}
<1>1. IsFiniteSet(used) /\ C \in Nat
  <2>1. IsFiniteSet(p.wheel \cup p.conn.timer_ids)
    BY FS_Union
  <2>2. IsFiniteSet(used)
    BY <2>1, FS_AddElement
  <2> QED BY <2>2, FS_CardinalityType
<1> HIDE DEF used
<1>2. T # {}
  <2> SUFFICES ASSUME T = {} PROVE FALSE
    OBVIOUS
  <2> DEFINE f == [n \in 1 .. C + 1 |-> Timer(h, kind, n)]
  <2>1. f \in [1 .. C + 1 -> used]
    OBVIOUS
  <2>2. ASSUME NEW a \in 1 .. C + 1, NEW b \in 1 .. C + 1, f[a] = f[b]
        PROVE  a = b
    BY <2>2 DEF Timer
  <2>3. f \in Injection(1 .. C + 1, used)
    BY <2>1, <2>2 DEF Injection, IsInjective
  <2>4. Cardinality(1 .. C + 1) <= Cardinality(used)
    BY <1>1, <2>3, FS_Injection
  <2>5. Cardinality(1 .. C + 1) = C + 1
    BY <1>1, FS_Interval
  <2> QED BY <1>1, <2>4, <2>5
<1>3. T \in SUBSET Nat
  BY <1>1
<1>4. PICK n \in T : \A y \in T : n <= y
  BY <1>2, <1>3, Least
<1>5. /\ n \in 1 .. C + 1
      /\ Timer(h, kind, n) \notin used
      /\ \A m \in 1 .. n - 1 : Timer(h, kind, m) \in used
  <2>1. ASSUME NEW m \in 1 .. n - 1 PROVE Timer(h, kind, m) \in used
    BY <1>1, <1>4
  <2> QED BY <1>4, <2>1
<1> DEFINE g == CHOOSE i \in 1 .. C + 1 :
                   /\ Timer(h, kind, i) \notin used
                   /\ \A m \in 1 .. i - 1 : Timer(h, kind, m) \in used
<1>6. Fresh(p, h, kind) = g
  BY DEF Fresh, used
<1>7. g \in 1 .. C + 1 /\ Timer(h, kind, g) \notin used
  BY <1>5
<1> HIDE DEF g
<1>8. Timer(h, kind, g) \notin p.wheel \cup p.conn.timer_ids
  BY <1>7 DEF used
<1>9. g \in Nat
  BY <1>1, <1>7
<1> QED BY <1>6, <1>8, <1>9

\* A connection with its timers in a wheel, B the batch that is being handled.
PairOK(p, h, B) ==
    /\ p.conn \in Conn
    /\ p.wheel \in SUBSET TimerId /\ IsFiniteSet(p.wheel)
    /\ p.wheel \cap B = {}
    /\ Noted(h, p.conn, p.wheel \cup B)

\* From p to q nothing but timers of the connection h has changed.
OnlyTimers(p, q, h) ==
    /\ \A t \in TimerId : t.owner # h => (t \in q.wheel <=> t \in p.wheel)
    /\ q.conn.tuple = p.conn.tuple /\ q.conn.birth = p.conn.birth
    /\ q.conn.state = p.conn.state /\ q.conn.flight = p.conn.flight

LEMMA KindsDiffer ==
    /\ NoTimer \notin TimerId
    /\ NoConn \notin Conn
    /\ Kinds = {"syn", "rto", "tlp"}
<1>1. NoTimer.kind = "None"
  BY DEF NoTimer
<1>2. \A t \in TimerId : t.kind \in Kinds
  BY DEF TimerId
<1>3. NoConn.state = "None"
  BY DEF NoConn
<1>4. \A c \in Conn : c.state \in States
  BY DEF Conn
<1> QED BY <1>1, <1>2, <1>3, <1>4 DEF Kinds, States

LEMMA FewIds ==
    ASSUME NEW c \in Conn, c.timer_ids \subseteq {c.timer[k] : k \in Kinds}
    PROVE  IsFiniteSet(c.timer_ids)
<1> DEFINE S == {c.timer["syn"], c.timer["rto"], c.timer["tlp"]}
<1>1. IsFiniteSet({c.timer["syn"]} \cup {c.timer["rto"]} \cup {c.timer["tlp"]})
  BY FS_Singleton, FS_Union
<1>2. S = {c.timer["syn"]} \cup {c.timer["rto"]} \cup {c.timer["tlp"]}
  OBVIOUS
<1>3. c.timer_ids \in SUBSET S
  BY KindsDiffer
<1> QED BY <1>1, <1>2, <1>3, FS_Subset

\* Starting a timer of a kind that is not running keeps the books.
LEMMA StartOK ==
    ASSUME NEW h \in Handles, NEW B \in SUBSET TimerId, NEW kind \in Kinds,
           NEW p, PairOK(p, h, B), p.conn.timer[kind] = NoTimer
    PROVE  LET q == Start(p, h, kind)
           IN  /\ PairOK(q, h, B)
               /\ OnlyTimers(p, q, h)
               /\ q.conn.timer[kind] # NoTimer
               /\ \A k \in Kinds : k # kind => q.conn.timer[k] = p.conn.timer[k]
<1> DEFINE t == Timer(h, kind, Fresh(p, h, kind))
           c == [p.conn EXCEPT !.timer[kind] = t, !.timer_ids = @ \cup {t}]
           w == p.wheel \cup {t}
<1>1. /\ p.conn \in Conn /\ p.wheel \in SUBSET TimerId /\ IsFiniteSet(p.wheel)
      /\ p.wheel \cap B = {} /\ Noted(h, p.conn, p.wheel \cup B)
  BY DEF PairOK
<1>2. t \in TimerId /\ t.owner = h /\ t.kind = kind /\ t # NoTimer
  <2>1. IsFiniteSet(p.conn.timer_ids)
    BY <1>1, FewIds DEF Noted
  <2>2. Fresh(p, h, kind) \in Nat
    BY <1>1, <2>1, FreshId
  <2>3. t \in TimerId /\ t.owner = h /\ t.kind = kind
    BY <2>2 DEF Timer, TimerId
  <2> QED BY <2>3, KindsDiffer
<1> HIDE DEF t
<1>3. /\ c \in Conn /\ c.timer \in [Kinds -> TimerId \cup {NoTimer}]
      /\ c.timer[kind] = t
      /\ \A k \in Kinds : k # kind => c.timer[k] = p.conn.timer[k]
      /\ c.timer_ids = p.conn.timer_ids \cup {t}
      /\ c.tuple = p.conn.tuple /\ c.birth = p.conn.birth
      /\ c.state = p.conn.state /\ c.flight = p.conn.flight
  BY <1>1, <1>2 DEF Conn
<1> HIDE DEF c
<1>4. w \in SUBSET TimerId /\ IsFiniteSet(w)
  BY <1>1, <1>2, FS_AddElement
<1>8. w \cap B = {}
  BY <1>1, <1>2 DEF Noted
<1>5. Noted(h, c, w \cup B)
  <2>1. ASSUME NEW k \in Kinds, c.timer[k] # NoTimer
        PROVE  c.timer[k] \in w \cup B /\ c.timer[k].owner = h /\ c.timer[k].kind = k
    BY <1>1, <1>2, <1>3, <2>1 DEF Noted
  <2>2. c.timer_ids = {c.timer[k] : k \in Kinds} \ {NoTimer}
    <3>1. p.conn.timer_ids = {p.conn.timer[k] : k \in Kinds} \ {NoTimer}
      BY <1>1 DEF Noted
    <3> QED BY <1>2, <1>3, <3>1
  <2>3. ASSUME NEW s \in w \cup B, s.owner = h
        PROVE  c.timer[s.kind] = s
    <3>1. CASE s = t
      BY <1>2, <1>3, <3>1
    <3>2. CASE s # t
      <4>1. s \in p.wheel \cup B /\ p.conn.timer[s.kind] = s /\ s \in TimerId
        BY <1>1, <2>3, <3>2 DEF Noted
      <4>2. s.kind # kind /\ s.kind \in Kinds
        BY <4>1, KindsDiffer DEF TimerId
      <4> QED BY <1>3, <4>1, <4>2
    <3> QED BY <3>1, <3>2
  <2> QED BY <2>1, <2>2, <2>3 DEF Noted
<1>6. \A s \in TimerId : s.owner # h => (s \in w <=> s \in p.wheel)
  BY <1>2
<1>7. Start(p, h, kind) = [conn |-> c, wheel |-> w]
  BY DEF Start, Pair, t, c
<1> QED
  BY <1>2, <1>3, <1>4, <1>5, <1>6, <1>7, <1>8 DEF PairOK, OnlyTimers

\* Stopping a timer leaves none of its kind, as long as no batch is handled.
LEMMA StopOK ==
    ASSUME NEW h \in Handles, NEW kind \in Kinds, NEW p, PairOK(p, h, {})
    PROVE  LET q == Stop(p, kind)
           IN  /\ PairOK(q, h, {})
               /\ OnlyTimers(p, q, h)
               /\ q.conn.timer[kind] = NoTimer
               /\ \A k \in Kinds : k # kind => q.conn.timer[k] = p.conn.timer[k]
<1> DEFINE t == p.conn.timer[kind]
           c == Forgotten(p.conn, t)
           w == p.wheel \ {t}
<1>1. /\ p.conn \in Conn /\ p.wheel \in SUBSET TimerId /\ IsFiniteSet(p.wheel)
      /\ Noted(h, p.conn, p.wheel)
  BY DEF PairOK
<1>2. CASE t = NoTimer
  <2>1. Stop(p, kind) = p
    BY <1>2 DEF Stop
  <2> QED BY <1>2, <2>1 DEF OnlyTimers
<1>3. CASE t # NoTimer
  <2>1. t \in p.wheel /\ t.owner = h /\ t.kind = kind
    BY <1>1, <1>3 DEF Noted
  <2>2. /\ c \in Conn /\ c.timer[kind] = NoTimer
        /\ \A k \in Kinds : k # kind => c.timer[k] = p.conn.timer[k]
        /\ c.timer_ids = p.conn.timer_ids \ {t}
        /\ c.tuple = p.conn.tuple /\ c.birth = p.conn.birth
        /\ c.state = p.conn.state /\ c.flight = p.conn.flight
    BY <1>1, <2>1 DEF Forgotten, Conn
  <2> HIDE DEF c
  <2>3. w \in SUBSET TimerId /\ IsFiniteSet(w)
    BY <1>1, FS_RemoveElement
  <2>4. Noted(h, c, w)
    <3>1. ASSUME NEW k \in Kinds, c.timer[k] # NoTimer
          PROVE  c.timer[k] \in w /\ c.timer[k].owner = h /\ c.timer[k].kind = k
      <4>1. k # kind /\ c.timer[k] = p.conn.timer[k]
        BY <2>2, <3>1
      <4>2. c.timer[k] \in p.wheel /\ c.timer[k].owner = h /\ c.timer[k].kind = k
        BY <1>1, <3>1, <4>1 DEF Noted
      <4> QED BY <2>1, <4>1, <4>2
    <3>2. c.timer_ids = {c.timer[k] : k \in Kinds} \ {NoTimer}
      <4>1. p.conn.timer_ids = {p.conn.timer[k] : k \in Kinds} \ {NoTimer}
        BY <1>1 DEF Noted
      <4>2. \A k \in Kinds : k # kind => p.conn.timer[k] # t
        BY <1>1, <1>3, <2>1 DEF Noted
      <4> QED BY <2>1, <2>2, <4>1, <4>2
    <3>3. ASSUME NEW s \in w, s.owner = h
          PROVE  c.timer[s.kind] = s
      <4>1. s \in p.wheel /\ p.conn.timer[s.kind] = s /\ s \in TimerId
        BY <1>1, <3>3 DEF Noted
      <4>2. s.kind # kind /\ s.kind \in Kinds
        BY <3>3, <4>1 DEF TimerId
      <4> QED BY <2>2, <4>1, <4>2
    <3> QED BY <3>1, <3>2, <3>3 DEF Noted
  <2>5. Stop(p, kind) = [conn |-> c, wheel |-> w]
    BY <1>3 DEF Stop, Pair, c
  <2>6. \A s \in TimerId : s.owner # h => (s \in w <=> s \in p.wheel)
    BY <2>1
  <2> QED BY <2>2, <2>3, <2>4, <2>5, <2>6 DEF PairOK, OnlyTimers
<1> QED BY <1>2, <1>3

\* A tail loss probe is armed or not; SYN timer and RTO are left alone.
LEMMA ArmTlpOK ==
    ASSUME NEW h \in Handles, NEW B \in SUBSET TimerId, NEW p, PairOK(p, h, B),
           NEW probe \in BOOLEAN
    PROVE  LET q == ArmTlp(p, h, probe)
           IN  /\ PairOK(q, h, B)
               /\ OnlyTimers(p, q, h)
               /\ q.conn.timer["syn"] = p.conn.timer["syn"]
               /\ q.conn.timer["rto"] = p.conn.timer["rto"]
<1>1. CASE ArmTlp(p, h, probe) = p
  BY <1>1 DEF OnlyTimers
<1>2. CASE /\ ArmTlp(p, h, probe) = Start(p, h, "tlp")
           /\ p.conn.timer["tlp"] = NoTimer
  BY <1>2, StartOK, KindsDiffer
<1> QED BY <1>1, <1>2 DEF ArmTlp

\* The timers after an ACK: without all of the data acknowledged the RTO runs on.
LEMMA AckedOK ==
    ASSUME NEW h \in Handles, NEW p, PairOK(p, h, {}), NEW acks, NEW probe \in BOOLEAN
    PROVE  LET q == Acked(p, h, acks, probe)
           IN  /\ PairOK(q, h, {})
               /\ OnlyTimers(p, q, h)
               /\ q.conn.timer["syn"] = p.conn.timer["syn"]
               /\ acks # "all" /\ p.conn.timer["rto"] # NoTimer =>
                     q.conn.timer["rto"] # NoTimer
<1> DEFINE r == IF acks = "all" THEN Stop(Stop(p, "rto"), "tlp")
                ELSE IF acks = "some" /\ p.conn.timer["rto"] # NoTimer
                THEN Start(Stop(p, "rto"), h, "rto")
                ELSE p
<1>1. /\ PairOK(r, h, {}) /\ OnlyTimers(p, r, h)
      /\ r.conn.timer["syn"] = p.conn.timer["syn"]
      /\ acks # "all" /\ p.conn.timer["rto"] # NoTimer => r.conn.timer["rto"] # NoTimer
  <2> DEFINE s == Stop(p, "rto")
  <2>1. /\ PairOK(s, h, {}) /\ OnlyTimers(p, s, h) /\ s.conn.timer["rto"] = NoTimer
        /\ s.conn.timer["syn"] = p.conn.timer["syn"]
    BY StopOK, KindsDiffer
  <2> HIDE DEF s
  <2>2. CASE acks = "all"
    <3>1. /\ PairOK(Stop(s, "tlp"), h, {}) /\ OnlyTimers(s, Stop(s, "tlp"), h)
          /\ Stop(s, "tlp").conn.timer["syn"] = s.conn.timer["syn"]
      BY <2>1, StopOK, KindsDiffer
    <3>2. r = Stop(s, "tlp")
      BY <2>2 DEF s
    <3> QED BY <2>1, <2>2, <3>1, <3>2 DEF OnlyTimers
  <2>3. CASE acks = "some" /\ p.conn.timer["rto"] # NoTimer
    <3> DEFINE q == Start(s, h, "rto")
    <3>1. /\ PairOK(q, h, {}) /\ OnlyTimers(s, q, h) /\ q.conn.timer["rto"] # NoTimer
          /\ q.conn.timer["syn"] = s.conn.timer["syn"]
      BY <2>1, StartOK, KindsDiffer
    <3>2. r = q
      BY <2>3 DEF s
    <3> HIDE DEF q, r
    <3> QED BY <2>1, <2>3, <3>1, <3>2 DEF OnlyTimers
  <2>4. CASE acks # "all" /\ ~(acks = "some" /\ p.conn.timer["rto"] # NoTimer)
    BY <2>4 DEF OnlyTimers
  <2> QED BY <2>2, <2>3, <2>4
<1>2. Acked(p, h, acks, probe) = ArmTlp(r, h, probe)
  BY DEF Acked
<1> HIDE DEF r
<1> DEFINE q == ArmTlp(r, h, probe)
<1>3. /\ PairOK(q, h, {}) /\ OnlyTimers(r, q, h)
      /\ q.conn.timer["syn"] = r.conn.timer["syn"]
      /\ q.conn.timer["rto"] = r.conn.timer["rto"]
  BY <1>1, ArmTlpOK
<1> HIDE DEF q
<1>4. OnlyTimers(p, q, h)
  BY <1>1, <1>3 DEF OnlyTimers
<1> QED BY <1>1, <1>2, <1>3, <1>4 DEF q

\* The timers of a connection are all that its removal cancels.
LEMMA CancelledOK ==
    ASSUME NEW h, NEW c, NEW w \in SUBSET TimerId, NEW B, Noted(h, c, w \cup B)
    PROVE  Cancelled(w, c) = {t \in w : t.owner # h}
<1>1. \A t \in c.timer_ids : t.owner = h
  BY DEF Noted
<1>2. \A k \in Kinds : c.timer[k] \in w => c.timer[k].owner = h
  BY KindsDiffer DEF Noted
<1>3. \A t \in w : t.owner = h => t \in {c.timer[k] : k \in Kinds}
  BY DEF Noted, TimerId
<1> QED BY <1>1, <1>2, <1>3 DEF Cancelled

-----------------------------------------------------------------------------
\* The three ways in which a step changes the table.

\* One connection changes: its own entry, and its own timers.
LEMMA UpdateStep ==
    ASSUME TypeOK, TableConsistent, TimerInv,
           NEW h \in Handles, Live(h), NEW p,
           PairOK(p, h, batch'), Duty(p.conn),
           p.conn.tuple = slots[h].tuple,
           \A t \in TimerId : t.owner # h => (t \in p.wheel <=> t \in wheel),
           Update(h, p), by_tuple' = by_tuple, phase' = phase,
           batch' \in SUBSET batch, \A t \in batch : t.owner # h => t \in batch'
    PROVE  /\ slots' \in [Handles -> Conn \cup {NoConn}]
           /\ wheel' \in SUBSET TimerId /\ IsFiniteSet(wheel')
           /\ slots'[h] = p.conn
           /\ \A j \in Handles : j # h => slots'[j] = slots[j]
           /\ \A j \in Handles : Live(j)' <=> Live(j)
           /\ TableConsistent'
           /\ TimerInv'
<1>1. /\ slots \in [Handles -> Conn \cup {NoConn}] /\ by_tuple \in [DOMAIN by_tuple -> Handles]
      /\ wheel \in SUBSET TimerId /\ batch \in SUBSET TimerId
  BY DEF TypeOK
<1>2. /\ p.conn \in Conn /\ p.wheel \in SUBSET TimerId /\ IsFiniteSet(p.wheel)
      /\ p.wheel \cap batch' = {} /\ Noted(h, p.conn, p.wheel \cup batch')
  BY DEF PairOK
<1>3. /\ slots' = [slots EXCEPT ![h] = p.conn] /\ wheel' = p.wheel
  BY DEF Update
<1>4. /\ slots' \in [Handles -> Conn \cup {NoConn}] /\ slots'[h] = p.conn
      /\ \A j \in Handles : j # h => slots'[j] = slots[j]
  BY <1>1, <1>2, <1>3
<1>5. \A j \in Handles : Live(j)' <=> Live(j)
  BY <1>2, <1>4, KindsDiffer DEF Live
<1>6. TableConsistent'
  <2>1. \A j \in Handles : Live(j) => slots'[j].tuple = slots[j].tuple
    BY <1>4
  <2> QED BY <1>1, <1>5, <2>1 DEF TableConsistent
<1>7. TimerInv'
  <2>1. ASSUME NEW j \in Handles, Live(j)'
        PROVE  Noted(j, slots'[j], wheel' \cup batch') /\ Duty(slots'[j])
    <3>1. CASE j = h
      BY <1>2, <1>3, <1>4, <3>1
    <3>2. CASE j # h
      <4>1. /\ slots'[j] = slots[j] /\ slots[j] \in Conn
            /\ Noted(j, slots[j], wheel \cup batch) /\ Duty(slots[j])
        BY <1>1, <1>4, <1>5, <2>1, <3>2 DEF TimerInv, Live
      <4>2. \A t \in TimerId : t.owner = j =>
               (t \in wheel' \cup batch' <=> t \in wheel \cup batch)
        BY <1>3, <3>2
      <4>3. \A k \in Kinds : slots[j].timer[k] \in TimerId \cup {NoTimer}
        BY <4>1 DEF Conn
      <4>4. wheel' \cup batch' \subseteq TimerId
        BY <1>1, <1>2, <1>3
      <4>5. Noted(j, slots[j], wheel' \cup batch')
        BY <4>1, <4>2, <4>3, <4>4 DEF Noted
      <4> QED BY <4>1, <4>5
    <3> QED BY <3>1, <3>2
  <2>2. ASSUME NEW t \in wheel' PROVE Live(t.owner)'
    <3>1. t \in TimerId /\ t.owner \in Handles
      BY <1>2, <1>3 DEF TimerId
    <3>2. CASE t.owner = h
      BY <1>5, <3>2
    <3>3. CASE t.owner # h
      BY <1>3, <1>5, <3>1, <3>3 DEF TimerInv
    <3> QED BY <3>2, <3>3
  <2>3. (phase # "timers" => batch = {})' /\ wheel' \cap batch' = {}
    BY <1>2, <1>3 DEF TimerInv
  <2> QED BY <2>1, <2>2, <2>3 DEF TimerInv
<1> QED BY <1>2, <1>3, <1>4, <1>5, <1>6, <1>7

\* Connections leave: their entries, tuples and timers, and nothing else.
LEMMA RemoveStep ==
    ASSUME TypeOK, TableConsistent, TimerInv,
           NEW hs \in SUBSET Handles, \A h \in hs : Live(h), RemoveConns(hs),
           wheel' = {t \in wheel : t.owner \notin hs},
           batch' \in SUBSET batch,
           \A t \in batch : t.owner \notin hs => t \in batch',
           phase' # "timers" => batch' = {}
    PROVE  /\ slots' \in [Handles -> Conn \cup {NoConn}]
           /\ DOMAIN by_tuple' \subseteq Tuple /\ by_tuple' \in [DOMAIN by_tuple' -> Handles]
           /\ wheel' \in SUBSET TimerId /\ IsFiniteSet(wheel')
           /\ \A h \in Handles : h \notin hs => slots'[h] = slots[h]
           /\ \A h \in Handles : Live(h)' <=> Live(h) /\ h \notin hs
           /\ TableConsistent'
           /\ TimerInv'
<1>1. /\ slots \in [Handles -> Conn \cup {NoConn}] /\ by_tuple \in [DOMAIN by_tuple -> Handles]
      /\ wheel \in SUBSET TimerId /\ batch \in SUBSET TimerId /\ DOMAIN by_tuple \subseteq Tuple
      /\ IsFiniteSet(wheel)
  BY DEF TypeOK
<1> DEFINE out == {slots[h].tuple : h \in hs}
<1>2. /\ slots' = [h \in Handles |-> IF h \in hs THEN NoConn ELSE slots[h]]
      /\ by_tuple' = [t \in DOMAIN by_tuple \ out |-> by_tuple[t]]
  BY DEF RemoveConns
<1>3. /\ \A h \in Handles : h \notin hs => slots'[h] = slots[h]
      /\ \A h \in Handles : Live(h)' <=> Live(h) /\ h \notin hs
  BY <1>2 DEF Live
<1>4. /\ slots' \in [Handles -> Conn \cup {NoConn}]
      /\ DOMAIN by_tuple' = DOMAIN by_tuple \ out
      /\ \A t \in DOMAIN by_tuple' : by_tuple'[t] = by_tuple[t]
      /\ by_tuple' \in [DOMAIN by_tuple' -> Handles]
  BY <1>1, <1>2
<1>5. wheel' \in SUBSET TimerId /\ IsFiniteSet(wheel')
  BY <1>1, FS_Subset
<1>6. TableConsistent'
  <2>1. ASSUME NEW t \in DOMAIN by_tuple'
        PROVE  Live(by_tuple[t])' /\ slots'[by_tuple[t]].tuple = t
    <3>1. t \in DOMAIN by_tuple /\ t \notin out
      BY <1>4
    <3>2. by_tuple[t] \in Handles /\ Live(by_tuple[t]) /\ slots[by_tuple[t]].tuple = t
      BY <1>1, <3>1 DEF TableConsistent
    <3>3. by_tuple[t] \notin hs
      BY <3>1, <3>2
    <3> QED BY <1>3, <1>4, <3>2, <3>3
  <2>2. ASSUME NEW h \in Handles, Live(h)'
        PROVE  slots'[h].tuple \in DOMAIN by_tuple' /\ by_tuple'[slots'[h].tuple] = h
    <3>1. Live(h) /\ h \notin hs /\ slots'[h] = slots[h]
      BY <1>3, <2>2
    <3>2. slots[h].tuple \in DOMAIN by_tuple /\ by_tuple[slots[h].tuple] = h
      BY <3>1 DEF TableConsistent
    <3>3. slots[h].tuple \notin out
      <4> SUFFICES ASSUME NEW j \in hs, slots[j].tuple = slots[h].tuple PROVE FALSE
        OBVIOUS
      <4>1. by_tuple[slots[j].tuple] = j
        BY DEF TableConsistent
      <4> QED BY <3>1, <3>2, <4>1
    <3> QED BY <1>4, <3>1, <3>2, <3>3
  <2> QED BY <1>4, <2>1, <2>2 DEF TableConsistent
<1>7. TimerInv'
  <2>1. ASSUME NEW j \in Handles, Live(j)'
        PROVE  Noted(j, slots'[j], wheel' \cup batch') /\ Duty(slots'[j])
    <3>1. Live(j) /\ j \notin hs /\ slots'[j] = slots[j]
      BY <1>3, <2>1
    <3>2. Noted(j, slots[j], wheel \cup batch) /\ Duty(slots[j])
      BY <3>1 DEF TimerInv
    <3>3. \A t \in TimerId : t.owner = j =>
             (t \in wheel' \cup batch' <=> t \in wheel \cup batch)
      BY <3>1
    <3>4. \A k \in Kinds : slots[j].timer[k] \in TimerId \cup {NoTimer}
      BY <1>1, <3>1 DEF Conn, Live
    <3>5. wheel' \cup batch' \subseteq TimerId
      BY <1>1
    <3>6. Noted(j, slots[j], wheel' \cup batch')
      BY <3>2, <3>3, <3>4, <3>5 DEF Noted
    <3> QED BY <3>1, <3>2, <3>6
  <2>2. ASSUME NEW t \in wheel' PROVE Live(t.owner)'
    <3>1. t \in wheel /\ t.owner \notin hs /\ t.owner \in Handles
      BY <1>1 DEF TimerId
    <3> QED BY <1>3, <3>1 DEF TimerInv
  <2>3. wheel' \cap batch' = {}
    BY DEF TimerInv
  <2> QED BY <2>1, <2>2, <2>3 DEF TimerInv
<1> QED BY <1>1, <1>3, <1>4, <1>5, <1>6, <1>7

\* A connection enters, in a free slot and under a new tuple.
LEMMA InsertStep ==
    ASSUME TypeOK, TableConsistent, TimerInv, batch = {},
           NEW tuple \in Tuple, NEW state \in Handshakes, NEW timed \in BOOLEAN,
           state = "SynSent" => timed,
           CanInsert(tuple), Insert(tuple, state, timed),
           batch' = batch, phase' = phase
    PROVE  \E h \in Handles :
           /\ ~Live(h) /\ Live(h)'
           /\ \A j \in Handles : j # h => slots'[j] = slots[j]
           /\ \A j \in Handles : Live(j)' <=> Live(j) \/ j = h
           /\ slots'[h].tuple = tuple /\ slots'[h].state = state
           /\ slots'[h].birth = Len(log) + 1 /\ log' = Append(log, <<>>)
           /\ by_tuple'[tuple] = h
           /\ slots' \in [Handles -> Conn \cup {NoConn}]
           /\ DOMAIN by_tuple' \subseteq Tuple /\ by_tuple' \in [DOMAIN by_tuple' -> Handles]
           /\ wheel' \in SUBSET TimerId /\ IsFiniteSet(wheel')
           /\ TableConsistent'
           /\ TimerInv'
<1>1. /\ slots \in [Handles -> Conn \cup {NoConn}] /\ by_tuple \in [DOMAIN by_tuple -> Handles]
      /\ wheel \in SUBSET TimerId /\ DOMAIN by_tuple \subseteq Tuple
      /\ IsFiniteSet(wheel) /\ log \in Seq(Seq(LifeEvents))
  BY DEF TypeOK
<1> DEFINE g == CHOOSE k \in Handles : ~Live(k) /\ \A j \in 1 .. k - 1 : Live(j)
<1>0. PICK h \in Handles : h = g /\ ~Live(h)
  BY LowestFree DEF CanInsert
<1> DEFINE c == [tuple |-> tuple, birth |-> Len(log) + 1, state |-> state,
                 syn_retrans_count |-> 0, timer |-> [k \in Kinds |-> NoTimer],
                 timer_ids |-> {}, flight |-> FALSE, ts_enabled |-> FALSE,
                 force_tw_skip |-> FALSE]
           p == Pair(c, wheel)
           q == IF timed THEN Start(p, h, "syn") ELSE p
<1>2. h \in Handles /\ ~Live(h) /\ tuple \notin DOMAIN by_tuple
  BY <1>0 DEF CanInsert
<1>3. /\ slots' = [slots EXCEPT ![h] = q.conn] /\ wheel' = q.wheel
      /\ by_tuple' = [t \in DOMAIN by_tuple \cup {tuple} |->
                         IF t = tuple THEN h ELSE by_tuple[t]]
      /\ log' = Append(log, <<>>)
  BY <1>0 DEF Insert, Update
<1>4. PairOK(p, h, {})
  <2>1. c \in Conn
    BY <1>1 DEF Conn, States, Handshakes
  <2>2. p.conn = c /\ p.wheel = wheel
    BY DEF Pair
  <2>3. \A t \in wheel : t.owner # h
    BY <1>2 DEF TimerInv
  <2>4. Noted(h, c, wheel)
    BY <2>3 DEF Noted
  <2> QED BY <1>1, <2>1, <2>2, <2>4 DEF PairOK
<1>5. /\ p.conn.tuple = tuple /\ p.conn.birth = Len(log) + 1 /\ p.conn.state = state
      /\ ~p.conn.flight /\ \A k \in Kinds : p.conn.timer[k] = NoTimer
      /\ p.wheel = wheel
  BY DEF Pair
<1> HIDE DEF p
<1>6. /\ PairOK(q, h, {}) /\ OnlyTimers(p, q, h)
      /\ timed => q.conn.timer["syn"] # NoTimer
      /\ q.conn.timer["rto"] = NoTimer /\ q.conn.timer["tlp"] = NoTimer
  <2>1. CASE timed
    BY <1>2, <1>4, <1>5, <2>1, StartOK, KindsDiffer
  <2>2. CASE ~timed
    BY <1>4, <1>5, <2>2, KindsDiffer DEF OnlyTimers
  <2> QED BY <2>1, <2>2
<1> HIDE DEF q
<1>7. /\ q.conn \in Conn /\ q.wheel \in SUBSET TimerId /\ IsFiniteSet(q.wheel)
      /\ Noted(h, q.conn, q.wheel)
      /\ q.conn.tuple = tuple /\ q.conn.birth = Len(log) + 1 /\ q.conn.state = state
      /\ ~q.conn.flight
      /\ \A t \in TimerId : t.owner # h => (t \in q.wheel <=> t \in wheel)
  BY <1>5, <1>6 DEF PairOK, OnlyTimers
<1>8. Duty(q.conn)
  BY <1>6, <1>7 DEF Duty
<1>9. /\ slots' \in [Handles -> Conn \cup {NoConn}] /\ slots'[h] = q.conn
      /\ \A j \in Handles : j # h => slots'[j] = slots[j]
  BY <1>1, <1>2, <1>3, <1>7
<1>10. /\ \A j \in Handles : Live(j)' <=> Live(j) \/ j = h
       /\ Live(h)'
  BY <1>2, <1>7, <1>9, KindsDiffer DEF Live
<1>11. /\ DOMAIN by_tuple' = DOMAIN by_tuple \cup {tuple} /\ by_tuple'[tuple] = h
       /\ \A t \in DOMAIN by_tuple : by_tuple'[t] = by_tuple[t]
       /\ by_tuple' \in [DOMAIN by_tuple' -> Handles]
  BY <1>1, <1>2, <1>3
<1>12. TableConsistent'
  <2>1. ASSUME NEW t \in DOMAIN by_tuple'
        PROVE  Live(by_tuple[t])' /\ slots'[by_tuple'[t]].tuple = t
    <3>1. CASE t = tuple
      BY <1>7, <1>9, <1>10, <1>11, <3>1
    <3>2. CASE t # tuple
      <4>1. t \in DOMAIN by_tuple /\ by_tuple'[t] = by_tuple[t] /\ by_tuple[t] \in Handles
        BY <1>1, <1>11, <3>2
      <4>2. Live(by_tuple[t]) /\ slots[by_tuple[t]].tuple = t
        BY <4>1 DEF TableConsistent
      <4> QED BY <1>2, <1>9, <1>10, <4>1, <4>2
    <3> QED BY <3>1, <3>2
  <2>2. ASSUME NEW j \in Handles, Live(j)'
        PROVE  slots'[j].tuple \in DOMAIN by_tuple' /\ by_tuple'[slots'[j].tuple] = j
    <3>1. CASE j = h
      BY <1>7, <1>9, <1>11, <3>1
    <3>2. CASE j # h
      BY <1>2, <1>9, <1>10, <1>11, <2>2, <3>2 DEF TableConsistent
    <3> QED BY <3>1, <3>2
  <2> QED BY <2>1, <2>2 DEF TableConsistent
<1>13. TimerInv'
  <2>1. ASSUME NEW j \in Handles, Live(j)'
        PROVE  Noted(j, slots'[j], wheel' \cup batch') /\ Duty(slots'[j])
    <3>0. wheel' \cup batch' = q.wheel /\ wheel \cup batch = wheel
      BY <1>3
    <3>1. CASE j = h
      BY <1>7, <1>8, <1>9, <3>0, <3>1
    <3>2. CASE j # h
      <4>1. /\ slots'[j] = slots[j] /\ slots[j] \in Conn
            /\ Noted(j, slots[j], wheel) /\ Duty(slots[j])
        BY <1>1, <1>9, <1>10, <2>1, <3>0, <3>2 DEF TimerInv, Live
      <4>2. \A k \in Kinds : slots[j].timer[k] \in TimerId \cup {NoTimer}
        BY <4>1 DEF Conn
      <4>3. Noted(j, slots[j], q.wheel)
        BY <1>1, <1>7, <3>2, <4>1, <4>2 DEF Noted
      <4> QED BY <3>0, <4>1, <4>3
    <3> QED BY <3>1, <3>2
  <2>2. ASSUME NEW t \in wheel' PROVE Live(t.owner)'
    <3>1. t \in TimerId /\ t.owner \in Handles
      BY <1>3, <1>7 DEF TimerId
    <3> QED BY <1>3, <1>7, <1>10, <3>1 DEF TimerInv
  <2>3. (phase # "timers" => batch = {})'
    OBVIOUS
  <2> QED BY <2>1, <2>2, <2>3 DEF TimerInv
<1> QED BY <1>1, <1>2, <1>3, <1>7, <1>9, <1>10, <1>11, <1>12, <1>13

-----------------------------------------------------------------------------
\* What connections tell.

\* A step without events, which leaves every connection where its story is.
LEMMA LifeSame ==
    ASSUME LifeInv, log' = log,
           \A j \in Handles : Live(j)' <=> Live(j),
           \A j \in Handles : Live(j) =>
              slots'[j].birth = slots[j].birth /\ Told(slots'[j]) = Told(slots[j])
    PROVE  LifeInv'
BY DEF LifeInv

LEMMA Stories ==
    /\ <<>> \o <<"connected">> = <<"connected">>
    /\ <<>> \o <<"closed">> \in Ended
    /\ <<"connected">> \o <<"closed">> \in Ended
    /\ <<>> \o <<"etimedout", "closed">> \in Ended
    /\ <<"connected">> \o <<"etimedout", "closed">> \in Ended
    /\ Ended \subseteq Seq(LifeEvents)
    /\ <<>> \in Seq(LifeEvents) /\ <<"connected">> \in Seq(LifeEvents)
<1> DEFINE e == <<>> c == <<"connected">> x == <<"closed">> y == <<"etimedout", "closed">>
<1>1. {e, c, x, y, <<"connected", "closed">>, <<"connected", "etimedout", "closed">>}
         \subseteq Seq(LifeEvents)
  <2>1. /\ e \in Seq(LifeEvents) /\ c \in Seq(LifeEvents) /\ x \in Seq(LifeEvents) /\ y \in Seq(LifeEvents)
        /\ <<"connected", "closed">> \in Seq(LifeEvents)
        /\ <<"connected", "etimedout", "closed">> \in Seq(LifeEvents)
    BY DEF LifeEvents
  <2> QED BY <2>1
<1>2. e \o c = c /\ e \o x = x /\ e \o y = y
  BY <1>1, ConcatEmptySeq
<1>3. c \o x = <<"connected", "closed">>
  <2> DEFINE r == c \o x
             l == <<"connected", "closed">>
  <2>1. /\ r \in Seq(LifeEvents) /\ Len(r) = Len(c) + Len(x)
        /\ \A i \in 1 .. Len(c) + Len(x) : r[i] = IF i <= Len(c) THEN c[i] ELSE x[i - Len(c)]
    BY <1>1, ConcatProperties
  <2>2. Len(c) = 1 /\ Len(x) = 1 /\ Len(l) = 2
    OBVIOUS
  <2> HIDE DEF r
  <2>3. \A i \in 1 .. 2 : r[i] = l[i]
    BY <2>1, <2>2
  <2>4. l \in Seq(LifeEvents)
    BY <1>1
  <2>5. r = l
    BY <2>1, <2>2, <2>3, <2>4, SeqEqual
  <2> QED BY <2>5 DEF r
<1>4. c \o y = <<"connected", "etimedout", "closed">>
  <2> DEFINE r == c \o y
             l == <<"connected", "etimedout", "closed">>
  <2>1. /\ r \in Seq(LifeEvents) /\ Len(r) = Len(c) + Len(y)
        /\ \A i \in 1 .. Len(c) + Len(y) : r[i] = IF i <= Len(c) THEN c[i] ELSE y[i - Len(c)]
    BY <1>1, ConcatProperties
  <2>2. Len(c) = 1 /\ Len(y) = 2 /\ Len(l) = 3
    OBVIOUS
  <2> HIDE DEF r
  <2>3. \A i \in 1 .. 3 : r[i] = l[i]
    BY <2>1, <2>2
  <2>4. l \in Seq(LifeEvents)
    BY <1>1
  <2>5. r = l
    BY <2>1, <2>2, <2>3, <2>4, SeqEqual
  <2> QED BY <2>5 DEF r
<1> QED BY <1>1, <1>2, <1>3, <1>4 DEF Ended

\* A function on the positions of a sequence is a sequence.
LEMMA SameDomain ==
    ASSUME NEW S, NEW s \in Seq(S), NEW f, f = [i \in DOMAIN s |-> f[i]],
           \A i \in DOMAIN s : f[i] \in S
    PROVE  f \in Seq(S)
<1>1. Len(s) \in Nat /\ DOMAIN s = 1 .. Len(s)
  BY LenProperties
<1>2. f \in [1 .. Len(s) -> S]
  BY <1>1
<1> QED BY <1>1, <1>2, SeqDef

\* The handshake of h completes.
LEMMA LifeConnected ==
    ASSUME LifeInv, log \in Seq(Seq(LifeEvents)),
           NEW h \in Handles, Live(h), slots[h].state \in Handshakes,
           Push({h}, <<"connected">>),
           slots'[h].birth = slots[h].birth, slots'[h].state \notin Handshakes,
           \A j \in Handles : j # h => slots'[j] = slots[j],
           \A j \in Handles : Live(j)' <=> Live(j)
    PROVE  LifeInv' /\ log' \in Seq(Seq(LifeEvents))
<1> DEFINE b == slots[h].birth
<1>1. b \in DOMAIN log /\ log[b] = <<>>
  BY DEF LifeInv, Told
<1>2. log' = [i \in DOMAIN log |-> IF i = b THEN log[i] \o <<"connected">> ELSE log[i]]
  BY DEF Push
<1>3. /\ DOMAIN log' = DOMAIN log /\ log'[b] = <<"connected">>
      /\ \A i \in DOMAIN log : i # b => log'[i] = log[i]
  BY <1>1, <1>2, Stories
<1>4. log' \in Seq(Seq(LifeEvents))
  <2>1. \A i \in DOMAIN log : log[i] \in Seq(LifeEvents)
    BY LenProperties
  <2>2. \A i \in DOMAIN log : log'[i] \in Seq(LifeEvents)
    BY <1>1, <1>3, <2>1, Stories
  <2>3. log' = [i \in DOMAIN log |-> log'[i]]
    BY <1>2
  <2> QED BY <2>2, <2>3, SameDomain
<1>5. ASSUME NEW j \in Handles, Live(j)'
      PROVE  slots'[j].birth \in DOMAIN log' /\ log'[slots'[j].birth] = Told(slots'[j])
  <2>1. CASE j = h
    BY <1>1, <1>3, <2>1 DEF Told
  <2>2. CASE j # h
    BY <1>3, <1>5, <2>2, ZenonT(40) DEF LifeInv
  <2> QED BY <2>1, <2>2
<1>6. \A j \in Handles : Live(j) => slots'[j].birth = slots[j].birth
  OBVIOUS
<1>7. \A i, j \in Handles :
          Live(i)' /\ Live(j)' /\ slots'[i].birth = slots'[j].birth => i = j
  BY <1>6 DEF LifeInv
<1>8. \A i \in DOMAIN log' :
          (\A j \in Handles : Live(j)' => slots'[j].birth # i) => log'[i] \in Ended
  BY <1>3, <1>6, ZenonT(40) DEF LifeInv
<1> QED BY <1>4, <1>5, <1>7, <1>8 DEF LifeInv

\* The connections hs end.
LEMMA LifeEnds ==
    ASSUME LifeInv, log \in Seq(Seq(LifeEvents)),
           NEW hs \in SUBSET Handles, \A h \in hs : Live(h),
           NEW kinds \in {<<"closed">>, <<"etimedout", "closed">>},
           Push(hs, kinds),
           \A j \in Handles : j \notin hs => slots'[j] = slots[j],
           \A j \in Handles : Live(j)' <=> Live(j) /\ j \notin hs
    PROVE  LifeInv' /\ log' \in Seq(Seq(LifeEvents))
<1>1. log' = [i \in DOMAIN log |->
                 IF \E h \in hs : slots[h].birth = i THEN log[i] \o kinds ELSE log[i]]
  BY DEF Push
<1>2. ASSUME NEW h \in hs
      PROVE  slots[h].birth \in DOMAIN log /\ log'[slots[h].birth] \in Ended
  <2>1. slots[h].birth \in DOMAIN log /\ log[slots[h].birth] \in {<<>>, <<"connected">>}
    BY DEF LifeInv, Told
  <2>2. log'[slots[h].birth] = log[slots[h].birth] \o kinds
    BY <1>1, <2>1
  <2> QED BY <2>1, <2>2, Stories
<1>3. /\ DOMAIN log' = DOMAIN log
      /\ \A i \in DOMAIN log : (\A h \in hs : slots[h].birth # i) => log'[i] = log[i]
  BY <1>1
<1>4. log' \in Seq(Seq(LifeEvents))
  <2>1. \A i \in DOMAIN log : log'[i] \in Seq(LifeEvents)
    BY <1>2, <1>3, Stories
  <2>2. log' = [i \in DOMAIN log |-> log'[i]]
    BY <1>1
  <2> QED BY <2>1, <2>2, SameDomain
<1>5. ASSUME NEW j \in Handles, Live(j)'
      PROVE  slots'[j].birth \in DOMAIN log' /\ log'[slots'[j].birth] = Told(slots'[j])
  <2>1. Live(j) /\ j \notin hs /\ slots'[j] = slots[j]
    BY <1>5
  <2>2. \A h \in hs : slots[h].birth # slots[j].birth
    BY <2>1 DEF LifeInv
  <2> QED BY <1>3, <2>1, <2>2 DEF LifeInv
<1>6. \A i, j \in Handles :
          Live(i)' /\ Live(j)' /\ slots'[i].birth = slots'[j].birth => i = j
  BY DEF LifeInv
<1>7. ASSUME NEW i \in DOMAIN log', \A j \in Handles : Live(j)' => slots'[j].birth # i
      PROVE  log'[i] \in Ended
  <2>1. CASE \E h \in hs : slots[h].birth = i
    BY <1>2, <2>1
  <2>2. CASE \A h \in hs : slots[h].birth # i
    <3>1. \A j \in Handles : Live(j) => slots[j].birth # i
      BY <1>7, <2>2
    <3> QED BY <1>3, <2>2, <3>1 DEF LifeInv
  <2> QED BY <2>1, <2>2
<1> QED BY <1>4, <1>5, <1>6, <1>7 DEF LifeInv

\* A connection begins, with an empty story.
LEMMA LifeBegins ==
    ASSUME LifeInv, log \in Seq(Seq(LifeEvents)), log' = Append(log, <<>>),
           slots \in [Handles -> Conn \cup {NoConn}],
           NEW h \in Handles, ~Live(h), slots'[h].birth = Len(log) + 1,
           slots'[h].state \in Handshakes,
           \A j \in Handles : j # h => slots'[j] = slots[j],
           \A j \in Handles : Live(j)' <=> Live(j) \/ j = h
    PROVE  LifeInv' /\ log' \in Seq(Seq(LifeEvents))
<1>1. /\ DOMAIN log' = 1 .. Len(log) + 1 /\ DOMAIN log = 1 .. Len(log) /\ Len(log) \in Nat
      /\ log'[Len(log) + 1] = <<>> /\ \A i \in DOMAIN log : log'[i] = log[i]
  OBVIOUS
<1>2. log' \in Seq(Seq(LifeEvents))
  BY Stories
<1>3. ASSUME NEW j \in Handles, Live(j)'
      PROVE  /\ slots'[j].birth \in DOMAIN log' /\ log'[slots'[j].birth] = Told(slots'[j])
             /\ j # h => slots'[j].birth <= Len(log) /\ slots'[j].birth = slots[j].birth
  <2>1. CASE j = h
    BY <1>1, <2>1 DEF Told
  <2>2. CASE j # h
    BY <1>1, <1>3, <2>2 DEF LifeInv
  <2> QED BY <2>1, <2>2
<1>4. ASSUME NEW i \in Handles, NEW j \in Handles,
             Live(i)', Live(j)', slots'[i].birth = slots'[j].birth
      PROVE  i = j
  <2>1. CASE i # h /\ j # h
    BY <1>4, <2>1 DEF LifeInv
  <2>2. CASE i = h \/ j = h
    BY <1>1, <1>3, <1>4, <2>2
  <2> QED BY <2>1, <2>2
<1>5. ASSUME NEW i \in DOMAIN log', \A j \in Handles : Live(j)' => slots'[j].birth # i
      PROVE  log'[i] \in Ended
  <2>1. i # Len(log) + 1 /\ i \in DOMAIN log
    BY <1>1, <1>5
  <2>2. \A j \in Handles : Live(j) => slots[j].birth # i
    BY <1>5
  <2> QED BY <1>1, <2>1, <2>2 DEF LifeInv
<1> QED BY <1>2, <1>3, <1>4, <1>5 DEF LifeInv

-----------------------------------------------------------------------------
\* Listen slots.

LEMMA NoneIsNoHandle == \A i \in 0 .. Slots : i # None => i \in Handles
BY ConnectionsParams DEF None, Handles

LEMMA ListenSame ==
    ASSUME TypeOK, ListenSlotSound, listen' = listen,
           \A j \in Handles : SynReceived(j)' <=> SynReceived(j),
           \A j \in Handles : SynReceived(j) => slots'[j].tuple = slots[j].tuple
    PROVE  ListenSlotSound'
<1>1. \A p \in DOMAIN listen : listen[p].in_progress \in 0 .. Slots
  BY DEF TypeOK, ListenSlot
<1>2. ASSUME NEW p \in DOMAIN listen, listen[p].in_progress # None
      PROVE  SynReceived(listen[p].in_progress)'
  <2>1. PICK j \in Handles : j = listen[p].in_progress
    BY <1>1, <1>2, NoneIsNoHandle
  <2>2. SynReceived(j)'
    BY <1>2, <2>1 DEF ListenSlotSound
  <2> QED BY <2>1, <2>2
<1> QED BY <1>2 DEF ListenSlotSound

\* The handshake h, in progress or failed, leaves its listen slot.
LEMMA ListenLeft ==
    ASSUME TypeOK, ListenSlotSound, NEW h \in Handles,
           listen' = Cleared(h) \/ listen' = Promoted(h),
           \A j \in Handles : SynReceived(j)' <=> SynReceived(j) /\ j # h,
           \A j \in Handles : j # h => slots'[j] = slots[j]
    PROVE  /\ ListenSlotSound'
           /\ DOMAIN listen' \subseteq Ports /\ listen' \in [DOMAIN listen' -> ListenSlot]
<1>1. listen \in [DOMAIN listen -> ListenSlot] /\ DOMAIN listen \subseteq Ports
  BY DEF TypeOK
<1>0. Slots \in Nat /\ h \in 1 .. Slots /\ None = 0
  BY ConnectionsParams DEF Handles, None
<1>2. /\ DOMAIN listen' = DOMAIN listen
      /\ \A p \in DOMAIN listen :
            /\ listen'[p] \in ListenSlot
            /\ listen[p].in_progress = h => listen'[p].in_progress = None
            /\ listen[p].in_progress # h => listen'[p] = listen[p]
  <2>1. CASE listen' = Cleared(h)
    BY <1>0, <1>1, <2>1 DEF Cleared, ListenSlot
  <2>2. CASE listen' = Promoted(h)
    BY <1>0, <1>1, <2>2 DEF Promoted, ListenSlot
  <2> QED BY <2>1, <2>2
<1>3. listen' = [p \in DOMAIN listen |-> listen'[p]]
  BY DEF Cleared, Promoted
<1>4. listen' \in [DOMAIN listen' -> ListenSlot]
  BY <1>2, <1>3
<1>5. ASSUME NEW p \in DOMAIN listen', listen'[p].in_progress # None
      PROVE  SynReceived(listen[p].in_progress)'
  <2>1. listen'[p] = listen[p] /\ listen[p].in_progress # h /\ p \in DOMAIN listen
    BY <1>2, <1>5
  <2>2. PICK j \in Handles : j = listen[p].in_progress
    BY <1>1, <1>5, <2>1, NoneIsNoHandle DEF ListenSlot
  <2>3. SynReceived(j)'
    BY <1>5, <2>1, <2>2 DEF ListenSlotSound
  <2> QED BY <2>1, <2>2, <2>3
<1>6. ASSUME NEW j \in Handles, SynReceived(j)'
      PROVE  {p \in DOMAIN listen' : listen'[p].in_progress = j} = {slots'[j].tuple.port}
  <2>1. SynReceived(j) /\ j # h /\ slots'[j] = slots[j] /\ j # None
    BY <1>6, <1>0 DEF Handles
  <2>2. {p \in DOMAIN listen : listen[p].in_progress = j} = {slots[j].tuple.port}
    BY <2>1 DEF ListenSlotSound
  <2>3. \A p \in DOMAIN listen : listen'[p].in_progress = j <=> listen[p].in_progress = j
    BY <1>2, <2>1
  <2> QED BY <1>2, <2>1, <2>2, <2>3
<1> QED BY <1>1, <1>2, <1>4, <1>5, <1>6 DEF ListenSlotSound

\* A handshake begins in a slot that has none.
LEMMA ListenBegins ==
    ASSUME TypeOK, ListenSlotSound, NEW h \in Handles, NEW port \in DOMAIN listen,
           ~Live(h), ~Full(listen[port]),
           listen' = [listen EXCEPT ![port].in_progress = h],
           SynReceived(h)', slots'[h].tuple.port = port,
           \A j \in Handles : j # h => slots'[j] = slots[j]
    PROVE  /\ ListenSlotSound'
           /\ DOMAIN listen' \subseteq Ports /\ listen' \in [DOMAIN listen' -> ListenSlot]
<1>1. listen \in [DOMAIN listen -> ListenSlot] /\ DOMAIN listen \subseteq Ports
  BY DEF TypeOK
<1>0. Slots \in Nat /\ h \in 1 .. Slots /\ None = 0
  BY ConnectionsParams DEF Handles, None
<1>2. /\ DOMAIN listen' = DOMAIN listen /\ listen' \in [DOMAIN listen' -> ListenSlot]
      /\ listen'[port].in_progress = h
      /\ \A p \in DOMAIN listen : p # port => listen'[p] = listen[p]
  BY <1>0, <1>1 DEF ListenSlot
<1>3. listen[port].in_progress = None
  BY DEF Full
<1>4. \A p \in DOMAIN listen : listen[p].in_progress # h
  <2> SUFFICES ASSUME NEW p \in DOMAIN listen, listen[p].in_progress = h PROVE FALSE
    OBVIOUS
  <2>1. h # None
    BY <1>0
  <2> QED BY <2>1 DEF ListenSlotSound, SynReceived
<1>5. \A j \in Handles : j # h => (SynReceived(j)' <=> SynReceived(j))
  BY DEF SynReceived, Live
<1>6. ASSUME NEW p \in DOMAIN listen', listen'[p].in_progress # None
      PROVE  SynReceived(listen[p].in_progress)'
  <2>1. CASE p = port
    BY <1>2, <2>1
  <2>2. CASE p # port
    <3>1. listen'[p] = listen[p] /\ p \in DOMAIN listen /\ listen[p].in_progress # h
      BY <1>2, <1>4, <2>2
    <3>2. PICK j \in Handles : j = listen[p].in_progress
      BY <1>1, <1>6, <3>1, NoneIsNoHandle DEF ListenSlot
    <3>3. SynReceived(j)'
      BY <1>5, <1>6, <3>1, <3>2 DEF ListenSlotSound
    <3> QED BY <3>1, <3>2, <3>3
  <2> QED BY <2>1, <2>2
<1>7. ASSUME NEW j \in Handles, SynReceived(j)'
      PROVE  {p \in DOMAIN listen' : listen'[p].in_progress = j} = {slots'[j].tuple.port}
  <2>1. CASE j = h
    BY <1>2, <1>4, <2>1
  <2>2. CASE j # h
    <3>1. SynReceived(j) /\ slots'[j] = slots[j] /\ j # None
      BY <1>0, <1>5, <1>7, <2>2 DEF Handles
    <3>2. {p \in DOMAIN listen : listen[p].in_progress = j} = {slots[j].tuple.port}
      BY <3>1 DEF ListenSlotSound
    <3>3. \A p \in DOMAIN listen : listen'[p].in_progress = j <=> listen[p].in_progress = j
      BY <1>2, <1>3, <2>2, <3>1
    <3> QED BY <1>2, <3>1, <3>2, <3>3
  <2> QED BY <2>1, <2>2
<1> QED BY <1>1, <1>2, <1>6, <1>7 DEF ListenSlotSound

-----------------------------------------------------------------------------
\* The same for the whole invariant.

\* One connection changes without an event and without entering or leaving a
\* handshake.
LEMMA QuietUpdate ==
    ASSUME IInv, NEW h \in Handles, Live(h), NEW p,
           PairOK(p, h, batch'), Duty(p.conn),
           p.conn.tuple = slots[h].tuple, p.conn.birth = slots[h].birth,
           Told(p.conn) = Told(slots[h]),
           p.conn.state = "SynReceived" <=> slots[h].state = "SynReceived",
           \A t \in TimerId : t.owner # h => (t \in p.wheel <=> t \in wheel),
           Update(h, p), by_tuple' = by_tuple, phase' = phase, log' = log, listen' = listen,
           batch' \in SUBSET batch, \A t \in batch : t.owner # h => t \in batch'
    PROVE  IInv'
<1>1. TypeOK /\ TableConsistent /\ TimerInv /\ LifeInv /\ ListenSlotSound
  BY DEF IInv
<1>2. /\ slots' \in [Handles -> Conn \cup {NoConn}]
      /\ wheel' \in SUBSET TimerId /\ IsFiniteSet(wheel')
      /\ slots'[h] = p.conn
      /\ \A j \in Handles : j # h => slots'[j] = slots[j]
      /\ \A j \in Handles : Live(j)' <=> Live(j)
      /\ TableConsistent'
      /\ TimerInv'
  BY <1>1, UpdateStep
<1>3. TypeOK'
  BY <1>1, <1>2 DEF TypeOK
<1>4. LifeInv'
  BY <1>1, <1>2, LifeSame
<1>5. ListenSlotSound'
  BY <1>1, <1>2, ListenSame DEF SynReceived
<1> QED BY <1>2, <1>3, <1>4, <1>5 DEF IInv

\* A handshake completes; a passive one moves to the accept queue.
LEMMA ConnectedStep ==
    ASSUME IInv, phase = "rx", NEW h \in Handles, Live(h),
           slots[h].state \in Handshakes,
           Update(h, Stop(Pair([slots[h] EXCEPT !.state = "Established",
                                                !.ts_enabled = TsEnabled], wheel), "syn")),
           Push({h}, <<"connected">>),
           IF slots[h].state = "SynReceived" THEN listen' = Promoted(h) ELSE listen' = listen,
           by_tuple' = by_tuple, batch' = batch, phase' = phase
    PROVE  IInv'
<1>1. TypeOK /\ TableConsistent /\ TimerInv /\ LifeInv /\ ListenSlotSound
  BY DEF IInv
<1> DEFINE c == [slots[h] EXCEPT !.state = "Established", !.ts_enabled = TsEnabled]
           p == Pair(c, wheel)
           q == Stop(p, "syn")
<1>2. batch = {} /\ slots[h] \in Conn /\ Noted(h, slots[h], wheel) /\ Duty(slots[h])
  <2>1. batch = {} /\ Noted(h, slots[h], wheel \cup batch) /\ Duty(slots[h])
    BY <1>1 DEF TimerInv
  <2>2. slots[h] \in Conn
    BY <1>1 DEF TypeOK, Live
  <2>3. wheel \cup batch = wheel
    BY <2>1
  <2> QED BY <2>1, <2>2, <2>3
<1>3. /\ c \in Conn /\ c.timer = slots[h].timer /\ c.timer_ids = slots[h].timer_ids
      /\ c.flight = slots[h].flight /\ c.state = "Established"
      /\ c.tuple = slots[h].tuple /\ c.birth = slots[h].birth
  BY <1>2, ConnectionsParams DEF Conn, States
<1> HIDE DEF c
<1>4. p.conn = c /\ p.wheel = wheel
  BY DEF Pair
<1> HIDE DEF p
<1>5. PairOK(p, h, {})
  <2>1. Noted(h, c, wheel)
    BY <1>2, <1>3 DEF Noted
  <2> QED BY <1>1, <1>3, <1>4, <2>1 DEF PairOK, TypeOK
<1>6. /\ PairOK(q, h, {}) /\ OnlyTimers(p, q, h)
      /\ \A k \in Kinds : k # "syn" => q.conn.timer[k] = p.conn.timer[k]
  BY <1>5, StopOK, KindsDiffer
<1>7. Update(h, q)
  BY DEF p, c
<1> HIDE DEF q
<1>8. /\ q.conn.tuple = slots[h].tuple /\ q.conn.birth = slots[h].birth
      /\ q.conn.state = "Established" /\ ~q.conn.flight
      /\ \A t \in TimerId : t.owner # h => (t \in q.wheel <=> t \in wheel)
  BY <1>2, <1>3, <1>4, <1>6 DEF OnlyTimers, Duty
<1>9. Duty(q.conn)
  BY <1>8 DEF Duty, Handshakes
<1>10. /\ slots' \in [Handles -> Conn \cup {NoConn}]
       /\ wheel' \in SUBSET TimerId /\ IsFiniteSet(wheel')
       /\ slots'[h] = q.conn
       /\ \A j \in Handles : j # h => slots'[j] = slots[j]
       /\ \A j \in Handles : Live(j)' <=> Live(j)
       /\ TableConsistent'
       /\ TimerInv'
  <2>1. PairOK(q, h, batch') /\ batch' \in SUBSET batch /\ \A t \in batch : t.owner # h => t \in batch'
    BY <1>2, <1>6
  <2> HIDE DEF IInv
  <2> QED BY <1>1, <1>7, <1>8, <1>9, <2>1, UpdateStep
<1>11. log \in Seq(Seq(LifeEvents))
  BY <1>1 DEF TypeOK
<1>12. LifeInv' /\ log' \in Seq(Seq(LifeEvents))
  <2>1. slots'[h].birth = slots[h].birth /\ slots'[h].state \notin Handshakes
    BY <1>8, <1>10 DEF Handshakes
  <2> QED BY <1>1, <1>10, <1>11, <2>1, LifeConnected
<1>13. \A j \in Handles : SynReceived(j)' <=> SynReceived(j) /\ j # h
  <2>1. ASSUME NEW j \in Handles, j # h PROVE SynReceived(j)' <=> SynReceived(j)
    BY <1>10, <2>1 DEF SynReceived
  <2>2. ~SynReceived(h)'
    BY <1>8, <1>10 DEF SynReceived
  <2> QED BY <2>1, <2>2
<1>14. ListenSlotSound' /\ DOMAIN listen' \subseteq Ports /\ listen' \in [DOMAIN listen' -> ListenSlot]
  <2>1. CASE slots[h].state = "SynReceived"
    BY <1>1, <1>10, <1>13, <2>1, ListenLeft
  <2>2. CASE slots[h].state # "SynReceived"
    <3>1. \A j \in Handles : SynReceived(j)' <=> SynReceived(j)
      BY <1>13, <2>2 DEF SynReceived
    <3>2. \A j \in Handles : SynReceived(j) => slots'[j].tuple = slots[j].tuple
      BY <1>10, <2>2 DEF SynReceived
    <3>3. ListenSlotSound'
      BY <1>1, <2>2, <3>1, <3>2, ListenSame
    <3> QED BY <1>1, <2>2, <3>3 DEF TypeOK
  <2> QED BY <2>1, <2>2
<1>15. TypeOK'
  BY <1>1, <1>10, <1>12, <1>14 DEF TypeOK
<1> QED BY <1>10, <1>12, <1>14, <1>15 DEF IInv

\* Connections leave.  A handshake in progress leaves its listen slot too.
LEMMA LeaveStep ==
    ASSUME IInv, NEW hs \in SUBSET Handles, \A h \in hs : Live(h), RemoveConns(hs),
           wheel' = {t \in wheel : t.owner \notin hs},
           batch' \in SUBSET batch,
           \A t \in batch : t.owner \notin hs => t \in batch',
           phase' \in {"user", "rx", "timers"}, phase' # "timers" => batch' = {},
           NEW kinds \in {<<"closed">>, <<"etimedout", "closed">>}, Push(hs, kinds),
           \/ listen' = listen /\ \A h \in hs : ~SynReceived(h)
           \/ \E h \in hs : hs = {h} /\ listen' = Cleared(h)
    PROVE  IInv'
<1>1. TypeOK /\ TableConsistent /\ TimerInv /\ LifeInv /\ ListenSlotSound
  BY DEF IInv
<1>2. /\ slots' \in [Handles -> Conn \cup {NoConn}]
      /\ DOMAIN by_tuple' \subseteq Tuple /\ by_tuple' \in [DOMAIN by_tuple' -> Handles]
      /\ wheel' \in SUBSET TimerId /\ IsFiniteSet(wheel')
      /\ \A h \in Handles : h \notin hs => slots'[h] = slots[h]
      /\ \A h \in Handles : Live(h)' <=> Live(h) /\ h \notin hs
      /\ TableConsistent'
      /\ TimerInv'
  BY <1>1, RemoveStep
<1>3. LifeInv' /\ log' \in Seq(Seq(LifeEvents))
  <2>1. log \in Seq(Seq(LifeEvents))
    BY <1>1 DEF TypeOK
  <2> QED BY <1>1, <1>2, <2>1, LifeEnds
<1>4. \A j \in Handles : SynReceived(j)' <=> SynReceived(j) /\ j \notin hs
  BY <1>2 DEF SynReceived
<1>5. ListenSlotSound' /\ DOMAIN listen' \subseteq Ports /\ listen' \in [DOMAIN listen' -> ListenSlot]
  <2>1. CASE listen' = listen /\ \A h \in hs : ~SynReceived(h)
    <3>1. \A j \in Handles : SynReceived(j)' <=> SynReceived(j)
      BY <1>4, <2>1
    <3>2. \A j \in Handles : SynReceived(j) => slots'[j].tuple = slots[j].tuple
      BY <1>2, <2>1
    <3>3. ListenSlotSound'
      BY <1>1, <2>1, <3>1, <3>2, ListenSame
    <3> QED BY <1>1, <2>1, <3>3 DEF TypeOK
  <2>2. CASE \E h \in hs : hs = {h} /\ listen' = Cleared(h)
    <3>1. PICK h \in Handles : hs = {h} /\ listen' = Cleared(h)
      BY <2>2
    <3> QED BY <1>1, <1>2, <1>4, <3>1, ListenLeft
  <2> QED BY <2>1, <2>2
<1>6. TypeOK'
  BY <1>1, <1>2, <1>3, <1>5 DEF TypeOK
<1> QED BY <1>2, <1>3, <1>5, <1>6 DEF IInv

\* A handshake begins: an active one, or a passive one in its listen slot.
LEMMA EnterStep ==
    ASSUME IInv, phase # "timers",
           NEW tuple \in Tuple, NEW state \in Handshakes, NEW timed \in BOOLEAN,
           state = "SynSent" => timed,
           CanInsert(tuple), Insert(tuple, state, timed),
           batch' = batch, phase' = phase,
           IF state = "SynSent" THEN listen' = listen
           ELSE \E port \in DOMAIN listen :
                  /\ ~Full(listen[port]) /\ tuple.port = port
                  /\ listen' = [listen EXCEPT ![port].in_progress = by_tuple'[tuple]]
    PROVE  IInv'
<1>1. TypeOK /\ TableConsistent /\ TimerInv /\ LifeInv /\ ListenSlotSound
  BY DEF IInv
<1>2. batch = {}
  BY <1>1 DEF TimerInv
<1>3. PICK h \in Handles :
           /\ ~Live(h) /\ Live(h)'
           /\ \A j \in Handles : j # h => slots'[j] = slots[j]
           /\ \A j \in Handles : Live(j)' <=> Live(j) \/ j = h
           /\ slots'[h].tuple = tuple /\ slots'[h].state = state
           /\ slots'[h].birth = Len(log) + 1 /\ log' = Append(log, <<>>)
           /\ by_tuple'[tuple] = h
           /\ slots' \in [Handles -> Conn \cup {NoConn}]
           /\ DOMAIN by_tuple' \subseteq Tuple /\ by_tuple' \in [DOMAIN by_tuple' -> Handles]
           /\ wheel' \in SUBSET TimerId /\ IsFiniteSet(wheel')
           /\ TableConsistent'
           /\ TimerInv'
  BY <1>1, <1>2, InsertStep
<1>4. LifeInv' /\ log' \in Seq(Seq(LifeEvents))
  <2>1. log \in Seq(Seq(LifeEvents)) /\ slots \in [Handles -> Conn \cup {NoConn}]
    BY <1>1 DEF TypeOK
  <2> QED BY <1>1, <1>3, <2>1, LifeBegins
<1>5. ListenSlotSound' /\ DOMAIN listen' \subseteq Ports /\ listen' \in [DOMAIN listen' -> ListenSlot]
  <2>1. CASE state = "SynSent"
    <3>1. \A j \in Handles : SynReceived(j)' <=> SynReceived(j)
      BY <1>3, <2>1 DEF SynReceived
    <3>2. \A j \in Handles : SynReceived(j) => slots'[j].tuple = slots[j].tuple
      BY <1>3 DEF SynReceived
    <3>3. ListenSlotSound'
      BY <1>1, <2>1, <3>1, <3>2, ListenSame
    <3> QED BY <1>1, <2>1, <3>3 DEF TypeOK
  <2>2. CASE state # "SynSent"
    <3>1. state = "SynReceived"
      BY <2>2 DEF Handshakes
    <3>2. PICK port \in DOMAIN listen :
                  /\ ~Full(listen[port]) /\ tuple.port = port
                  /\ listen' = [listen EXCEPT ![port].in_progress = by_tuple'[tuple]]
      BY <2>2
    <3>3. SynReceived(h)'
      BY <1>3, <3>1 DEF SynReceived
    <3> QED BY <1>1, <1>3, <3>2, <3>3, ListenBegins
  <2> QED BY <2>1, <2>2
<1>6. TypeOK'
  BY <1>1, <1>3, <1>4, <1>5 DEF TypeOK
<1> QED BY <1>3, <1>4, <1>5, <1>6 DEF IInv

-----------------------------------------------------------------------------
\* The actions.

LEMMA ConnFacts ==
    ASSUME IInv, NEW h \in Handles, Live(h)
    PROVE  /\ slots[h] \in Conn /\ Duty(slots[h])
           /\ Noted(h, slots[h], wheel \cup batch)
           /\ wheel \in SUBSET TimerId /\ IsFiniteSet(wheel) /\ wheel \cap batch = {}
           /\ phase # "timers" => batch = {}
BY DEF IInv, TypeOK, TimerInv, Live

LEMMA CancelAll ==
    ASSUME IInv, NEW h \in Handles, Live(h)
    PROVE  Cancelled(wheel, slots[h]) = {t \in wheel : t.owner # h}
<1>1. wheel \in SUBSET TimerId /\ Noted(h, slots[h], wheel \cup batch)
  BY ConnFacts
<1> QED BY <1>1, CancelledOK

\* A connection whose timers are left alone still has its books in order.
LEMMA SameTimers ==
    ASSUME IInv, NEW h \in Handles, Live(h), NEW c \in Conn,
           c.timer = slots[h].timer, c.timer_ids = slots[h].timer_ids
    PROVE  PairOK(Pair(c, wheel), h, batch)
<1>1. Pair(c, wheel).conn = c /\ Pair(c, wheel).wheel = wheel
  BY DEF Pair
<1>2. Noted(h, c, wheel \cup batch)
  BY ConnFacts DEF Noted
<1> QED BY <1>1, <1>2, ConnFacts DEF PairOK

LEMMA ConnectInv ==
    ASSUME IInv, NEW tuple \in Tuples, Connect(tuple), listen' = listen
    PROVE  IInv'
<1>1. tuple \in Tuple /\ "SynSent" \in Handshakes /\ TRUE \in BOOLEAN
  BY DEF Tuple, Handshakes
<1> QED BY <1>1, EnterStep DEF Connect

LEMMA SendBytesInv ==
    ASSUME IInv, NEW h \in Handles, NEW probe \in BOOLEAN, SendBytes(h, probe),
           listen' = listen
    PROVE  IInv'
<1> DEFINE c == [slots[h] EXCEPT !.flight = TRUE]
           p == Pair(c, wheel)
           arms == ~slots[h].flight /\ slots[h].timer["rto"] = NoTimer
           q == IF arms THEN Start(p, h, "rto") ELSE p
           r == ArmTlp(q, h, probe)
<1>1. /\ phase = "user" /\ Live(h) /\ slots[h].state = "Established"
      /\ Update(h, r)
      /\ by_tuple' = by_tuple /\ batch' = batch /\ phase' = phase /\ log' = log
  BY DEF SendBytes
<1>2. /\ slots[h] \in Conn /\ Duty(slots[h]) /\ batch = {}
  BY <1>1, ConnFacts
<1>3. /\ c \in Conn /\ c.timer = slots[h].timer /\ c.timer_ids = slots[h].timer_ids
      /\ c.state = slots[h].state /\ c.tuple = slots[h].tuple /\ c.birth = slots[h].birth
  BY <1>2 DEF Conn
<1> HIDE DEF c
<1>4. PairOK(p, h, {}) /\ p.conn = c /\ p.wheel = wheel
  <2>1. PairOK(p, h, batch)
    BY <1>1, <1>3, SameTimers
  <2>2. p.conn = c /\ p.wheel = wheel
    BY DEF Pair
  <2> QED BY <1>2, <2>1, <2>2
<1> HIDE DEF p
<1>5. PairOK(q, h, {}) /\ OnlyTimers(p, q, h) /\ q.conn.timer["rto"] # NoTimer
  <2>1. CASE arms
    BY <1>3, <1>4, <2>1, StartOK, KindsDiffer
  <2>2. CASE ~arms
    BY <1>2, <1>3, <1>4, <2>2 DEF OnlyTimers, Duty
  <2> QED BY <2>1, <2>2
<1> HIDE DEF q
<1>6. /\ PairOK(r, h, {}) /\ OnlyTimers(q, r, h)
      /\ r.conn.timer["rto"] = q.conn.timer["rto"]
  BY <1>5, ArmTlpOK
<1> HIDE DEF r
<1>7. /\ r.conn.tuple = slots[h].tuple /\ r.conn.birth = slots[h].birth
      /\ r.conn.state = "Established" /\ r.conn.timer["rto"] # NoTimer
      /\ \A t \in TimerId : t.owner # h => (t \in r.wheel <=> t \in wheel)
  BY <1>1, <1>3, <1>4, <1>5, <1>6 DEF OnlyTimers
<1>8. Duty(r.conn) /\ Told(r.conn) = Told(slots[h])
  BY <1>1, <1>7 DEF Duty, Told, Handshakes
<1>9. PairOK(r, h, batch')
  BY <1>1, <1>2, <1>6
<1> QED BY <1>1, <1>7, <1>8, <1>9, QuietUpdate

LEMMA CloseConnInv ==
    ASSUME IInv, NEW h \in Handles, NEW force \in BOOLEAN, NEW sent \in BOOLEAN,
           CloseConn(h, force, sent), listen' = listen
    PROVE  IInv'
<1> DEFINE to == IF sent THEN CloseState(slots[h].state) ELSE slots[h].state
           c == [slots[h] EXCEPT !.state = to,
                                 !.force_tw_skip = @ \/ (force /\ slots[h].ts_enabled)]
           p == Pair(c, wheel)
<1>1. /\ phase = "user" /\ Live(h) /\ wheel' = wheel
      /\ by_tuple' = by_tuple /\ batch' = batch /\ phase' = phase /\ log' = log
  BY DEF CloseConn
<1>2. slots[h] \in Conn /\ Duty(slots[h])
  BY <1>1, ConnFacts
<1>3. /\ to \in States
      /\ slots[h].state \in Handshakes <=> to \in Handshakes
      /\ slots[h].state \in Handshakes => to = slots[h].state
  <2>1. slots[h].state \in States
    BY <1>2 DEF Conn
  <2> QED BY <2>1 DEF CloseState, States, Handshakes
<1> HIDE DEF to
<1>4. /\ c \in Conn /\ c.timer = slots[h].timer /\ c.timer_ids = slots[h].timer_ids
      /\ c.state = to /\ c.tuple = slots[h].tuple /\ c.birth = slots[h].birth
      /\ c.flight = slots[h].flight
  BY <1>2, <1>3 DEF Conn
<1>5. slots' = [slots EXCEPT ![h] = c]
  <2>1. slots \in [Handles -> Conn \cup {NoConn}]
    BY DEF IInv, TypeOK
  <2> QED BY <1>2, <2>1 DEF CloseConn, to
<1> HIDE DEF c
<1>6. p.conn = c /\ p.wheel = wheel
  BY DEF Pair
<1>7. PairOK(p, h, batch')
  BY <1>1, <1>4, SameTimers
<1> HIDE DEF p
<1>8. Update(h, p)
  BY <1>1, <1>5, <1>6 DEF Update
<1>9. Duty(p.conn) /\ Told(p.conn) = Told(slots[h])
  BY <1>2, <1>3, <1>4, <1>6 DEF Duty, Told, Handshakes
<1>10. p.conn.state = "SynReceived" <=> slots[h].state = "SynReceived"
  BY <1>3, <1>4, <1>6 DEF Handshakes
<1>11. \A t \in TimerId : t.owner # h => (t \in p.wheel <=> t \in wheel)
  BY <1>6
<1> QED BY <1>1, <1>4, <1>6, <1>7, <1>8, <1>9, <1>10, <1>11, QuietUpdate

\* The connection h ends on a segment.
LEMMA EndsInv ==
    ASSUME IInv, phase = "rx", NEW h \in Handles, Live(h), Ends(h),
           IF SynReceived(h) THEN listen' = Cleared(h) ELSE listen' = listen
    PROVE  IInv'
<1>1. /\ Push({h}, <<"closed">>) /\ wheel' = Cancelled(wheel, slots[h])
      /\ RemoveConns({h}) /\ batch' = batch /\ phase' = phase
  BY DEF Ends
<1>2. wheel' = {t \in wheel : t.owner \notin {h}}
  <2>1. Cancelled(wheel, slots[h]) = {t \in wheel : t.owner # h}
    BY CancelAll
  <2> QED BY <1>1, <2>1
<1>3. batch' \in SUBSET batch /\ (phase' # "timers" => batch' = {})
  BY <1>1, ConnFacts
<1>4. /\ {h} \in SUBSET Handles /\ \A j \in {h} : Live(j)
      /\ \A t \in batch : t.owner \notin {h} => t \in batch'
      /\ phase' \in {"user", "rx", "timers"}
      /\ <<"closed">> \in {<<"closed">>, <<"etimedout", "closed">>}
  BY <1>1
<1>5. \/ listen' = listen /\ \A j \in {h} : ~SynReceived(j)
      \/ \E j \in {h} : {h} = {j} /\ listen' = Cleared(j)
  OBVIOUS
<1> QED BY <1>1, <1>2, <1>3, <1>4, <1>5, LeaveStep

LEMMA RecvEstablishedInv ==
    ASSUME IInv, NEW h \in Handles, NEW acks \in {"none", "some", "all"},
           NEW fin \in BOOLEAN, NEW probe \in BOOLEAN,
           RecvEstablished(h, acks, fin, probe), listen' = listen
    PROVE  IInv'
<1> DEFINE to == IF fin THEN "CloseWait" ELSE slots[h].state
           c == [slots[h] EXCEPT !.flight = @ /\ acks # "all", !.state = to]
           p == Pair(c, wheel)
           q == Acked(p, h, acks, probe)
<1>1. /\ phase = "rx" /\ Live(h) /\ slots[h].state = "Established"
      /\ Update(h, q)
      /\ by_tuple' = by_tuple /\ batch' = batch /\ phase' = phase /\ log' = log
  BY DEF RecvEstablished
<1>2. slots[h] \in Conn /\ Duty(slots[h]) /\ batch = {}
  BY <1>1, ConnFacts
<1>3. to \in States /\ to \notin Handshakes
  BY <1>1 DEF States, Handshakes
<1> HIDE DEF to
<1>4. /\ c \in Conn /\ c.timer = slots[h].timer /\ c.timer_ids = slots[h].timer_ids
      /\ c.state = to /\ c.tuple = slots[h].tuple /\ c.birth = slots[h].birth
      /\ c.flight => slots[h].flight /\ acks # "all"
  BY <1>2, <1>3 DEF Conn
<1> HIDE DEF c
<1>5. PairOK(p, h, {}) /\ p.conn = c /\ p.wheel = wheel
  <2>1. PairOK(p, h, batch)
    BY <1>1, <1>4, SameTimers
  <2>2. p.conn = c /\ p.wheel = wheel
    BY DEF Pair
  <2> QED BY <1>2, <2>1, <2>2
<1> HIDE DEF p
<1>6. /\ PairOK(q, h, {}) /\ OnlyTimers(p, q, h)
      /\ acks # "all" /\ p.conn.timer["rto"] # NoTimer => q.conn.timer["rto"] # NoTimer
  BY <1>5, AckedOK
<1> HIDE DEF q
<1>7. /\ q.conn.tuple = slots[h].tuple /\ q.conn.birth = slots[h].birth
      /\ q.conn.state = to /\ q.conn.flight = c.flight
      /\ \A t \in TimerId : t.owner # h => (t \in q.wheel <=> t \in wheel)
  BY <1>4, <1>5, <1>6 DEF OnlyTimers
<1>8. q.conn.flight => q.conn.timer["rto"] # NoTimer
  BY <1>2, <1>4, <1>5, <1>6, <1>7 DEF Duty
<1>9. Duty(q.conn) /\ Told(q.conn) = Told(slots[h])
  BY <1>1, <1>3, <1>7, <1>8 DEF Duty, Told, Handshakes
<1>10. PairOK(q, h, batch')
  BY <1>1, <1>2, <1>6
<1>11. q.conn.state = "SynReceived" <=> slots[h].state = "SynReceived"
  BY <1>1, <1>3, <1>7 DEF Handshakes
<1> QED BY <1>1, <1>7, <1>9, <1>10, <1>11, QuietUpdate

LEMMA RecvClosePathInv ==
    ASSUME IInv, NEW h \in Handles, NEW finAcked \in BOOLEAN,
           NEW fin \in BOOLEAN, NEW probe \in BOOLEAN,
           RecvClosePath(h, finAcked, fin, probe), listen' = listen
    PROVE  IInv'
<1> DEFINE to == ClosePathState(slots[h].state, finAcked, fin)
           c == [slots[h] EXCEPT !.state = to]
           p == Pair(c, wheel)
           q == ArmTlp(p, h, probe)
<1>1. /\ phase = "rx" /\ Live(h)
      /\ slots[h].state \notin {"SynSent", "SynReceived", "Established"}
  BY DEF RecvClosePath
<1>2. slots[h] \in Conn /\ Duty(slots[h]) /\ batch = {}
  BY <1>1, ConnFacts
<1>3. CASE to = "Closed"
  <2>1. Ends(h)
    BY <1>3 DEF RecvClosePath
  <2>2. ~SynReceived(h)
    BY <1>1 DEF SynReceived
  <2> QED BY <1>1, <2>1, <2>2, EndsInv
<1>4. CASE to # "Closed"
  <2>1. /\ Update(h, q)
        /\ by_tuple' = by_tuple /\ batch' = batch /\ phase' = phase /\ log' = log
    BY <1>4 DEF RecvClosePath
  <2>2. to \in States /\ to \notin Handshakes
    <3>1. slots[h].state \in States
      BY <1>2 DEF Conn
    <3> QED BY <1>1, <1>4, <3>1 DEF ClosePathState, States, Handshakes
  <2> HIDE DEF to
  <2>3. /\ c \in Conn /\ c.timer = slots[h].timer /\ c.timer_ids = slots[h].timer_ids
        /\ c.state = to /\ c.tuple = slots[h].tuple /\ c.birth = slots[h].birth
        /\ c.flight = slots[h].flight
    BY <1>2, <2>2 DEF Conn
  <2> HIDE DEF c
  <2>4. PairOK(p, h, {}) /\ p.conn = c /\ p.wheel = wheel
    <3>1. PairOK(p, h, batch)
      BY <1>1, <2>3, SameTimers
    <3>2. p.conn = c /\ p.wheel = wheel
      BY DEF Pair
    <3> QED BY <1>2, <3>1, <3>2
  <2> HIDE DEF p
  <2>5. /\ PairOK(q, h, {}) /\ OnlyTimers(p, q, h)
        /\ q.conn.timer["rto"] = p.conn.timer["rto"]
    BY <2>4, ArmTlpOK
  <2> HIDE DEF q
  <2>6. /\ q.conn.tuple = slots[h].tuple /\ q.conn.birth = slots[h].birth
        /\ q.conn.state = to /\ q.conn.flight = slots[h].flight
        /\ q.conn.timer["rto"] = slots[h].timer["rto"]
        /\ \A t \in TimerId : t.owner # h => (t \in q.wheel <=> t \in wheel)
    BY <2>3, <2>4, <2>5 DEF OnlyTimers
  <2>7. Duty(q.conn) /\ Told(q.conn) = Told(slots[h])
    BY <1>1, <1>2, <2>2, <2>6 DEF Duty, Told, Handshakes
  <2>8. PairOK(q, h, batch')
    BY <1>2, <2>1, <2>5
  <2>9. q.conn.state = "SynReceived" <=> slots[h].state = "SynReceived"
    BY <1>1, <2>2, <2>6 DEF Handshakes
  <2> QED BY <1>1, <2>1, <2>6, <2>7, <2>8, <2>9, QuietUpdate
<1> QED BY <1>3, <1>4

LEMMA RxInv ==
    ASSUME IInv, Rx, listen' = listen
    PROVE  IInv'
<1>1. ASSUME NEW h \in Handles, RecvSynAck(h) PROVE IInv'
  <2>1. slots[h].state \in Handshakes /\ slots[h].state # "SynReceived"
    BY <1>1 DEF RecvSynAck, Handshakes
  <2> QED BY <1>1, <2>1, ConnectedStep DEF RecvSynAck
<1>2. ASSUME NEW h \in Handles, RecvFatal(h) PROVE IInv'
  <2>1. ~SynReceived(h)
    BY <1>2 DEF RecvFatal, SynReceived
  <2> QED BY <1>2, <2>1, EndsInv DEF RecvFatal
<1> QED BY <1>1, <1>2, RecvEstablishedInv, RecvClosePathInv DEF Rx

LEMMA PassiveRxInv ==
    ASSUME IInv, NEW h \in Handles
    PROVE  /\ RecvRst(h) => IInv'
           /\ RecvBadHandshake(h) => IInv'
           /\ RecvFinalAck(h) => IInv'
<1>1. ASSUME RecvRst(h) PROVE IInv'
  <2>1. /\ phase = "rx" /\ SynReceived(h) /\ Live(h) /\ slots[h].state = "SynReceived"
        /\ listen' = Cleared(h) /\ wheel' = wheel \ {slots[h].timer["syn"]}
        /\ RemoveConns({h}) /\ Push({h}, <<"closed">>)
        /\ batch' = batch /\ phase' = phase
    BY <1>1 DEF RecvRst, SynReceived
  <2>2. batch = {} /\ Noted(h, slots[h], wheel) /\ Duty(slots[h]) /\ wheel \in SUBSET TimerId
    <3>1. wheel \cup {} = wheel
      OBVIOUS
    <3> QED BY <2>1, <3>1, ConnFacts
  <2>3. wheel' = {t \in wheel : t.owner \notin {h}}
    <3>1. slots[h].timer["rto"] = NoTimer /\ slots[h].timer["tlp"] = NoTimer
      BY <2>1, <2>2 DEF Duty, Handshakes
    <3>2. \A t \in wheel : t.owner = h => t = slots[h].timer["syn"]
      BY <2>2, <3>1, KindsDiffer DEF Noted, TimerId
    <3>3. slots[h].timer["syn"] \in wheel => slots[h].timer["syn"].owner = h
      BY <2>2, KindsDiffer DEF Noted
    <3> QED BY <2>1, <3>2, <3>3
  <2>4. /\ {h} \in SUBSET Handles /\ \A j \in {h} : Live(j)
        /\ batch' \in SUBSET batch /\ (phase' # "timers" => batch' = {})
        /\ \A t \in batch : t.owner \notin {h} => t \in batch'
        /\ phase' \in {"user", "rx", "timers"}
        /\ <<"closed">> \in {<<"closed">>, <<"etimedout", "closed">>}
        /\ \E j \in {h} : {h} = {j} /\ listen' = Cleared(j)
    BY <2>1, <2>2
  <2> QED BY <2>1, <2>3, <2>4, LeaveStep
<1>2. ASSUME RecvBadHandshake(h) PROVE IInv'
  BY <1>2, EndsInv DEF RecvBadHandshake, SynReceived
<1>3. ASSUME RecvFinalAck(h) PROVE IInv'
  <2>1. Live(h) /\ slots[h].state = "SynReceived" /\ slots[h].state \in Handshakes
    BY <1>3 DEF RecvFinalAck, SynReceived, Handshakes
  <2> QED BY <1>3, <2>1, ConnectedStep DEF RecvFinalAck
<1> QED BY <1>1, <1>2, <1>3

LEMMA RecvDupSynInv ==
    ASSUME IInv, NEW h \in Handles, NEW sent \in BOOLEAN, RecvDupSyn(h, sent)
    PROVE  IInv'
<1> DEFINE p == Pair(slots[h], wheel)
           q == IF sent /\ p.conn.timer["syn"] = NoTimer THEN Start(p, h, "syn") ELSE p
<1>1. /\ phase = "rx" /\ Live(h) /\ slots[h].state = "SynReceived"
      /\ Update(h, q)
      /\ by_tuple' = by_tuple /\ batch' = batch /\ phase' = phase /\ log' = log
      /\ listen' = listen
  BY DEF RecvDupSyn, SynReceived
<1>2. slots[h] \in Conn /\ Duty(slots[h])
  BY <1>1, ConnFacts
<1>3. p.conn = slots[h] /\ p.wheel = wheel
  BY DEF Pair
<1>4. PairOK(p, h, batch) /\ batch \in SUBSET TimerId
  BY <1>1, <1>2, SameTimers DEF IInv, TypeOK
<1> HIDE DEF p
<1>5. /\ PairOK(q, h, batch) /\ OnlyTimers(p, q, h)
      /\ \A k \in Kinds : k # "syn" => q.conn.timer[k] = p.conn.timer[k]
  <2>1. CASE sent /\ p.conn.timer["syn"] = NoTimer
    BY <1>4, <2>1, StartOK, KindsDiffer
  <2>2. CASE ~(sent /\ p.conn.timer["syn"] = NoTimer)
    BY <1>4, <2>2 DEF OnlyTimers
  <2> QED BY <2>1, <2>2
<1> HIDE DEF q
<1>6. /\ q.conn.tuple = slots[h].tuple /\ q.conn.birth = slots[h].birth
      /\ q.conn.state = "SynReceived" /\ q.conn.flight = slots[h].flight
      /\ q.conn.timer["rto"] = slots[h].timer["rto"]
      /\ q.conn.timer["tlp"] = slots[h].timer["tlp"]
      /\ \A t \in TimerId : t.owner # h => (t \in q.wheel <=> t \in wheel)
  BY <1>1, <1>3, <1>5, KindsDiffer DEF OnlyTimers
<1>7. Duty(q.conn) /\ Told(q.conn) = Told(slots[h])
  BY <1>1, <1>2, <1>6 DEF Duty, Told, Handshakes
<1> QED BY <1>1, <1>5, <1>6, <1>7, QuietUpdate

LEMMA InboundSynInv ==
    ASSUME IInv, NEW port \in Ports, NEW peer \in Peers, NEW sent \in BOOLEAN,
           InboundSyn(port, peer, sent)
    PROVE  IInv'
<1> DEFINE tuple == PassiveTuple(port, peer)
<1>1. tuple \in Tuple /\ tuple.port = port /\ "SynReceived" \in Handshakes
  BY DEF Tuple, PassiveTuple, Handshakes
<1>2. /\ phase = "rx" /\ port \in DOMAIN listen /\ ~Full(listen[port])
      /\ CanInsert(tuple) /\ Insert(tuple, "SynReceived", sent)
      /\ listen' = [listen EXCEPT ![port].in_progress = by_tuple'[tuple]]
      /\ batch' = batch /\ phase' = phase
  BY DEF InboundSyn
<1> HIDE DEF tuple
<1> QED BY <1>1, <1>2, EnterStep

\* A step of the poll that leaves the connections alone.
LEMMA TableSame ==
    ASSUME IInv, slots' = slots, by_tuple' = by_tuple, log' = log,
           wheel' \cup batch' \subseteq wheel \cup batch,
           \A t \in wheel \cup batch : Live(t.owner) => t \in wheel' \cup batch',
           wheel' \subseteq wheel, wheel' \cap batch' = {},
           phase' \in {"user", "rx", "timers"}, phase' # "timers" => batch' = {},
           listen' = listen
    PROVE  IInv'
<1>1. TypeOK /\ TableConsistent /\ TimerInv /\ LifeInv /\ ListenSlotSound
  BY DEF IInv
<1>2. \A j : Live(j)' <=> Live(j)
  BY DEF Live
<1>3. TypeOK'
  <2>1. IsFiniteSet(wheel') /\ wheel' \in SUBSET TimerId /\ batch' \in SUBSET TimerId
    BY <1>1, FS_Subset DEF TypeOK
  <2> QED BY <1>1, <2>1 DEF TypeOK
<1>4. TableConsistent'
  BY <1>1, <1>2 DEF TableConsistent
<1>5. TimerInv'
  <2>1. ASSUME NEW j \in Handles, Live(j)
        PROVE  Noted(j, slots[j], wheel' \cup batch') /\ Duty(slots[j])
    <3>1. Noted(j, slots[j], wheel \cup batch) /\ Duty(slots[j])
      BY <1>1, <2>1 DEF TimerInv
    <3>2. ASSUME NEW k \in Kinds, slots[j].timer[k] # NoTimer
          PROVE  /\ slots[j].timer[k] \in wheel' \cup batch'
                 /\ slots[j].timer[k].owner = j /\ slots[j].timer[k].kind = k
      BY <2>1, <3>1, <3>2 DEF Noted
    <3> QED BY <3>1, <3>2 DEF Noted
  <2>2. \A t \in wheel' : Live(t.owner)'
    BY <1>1, <1>2 DEF TimerInv
  <2> QED BY <1>2, <2>1, <2>2 DEF TimerInv
<1>6. LifeInv'
  BY <1>1, <1>2, LifeSame
<1>7. ListenSlotSound'
  BY <1>1, <1>2, ListenSame DEF SynReceived
<1> QED BY <1>3, <1>4, <1>5, <1>6, <1>7 DEF IInv

\* The handler of a timer that its connection notes: the timer is forgotten
\* first, and with it the connection's books are in order for the rest of the
\* batch.
LEMMA ForgottenOK ==
    ASSUME IInv, NEW t \in batch, Live(t.owner)
    PROVE  LET h == t.owner
               c == Forgotten(slots[h], t)
           IN  /\ h \in Handles /\ t \in TimerId /\ slots[h].timer[t.kind] = t
               /\ PairOK(Pair(c, wheel), h, batch \ {t})
               /\ c \in Conn /\ c.timer[t.kind] = NoTimer
               /\ \A k \in Kinds : k # t.kind => c.timer[k] = slots[h].timer[k]
               /\ c.tuple = slots[h].tuple /\ c.birth = slots[h].birth
               /\ c.state = slots[h].state /\ c.flight = slots[h].flight
               /\ c.syn_retrans_count = slots[h].syn_retrans_count
<1>1. PICK h \in Handles : h = t.owner
  BY DEF IInv, TypeOK, TimerId
<1>2. /\ slots[h] \in Conn /\ Noted(h, slots[h], wheel \cup batch)
      /\ wheel \in SUBSET TimerId /\ IsFiniteSet(wheel) /\ wheel \cap batch = {}
  BY <1>1, ConnFacts
<1>3. t \in TimerId /\ t.kind \in Kinds /\ slots[h].timer[t.kind] = t /\ t # NoTimer
  <2>1. t \in TimerId
    BY DEF IInv, TypeOK
  <2> QED BY <1>1, <1>2, <2>1, KindsDiffer DEF Noted, TimerId
<1> DEFINE c == Forgotten(slots[h], t)
<1>4. /\ c \in Conn /\ c.timer[t.kind] = NoTimer
      /\ \A k \in Kinds : k # t.kind => c.timer[k] = slots[h].timer[k]
      /\ c.timer_ids = slots[h].timer_ids \ {t}
      /\ c.tuple = slots[h].tuple /\ c.birth = slots[h].birth
      /\ c.state = slots[h].state /\ c.flight = slots[h].flight
      /\ c.syn_retrans_count = slots[h].syn_retrans_count
  BY <1>2, <1>3 DEF Forgotten, Conn
<1> HIDE DEF c
<1>5. Noted(h, c, wheel \cup (batch \ {t}))
  <2>1. ASSUME NEW k \in Kinds, c.timer[k] # NoTimer
        PROVE  /\ c.timer[k] \in wheel \cup (batch \ {t})
               /\ c.timer[k].owner = h /\ c.timer[k].kind = k
    <3>1. k # t.kind /\ c.timer[k] = slots[h].timer[k]
      BY <1>4, <2>1
    <3>2. c.timer[k] \in wheel \cup batch /\ c.timer[k].owner = h /\ c.timer[k].kind = k
      BY <1>2, <2>1, <3>1 DEF Noted
    <3> QED BY <3>1, <3>2
  <2>2. c.timer_ids = {c.timer[k] : k \in Kinds} \ {NoTimer}
    <3>1. slots[h].timer_ids = {slots[h].timer[k] : k \in Kinds} \ {NoTimer}
      BY <1>2 DEF Noted
    <3>2. \A k \in Kinds : k # t.kind => slots[h].timer[k] # t
      BY <1>2, <1>3 DEF Noted
    <3> QED BY <1>3, <1>4, <3>1, <3>2
  <2>3. ASSUME NEW s \in wheel \cup (batch \ {t}), s.owner = h
        PROVE  c.timer[s.kind] = s
    <3>1. slots[h].timer[s.kind] = s /\ s \in TimerId /\ s.kind \in Kinds /\ s # t
      BY <1>2, <2>3 DEF Noted, IInv, TypeOK, TimerId
    <3> QED BY <1>3, <1>4, <3>1
  <2> QED BY <2>1, <2>2, <2>3 DEF Noted
<1>6. Pair(c, wheel).conn = c /\ Pair(c, wheel).wheel = wheel
  BY DEF Pair
<1>7. PairOK(Pair(c, wheel), h, batch \ {t})
  BY <1>2, <1>4, <1>5, <1>6 DEF PairOK
<1> QED BY <1>1, <1>3, <1>4, <1>7 DEF c

\* The connection's retransmissions are used up.
LEMMA ForceCloseInv ==
    ASSUME IInv, phase = "timers", NEW fired \in batch, NEW h \in Handles, h = fired.owner,
           Live(h), ForceClose(h), batch' = batch \ {fired}, phase' = phase,
           IF SynReceived(h) THEN listen' = Cleared(h) ELSE listen' = listen
    PROVE  IInv'
<1>1. /\ Push({h}, <<"etimedout", "closed">>) /\ wheel' = Cancelled(wheel, slots[h])
      /\ RemoveConns({h})
  BY DEF ForceClose
<1>2. wheel' = {t \in wheel : t.owner \notin {h}}
  <2>1. Cancelled(wheel, slots[h]) = {t \in wheel : t.owner # h}
    BY CancelAll
  <2> QED BY <1>1, <2>1
<1>3. /\ {h} \in SUBSET Handles /\ \A j \in {h} : Live(j)
      /\ batch' \in SUBSET batch /\ (phase' # "timers" => batch' = {})
      /\ \A t \in batch : t.owner \notin {h} => t \in batch'
      /\ phase' \in {"user", "rx", "timers"}
      /\ <<"etimedout", "closed">> \in {<<"closed">>, <<"etimedout", "closed">>}
  OBVIOUS
<1>5. \/ listen' = listen /\ \A j \in {h} : ~SynReceived(j)
      \/ \E j \in {h} : {h} = {j} /\ listen' = Cleared(j)
  OBVIOUS
<1> QED BY <1>1, <1>2, <1>3, <1>5, LeaveStep

\* The handler leaves a connection that is as it was but for its timers.
LEMMA SettlesInv ==
    ASSUME IInv, phase = "timers", NEW t \in batch, NEW h \in Handles, h = t.owner,
           Live(h), NEW p, PairOK(p, h, batch \ {t}), Duty(p.conn),
           OnlyTimers(Pair(slots[h], wheel), p, h), Settles(h, p),
           batch' = batch \ {t}, phase' = phase, listen' = listen
    PROVE  IInv'
<1>1. Pair(slots[h], wheel).conn = slots[h] /\ Pair(slots[h], wheel).wheel = wheel
  BY DEF Pair
<1>2. /\ p.conn.tuple = slots[h].tuple /\ p.conn.birth = slots[h].birth
      /\ p.conn.state = slots[h].state
      /\ \A s \in TimerId : s.owner # h => (s \in p.wheel <=> s \in wheel)
  BY <1>1 DEF OnlyTimers
<1>3. Update(h, p) /\ by_tuple' = by_tuple /\ log' = log
  BY DEF Settles
<1>4. Told(p.conn) = Told(slots[h])
  BY <1>2 DEF Told
<1>5. batch' \in SUBSET batch /\ \A s \in batch : s.owner # h => s \in batch'
  OBVIOUS
<1> QED BY <1>2, <1>3, <1>4, <1>5, QuietUpdate

LEMMA FireOneInv ==
    ASSUME IInv, NEW t \in batch, NEW spent \in BOOLEAN, FireOne(t, spent)
    PROVE  IInv'
<1> DEFINE h == t.owner
           c == Forgotten(slots[h], t)
<1>1. phase = "timers" /\ batch' = batch \ {t} /\ phase' = phase
      /\ listen' = ListenAfterTimer(t)
  BY DEF FireOne, HandleTimer
<1>2. CASE ~Live(h)
  <2>1. UNCHANGED <<slots, by_tuple, wheel, log>>
    BY <1>2 DEF FireOne, HandleTimer
  <2>2. listen' = listen
    BY <1>1, <1>2 DEF ListenAfterTimer, Exhausted, SynReceived
  <2>3. wheel \cap batch = {}
    BY DEF IInv, TimerInv
  <2> QED BY <1>1, <1>2, <2>1, <2>2, <2>3, TableSame
<1>3. CASE Live(h)
  <2> DEFINE p == Pair(c, wheel)
  <2>1. /\ h \in Handles /\ t \in TimerId /\ slots[h].timer[t.kind] = t
        /\ PairOK(p, h, batch \ {t})
        /\ c \in Conn /\ c.timer[t.kind] = NoTimer
        /\ \A k \in Kinds : k # t.kind => c.timer[k] = slots[h].timer[k]
        /\ c.tuple = slots[h].tuple /\ c.birth = slots[h].birth
        /\ c.state = slots[h].state /\ c.flight = slots[h].flight
        /\ c.syn_retrans_count = slots[h].syn_retrans_count
    BY <1>3, ForgottenOK
  <2>2. /\ t.kind = "syn" => OnSynRetransFire(h, c)
        /\ t.kind = "rto" => OnRtoFire(h, c, spent)
        /\ t.kind = "tlp" => Settles(h, p)
    BY <1>3, <2>1 DEF FireOne, HandleTimer
  <2>3. Duty(slots[h]) /\ slots[h] \in Conn /\ batch \in SUBSET TimerId
    BY <1>3, <2>1, ConnFacts DEF IInv, TypeOK
  <2>4. p.conn = c /\ p.wheel = wheel
    BY DEF Pair
  <2> HIDE DEF c
  <2>5. OnlyTimers(Pair(slots[h], wheel), p, h)
    <3>1. Pair(slots[h], wheel).conn = slots[h] /\ Pair(slots[h], wheel).wheel = wheel
      BY DEF Pair
    <3> QED BY <2>1, <2>4, <3>1 DEF OnlyTimers
  <2>6. CASE t.kind = "syn"
    <3> DEFINE d == [c EXCEPT !.syn_retrans_count = @ + 1]
               q == Start(Pair(d, wheel), h, "syn")
    <3>1. d \in Conn /\ d.timer = c.timer /\ d.timer_ids = c.timer_ids
          /\ d.tuple = c.tuple /\ d.birth = c.birth /\ d.state = c.state
          /\ d.flight = c.flight
          /\ d.syn_retrans_count = slots[h].syn_retrans_count + 1
      BY <2>1 DEF Conn
    <3>2. CASE c.state \notin Handshakes
      <4>1. Settles(h, p)
        BY <2>2, <2>6, <3>2 DEF OnSynRetransFire, Handshakes
      <4>2. listen' = listen
        BY <1>1, <2>1, <3>2 DEF ListenAfterTimer, Exhausted, SynReceived, Handshakes
      <4>3. Duty(p.conn)
        BY <2>1, <2>3, <2>4, <2>6, <3>2, KindsDiffer DEF Duty, Handshakes
      <4> QED BY <1>1, <1>3, <2>1, <2>5, <4>1, <4>2, <4>3, SettlesInv
    <3>3. CASE c.state \in Handshakes /\ SynBudgetSpent(d.syn_retrans_count)
      <4>1. ForceClose(h)
        BY <2>2, <2>6, <3>3 DEF OnSynRetransFire, Handshakes
      <4>2. IF SynReceived(h) THEN listen' = Cleared(h) ELSE listen' = listen
        BY <1>1, <2>1, <2>6, <3>1, <3>3 DEF ListenAfterTimer, Exhausted
      <4> QED BY <1>1, <1>3, <2>1, <4>1, <4>2, ForceCloseInv
    <3>4. CASE c.state \in Handshakes /\ ~SynBudgetSpent(d.syn_retrans_count)
      <4>1. Settles(h, q)
        BY <2>2, <2>6, <3>4 DEF OnSynRetransFire, SynRetransmitted, Handshakes
      <4>2. listen' = listen
        BY <1>1, <3>1, <3>4 DEF ListenAfterTimer, Exhausted
      <4> HIDE DEF d
      <4>3. Pair(d, wheel).conn = d /\ Pair(d, wheel).wheel = wheel
        BY DEF Pair
      <4>4. PairOK(Pair(d, wheel), h, batch \ {t})
        BY <2>1, <2>4, <3>1, <4>3 DEF PairOK, Noted
      <4>5. /\ PairOK(q, h, batch \ {t}) /\ OnlyTimers(Pair(d, wheel), q, h)
            /\ q.conn.timer["syn"] # NoTimer
            /\ \A k \in Kinds : k # "syn" => q.conn.timer[k] = d.timer[k]
        <5>1. Pair(d, wheel).conn.timer["syn"] = NoTimer
          BY <2>1, <2>6, <3>1, <4>3
        <5>2. batch \ {t} \in SUBSET TimerId
          BY <2>3
        <5> QED BY <2>1, <4>3, <4>4, <5>1, <5>2, StartOK, KindsDiffer
      <4> HIDE DEF q
      <4>6. OnlyTimers(Pair(slots[h], wheel), q, h)
        BY <2>4, <2>5, <3>1, <4>3, <4>5 DEF OnlyTimers
      <4>7. q.conn.state = slots[h].state /\ q.conn.flight = slots[h].flight
        BY <2>1, <3>1, <4>3, <4>5 DEF OnlyTimers
      <4>8. Duty(q.conn)
        BY <2>1, <2>3, <2>6, <3>1, <4>5, <4>7, KindsDiffer DEF Duty
      <4> QED BY <1>1, <1>3, <2>1, <4>1, <4>2, <4>5, <4>6, <4>8, SettlesInv
    <3> QED BY <3>2, <3>3, <3>4
  <2>7. CASE t.kind = "rto"
    <3> DEFINE q == Start(p, h, "rto")
    <3>0. /\ listen' = listen
          /\ slots[h].state \notin Handshakes
      <4>1. slots[h].timer["rto"] # NoTimer
        BY <2>1, <2>7, KindsDiffer
      <4> QED BY <1>1, <2>3, <2>7, <4>1 DEF ListenAfterTimer, Exhausted, Duty
    <3>1. CASE ~c.flight
      <4>1. Settles(h, p)
        BY <2>2, <2>7, <3>1 DEF OnRtoFire
      <4>2. Duty(p.conn)
        BY <2>1, <2>4, <3>0, <3>1 DEF Duty, Handshakes
      <4> QED BY <1>1, <1>3, <2>1, <2>5, <3>0, <4>1, <4>2, SettlesInv
    <3>2. CASE c.flight /\ spent
      <4>1. ForceClose(h)
        BY <2>2, <2>7, <3>2 DEF OnRtoFire
      <4>2. ~SynReceived(h)
        BY <3>0 DEF SynReceived, Handshakes
      <4> QED BY <1>1, <1>3, <2>1, <3>0, <4>1, <4>2, ForceCloseInv
    <3>3. CASE c.flight /\ ~spent
      <4>1. Settles(h, q)
        BY <2>2, <2>7, <3>3 DEF OnRtoFire, RtoRetransmitted
      <4>2. /\ PairOK(q, h, batch \ {t}) /\ OnlyTimers(p, q, h)
            /\ q.conn.timer["rto"] # NoTimer
        <5>1. batch \ {t} \in SUBSET TimerId /\ p.conn.timer["rto"] = NoTimer
          BY <2>1, <2>3, <2>4, <2>7
        <5> HIDE DEF p
        <5> QED BY <2>1, <5>1, StartOK, KindsDiffer
      <4> HIDE DEF q, p
      <4>3. OnlyTimers(Pair(slots[h], wheel), q, h)
        BY <2>5, <4>2 DEF OnlyTimers
      <4>4. q.conn.state = slots[h].state
        BY <2>1, <2>4, <4>2 DEF OnlyTimers
      <4>5. Duty(q.conn)
        BY <3>0, <4>2, <4>4 DEF Duty, Handshakes
      <4> QED BY <1>1, <1>3, <2>1, <3>0, <4>1, <4>2, <4>3, <4>5, SettlesInv
    <3> QED BY <3>1, <3>2, <3>3
  <2>8. CASE t.kind = "tlp"
    <3>1. listen' = listen /\ Settles(h, p)
      BY <1>1, <2>2, <2>8 DEF ListenAfterTimer, Exhausted
    <3>2. Duty(p.conn)
      BY <2>1, <2>3, <2>4, <2>8, KindsDiffer DEF Duty
    <3> QED BY <1>1, <1>3, <2>1, <2>5, <3>1, <3>2, SettlesInv
  <2> QED BY <2>1, <2>6, <2>7, <2>8, KindsDiffer DEF TimerId
<1> QED BY <1>2, <1>3

LEMMA ReapInv ==
    ASSUME IInv, NEW hs \in SUBSET Handles, ReapTimeWait(hs), listen' = listen
    PROVE  IInv'
<1>1. /\ phase = "timers" /\ batch = {} /\ batch' = batch /\ phase' = "user"
      /\ \A h \in hs : Live(h) /\ slots[h].state = "TimeWait"
      /\ Push(hs, <<"closed">>) /\ RemoveConns(hs)
      /\ wheel' = {t \in wheel : \A h \in hs : t \in Cancelled(wheel, slots[h])}
  BY DEF ReapTimeWait
<1>2. ASSUME NEW h \in hs
      PROVE  Cancelled(wheel, slots[h]) = {t \in wheel : t.owner # h}
  BY <1>1, CancelAll
<1>3. wheel' = {t \in wheel : t.owner \notin hs}
  BY <1>1, <1>2
<1>4. \A h \in hs : ~SynReceived(h)
  BY <1>1 DEF SynReceived
<1>5. /\ batch' \in SUBSET batch /\ (phase' # "timers" => batch' = {})
      /\ \A t \in batch : t.owner \notin hs => t \in batch'
      /\ phase' \in {"user", "rx", "timers"}
      /\ <<"closed">> \in {<<"closed">>, <<"etimedout", "closed">>}
  BY <1>1
<1> QED BY <1>1, <1>3, <1>4, <1>5, LeaveStep

LEMMA FireTimersInv ==
    ASSUME IInv, NEW due \in SUBSET wheel, FireTimers(due), listen' = listen
    PROVE  IInv'
<1>1. /\ phase' = "timers" /\ batch' = due /\ wheel' = wheel \ due
      /\ slots' = slots /\ by_tuple' = by_tuple /\ log' = log
  BY DEF FireTimers
<1>2. batch = {}
  BY DEF FireTimers, IInv, TimerInv
<1> QED BY <1>1, <1>2, TableSame

LEMMA PollBeginsInv ==
    ASSUME IInv, PollBegins, listen' = listen
    PROVE  IInv'
<1>1. /\ phase' = "rx" /\ batch' = batch /\ wheel' = wheel /\ batch = {}
      /\ slots' = slots /\ by_tuple' = by_tuple /\ log' = log
  BY DEF PollBegins, IInv, TimerInv
<1> QED BY <1>1, TableSame

\* Engine::listen and Engine::accept_next touch no handshake.
LEMMA ListenCallsInv ==
    ASSUME IInv, NEW port \in Ports, Listen(port) \/ AcceptNext(port)
    PROVE  IInv'
<1>1. TypeOK /\ TableConsistent /\ TimerInv /\ LifeInv /\ ListenSlotSound
  BY DEF IInv
<1>2. UNCHANGED vars
  BY DEF Listen, AcceptNext
<1>3. /\ slots' = slots /\ by_tuple' = by_tuple /\ wheel' = wheel /\ batch' = batch
      /\ phase' = phase /\ log' = log
  BY <1>2 DEF vars
<1>4. TableConsistent' /\ TimerInv' /\ LifeInv'
  BY <1>1, <1>3 DEF TableConsistent, TimerInv, LifeInv, Live
<1>5. \A j \in Handles : SynReceived(j)' <=> SynReceived(j)
  BY <1>3 DEF SynReceived, Live
<1>6. listen \in [DOMAIN listen -> ListenSlot] /\ DOMAIN listen \subseteq Ports
  BY <1>1 DEF TypeOK
<1>0. Slots \in Nat /\ None = 0
  BY ConnectionsParams DEF None
<1>7. /\ DOMAIN listen \subseteq DOMAIN listen' /\ DOMAIN listen' \subseteq Ports
      /\ listen' \in [DOMAIN listen' -> ListenSlot]
      /\ \A p \in DOMAIN listen : listen'[p].in_progress = listen[p].in_progress
      /\ \A p \in DOMAIN listen' : p \notin DOMAIN listen => listen'[p].in_progress = None
  <2>1. CASE Listen(port)
    <3> DEFINE e == [in_progress |-> None, accept_queue |-> None]
    <3>1. listen' = [p \in DOMAIN listen \cup {port} |-> IF p = port THEN e ELSE listen[p]]
          /\ port \notin DOMAIN listen
      BY <2>1 DEF Listen
    <3>2. e \in ListenSlot /\ e.in_progress = None
      BY <1>0 DEF ListenSlot
    <3> HIDE DEF e
    <3> QED BY <1>6, <3>1, <3>2
  <2>2. CASE AcceptNext(port)
    <3>1. listen' = [listen EXCEPT ![port].accept_queue = None] /\ port \in DOMAIN listen
      BY <2>2 DEF AcceptNext
    <3> QED BY <1>0, <1>6, <3>1 DEF ListenSlot
  <2> QED BY <2>1, <2>2
<1>8. TypeOK'
  BY <1>1, <1>3, <1>7 DEF TypeOK
<1>9. ListenSlotSound'
  <2>1. ASSUME NEW p \in DOMAIN listen', listen'[p].in_progress # None
        PROVE  SynReceived(listen[p].in_progress)'
    <3>1. p \in DOMAIN listen /\ listen'[p].in_progress = listen[p].in_progress
      BY <1>7, <2>1
    <3>2. PICK j \in Handles : j = listen[p].in_progress
      BY <1>6, <2>1, <3>1, NoneIsNoHandle DEF ListenSlot
    <3>3. SynReceived(j)'
      BY <1>1, <1>5, <2>1, <3>1, <3>2 DEF ListenSlotSound
    <3> QED BY <3>1, <3>2, <3>3
  <2>2. ASSUME NEW j \in Handles, SynReceived(j)'
        PROVE  {p \in DOMAIN listen' : listen'[p].in_progress = j} = {slots'[j].tuple.port}
    <3>1. {p \in DOMAIN listen : listen[p].in_progress = j} = {slots[j].tuple.port}
      BY <1>1, <1>5, <2>2 DEF ListenSlotSound
    <3>2. j # None
      BY <1>0 DEF Handles
    <3> QED BY <1>3, <1>7, <3>1, <3>2
  <2> QED BY <2>1, <2>2 DEF ListenSlotSound
<1> QED BY <1>4, <1>8, <1>9 DEF IInv

-----------------------------------------------------------------------------
\* The invariant.

LEMMA InitInv == PInit => IInv
<1> SUFFICES ASSUME PInit PROVE IInv
  OBVIOUS
<1>1. /\ slots = [h \in Handles |-> NoConn] /\ by_tuple = <<>> /\ wheel = {} /\ batch = {}
      /\ phase = "user" /\ log = <<>> /\ listen = <<>>
  BY DEF PInit, Init
<1>2. \A h \in Handles : ~Live(h)
  BY <1>1 DEF Live
<1>3. DOMAIN <<>> = {} /\ <<>> \in Seq(Seq(LifeEvents))
  OBVIOUS
<1>4. <<>> \in [{} -> Handles] /\ <<>> \in [{} -> ListenSlot]
  BY <1>3
<1>5. TypeOK
  BY <1>1, <1>3, <1>4, FS_EmptySet DEF TypeOK
<1>6. TableConsistent /\ TimerInv
  BY <1>1, <1>2, <1>3 DEF TableConsistent, TimerInv
<1>7. LifeInv
  BY <1>1, <1>2, <1>3 DEF LifeInv
<1>8. ListenSlotSound
  BY <1>1, <1>2, <1>3 DEF ListenSlotSound, SynReceived
<1> QED BY <1>5, <1>6, <1>7, <1>8 DEF IInv

LEMMA NextInv == IInv /\ [PNext]_pvars => IInv'
<1> SUFFICES ASSUME IInv, [PNext]_pvars PROVE IInv'
  OBVIOUS
<1>1. CASE User /\ UNCHANGED <<listen, unsent>>
  BY <1>1, ConnectInv, SendBytesInv, CloseConnInv DEF User
<1>2. CASE PollBegins /\ UNCHANGED <<listen, unsent>>
  BY <1>2, PollBeginsInv
<1>3. CASE Rx /\ UNCHANGED <<listen, unsent>>
  BY <1>3, RxInv
<1>4. CASE PTimers
  BY <1>4, FireTimersInv, FireOneInv, ReapInv DEF PTimers
<1>5. CASE \E port \in Ports : Listen(port) \/ AcceptNext(port)
  BY <1>5, ListenCallsInv
<1>6. CASE \E port \in Ports, peer \in Peers, sent \in BOOLEAN : InboundSyn(port, peer, sent)
  BY <1>6, InboundSynInv
<1>7. CASE \E h \in Handles : RecvRst(h) \/ RecvBadHandshake(h) \/ RecvFinalAck(h)
  BY <1>7, PassiveRxInv
<1>8. CASE \E h \in Handles, sent \in BOOLEAN : RecvDupSyn(h, sent)
  BY <1>8, RecvDupSynInv
<1>9. CASE UNCHANGED pvars
  <2>1. /\ slots' = slots /\ by_tuple' = by_tuple /\ wheel' = wheel /\ batch' = batch
        /\ phase' = phase /\ log' = log /\ listen' = listen
    BY <1>9 DEF pvars
  <2>2. wheel \cap batch = {} /\ phase \in {"user", "rx", "timers"}
        /\ (phase # "timers" => batch = {})
    BY DEF IInv, TypeOK, TimerInv
  <2> QED BY <2>1, <2>2, TableSame
<1> QED BY <1>1, <1>2, <1>3, <1>4, <1>5, <1>6, <1>7, <1>8, <1>9 DEF PNext

\* The inductive invariant, and with it the types of all that the engine keeps
\* for connections and listen slots, after any sequence of calls and polls.
THEOREM Invariance == PSpec => []IInv
BY InitInv, NextInv, PTL DEF PSpec

\* TableConsistent, for every number of slots and every set of tuples: the two
\* halves of the flow table (flow_table.rs) agree.
THEOREM TableIsConsistent == PSpec => []TableConsistent
<1>1. IInv => TableConsistent
  BY DEF IInv
<1> QED BY <1>1, Invariance, PTL

\* TimersOwned: no timer outlives its connection, and none is taken for a
\* timer of the next connection in the slot.
THEOREM TimersAreOwned == PSpec => []TimersOwned
<1>1. ASSUME IInv PROVE TimersOwned
  <2>1. TimerInv /\ TypeOK
    BY <1>1 DEF IInv
  <2>2. ASSUME NEW t \in wheel \cup batch, Live(t.owner)
        PROVE  slots[t.owner].timer[t.kind] = t /\ t \in slots[t.owner].timer_ids
    <3>1. t \in TimerId /\ t.owner \in Handles /\ t.kind \in Kinds /\ t # NoTimer
      BY <2>1, KindsDiffer DEF TypeOK, TimerId
    <3>2. Noted(t.owner, slots[t.owner], wheel \cup batch)
      BY <2>1, <2>2, <3>1 DEF TimerInv
    <3> QED BY <3>1, <3>2 DEF Noted
  <2> QED BY <2>1, <2>2 DEF TimersOwned, TimerInv
<1> QED BY <1>1, Invariance, PTL

\* WaitIsTimed: a handshake has its SYN timer running, data in flight its RTO.
THEOREM EveryWaitIsTimed == PSpec => []WaitIsTimed
<1>1. ASSUME IInv PROVE WaitIsTimed
  <2>1. ASSUME NEW h \in Handles, Live(h), NEW k \in Kinds, slots[h].timer[k] # NoTimer
        PROVE  \E t \in wheel \cup batch : t.owner = h /\ t.kind = k
    BY <1>1, <2>1 DEF IInv, TimerInv, Noted
  <2> QED BY <1>1, <2>1, KindsDiffer DEF IInv, TimerInv, Duty, WaitIsTimed
<1> QED BY <1>1, Invariance, PTL

\* OneEnd: Connected at most once and first, Closed once and last and exactly
\* when the connection has left the table, ETIMEDOUT only right before it.
THEOREM OneEndEach == PSpec => []OneEnd
<1>1. ASSUME IInv PROVE OneEnd
  <2>1. LifeInv /\ TypeOK
    BY <1>1 DEF IInv
  <2> SUFFICES ASSUME NEW b \in DOMAIN log
               PROVE  LET told(k) == {i \in DOMAIN log[b] : log[b][i] = k}
                          gone    == \A h \in Handles : Birth(h) # b
                      IN  /\ Cardinality(told("connected")) <= 1
                          /\ told("closed") = IF gone THEN {Len(log[b])} ELSE {}
                          /\ told("etimedout") \subseteq {Len(log[b]) - 1}
    BY DEF OneEnd
  <2> DEFINE told(k) == {i \in DOMAIN log[b] : log[b][i] = k}
             gone    == \A h \in Handles : Birth(h) # b
  <2> SUFFICES /\ Cardinality(told("connected")) <= 1
               /\ told("closed") = IF gone THEN {Len(log[b])} ELSE {}
               /\ told("etimedout") \subseteq {Len(log[b]) - 1}
    OBVIOUS
  <2>2. b # 0
    <3>1. DOMAIN log = 1 .. Len(log)
      BY <2>1, LenProperties DEF TypeOK
    <3> QED BY <3>1
  <2>3. CASE gone
    <3>1. \A h \in Handles : Live(h) => slots[h].birth # b
      BY <2>3 DEF Birth
    <3>2. log[b] \in Ended
      BY <2>1, <3>1 DEF LifeInv
    <3>3. CASE log[b] = <<"closed">>
      <4>1. told("connected") = {} /\ told("closed") = {1} /\ told("etimedout") = {}
            /\ Len(log[b]) = 1
        BY <3>3
      <4>2. Cardinality({}) = 0
        BY FS_EmptySet
      <4> HIDE DEF told, gone
      <4> QED BY <2>3, <4>1, <4>2
    <3>4. CASE log[b] = <<"connected", "closed">>
      <4>1. told("connected") = {1} /\ told("closed") = {2} /\ told("etimedout") = {}
            /\ Len(log[b]) = 2
        BY <3>4
      <4>2. Cardinality({1}) = 1
        BY FS_Singleton
      <4> HIDE DEF told, gone
      <4> QED BY <2>3, <4>1, <4>2
    <3>5. CASE log[b] = <<"etimedout", "closed">>
      <4>1. told("connected") = {} /\ told("closed") = {2} /\ told("etimedout") = {1}
            /\ Len(log[b]) = 2
        BY <3>5
      <4>2. Cardinality({}) = 0
        BY FS_EmptySet
      <4> HIDE DEF told, gone
      <4> QED BY <2>3, <4>1, <4>2
    <3>6. CASE log[b] = <<"connected", "etimedout", "closed">>
      <4>1. told("connected") = {1} /\ told("closed") = {3} /\ told("etimedout") = {2}
            /\ Len(log[b]) = 3
        BY <3>6
      <4>2. Cardinality({1}) = 1
        BY FS_Singleton
      <4> HIDE DEF told, gone
      <4> QED BY <2>3, <4>1, <4>2
    <3> QED BY <3>2, <3>3, <3>4, <3>5, <3>6 DEF Ended
  <2>4. CASE ~gone
    <3>0. {} = IF gone THEN {Len(log[b])} ELSE {}
      BY <2>4
    <3>1. PICK h \in Handles : Live(h) /\ slots[h].birth = b
      BY <2>2, <2>4 DEF Birth
    <3>2. log[b] = <<>> \/ log[b] = <<"connected">>
      BY <2>1, <3>1 DEF LifeInv, Told
    <3>3. CASE log[b] = <<>>
      <4>1. told("connected") = {} /\ told("closed") = {} /\ told("etimedout") = {}
        BY <3>3
      <4>2. Cardinality({}) = 0
        BY FS_EmptySet
      <4> HIDE DEF told, gone
      <4> QED BY <3>0, <4>1, <4>2
    <3>4. CASE log[b] = <<"connected">>
      <4>1. told("connected") = {1} /\ told("closed") = {} /\ told("etimedout") = {}
        BY <3>4
      <4>2. Cardinality({1}) = 1
        BY FS_Singleton
      <4> HIDE DEF told, gone
      <4>3. Cardinality(told("connected")) <= 1
        BY <4>1, <4>2
      <4>4. told("closed") = IF gone THEN {Len(log[b])} ELSE {}
        BY <3>0, <4>1
      <4>5. told("etimedout") \subseteq {Len(log[b]) - 1}
        BY <4>1
      <4> QED BY <4>3, <4>4, <4>5
    <3> QED BY <3>2, <3>3, <3>4
  <2> QED BY <2>3, <2>4
<1> QED BY <1>1, Invariance, PTL

\* ListenSlotSound: a listen slot and its handshake belong together through
\* every way a handshake can end.
THEOREM ListenSlotsAreSound == PSpec => []ListenSlotSound
<1>1. IInv => ListenSlotSound
  BY DEF IInv
<1> QED BY <1>1, Invariance, PTL
=============================================================================
