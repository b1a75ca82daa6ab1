----------------------------- MODULE TimerWheel -----------------------------
(***************************************************************************)
(* The hashed timing wheel of crates/dpdk-net-core/src/tcp_timer_wheel.rs, *)
(* with the two public entry points of engine.rs that put a user's timer   *)
(* into it and the poll that advances it.                                  *)
(*                                                                         *)
(* The wheel is the record `wheel`; its fields keep the names of the Rust  *)
(* struct.  Slots, levels, buckets and cursors are numbered from 0 in the  *)
(* code; here a slot is its position (from 1) in the sequence wheel.slots. *)
(* Time is a natural number of nanoseconds-like units, TICK of them to a   *)
(* wheel tick, so that the truncations to whole ticks are visible.         *)
(***************************************************************************)
EXTENDS Naturals, Sequences, FiniteSets, SequencesExt

CONSTANTS
    TICK,        \* TICK_NS
    LEVELS,      \* LEVELS
    BUCKETS,     \* BUCKETS
    MaxNow,      \* bound: the clock stops here
    MaxTimers,   \* bound: how many timers are ever added
    Delays,      \* bound: how far ahead of the clock a deadline may be
    Gaps         \* bound: how far the clock may run between two calls

ASSUME WheelShape ==
    /\ TICK \in Nat \ {0}
    /\ LEVELS \in Nat \ {0, 1}
    /\ BUCKETS \in Nat \ {0, 1}
    /\ {MaxNow, MaxTimers} \cup Delays \cup Gaps \subseteq Nat

VARIABLES
    now,         \* clock::now_ns()
    wheel,       \* the TimerWheel struct
    issued,      \* history: every timer ever added, in order, and its outcome
    fired        \* the batch that the call to advance just made returned

vars == <<now, wheel, issued, fired>>

NoNode == [fire_at |-> 0, generation |-> 0, cancelled |-> TRUE, live |-> FALSE]

Min2(a, b) == IF a <= b THEN a ELSE b
Max2(a, b) == IF a >= b THEN a ELSE b

\* u64::saturating_sub
SatSub(a, b) == IF a >= b THEN a - b ELSE 0

-----------------------------------------------------------------------------
\* The pure part: where a delay is hashed to.

\* The ticks of a bucket of each level (1 << 8 * level); those of a whole level
\* are the ticks of a bucket of the next.
Span[level \in 0 .. LEVELS] == IF level = 0 THEN 1 ELSE BUCKETS * Span[level - 1]

\* Mutants: a bucket too far; a delay of a whole level's span kept in that
\* level, with the offset masked instead of clamped.
OffsetTooFar(delay) ==
    LET fits == {l \in 0 .. LEVELS - 1 : delay < Span[l + 1]}
    IN  IF fits = {}
        THEN <<LEVELS - 1, BUCKETS - 1>>
        ELSE LET level == CHOOSE l \in fits : \A k \in fits : l <= k
             IN  <<level, Min2(delay \div Span[level] + 1, BUCKETS - 1)>>

LevelTooLow(delay) ==
    LET fits == {l \in 0 .. LEVELS - 1 : delay <= Span[l + 1]}
    IN  IF fits = {}
        THEN <<LEVELS - 1, BUCKETS - 1>>
        ELSE LET level == CHOOSE l \in fits : \A k \in fits : l <= k
                 off   == (delay \div Span[level]) % BUCKETS
             IN  <<level, Max2(1, off)>>

LevelAndBucketOffset(delay) ==
    LET fits == {l \in 0 .. LEVELS - 1 : delay < Span[l + 1]}
    IN  IF fits = {}
        THEN <<LEVELS - 1, BUCKETS - 1>>
        ELSE LET level == CHOOSE l \in fits : \A k \in fits : l <= k
                 off   == delay \div Span[level]
             IN  <<level, Max2(1, Min2(off, BUCKETS - 1))>>

\* Append slot s to the bucket that a deadline hashes to, seen from time `at`.
Place(w, s, fire_at, at) ==
    LET lb     == LevelAndBucketOffset(SatSub(fire_at, at) \div TICK)
        bucket == (w.cursors[lb[1]] + lb[2]) % BUCKETS
    IN  [w EXCEPT !.buckets[lb[1]][bucket] = Append(@, s)]

-----------------------------------------------------------------------------
\* TimerWheel::add.  The free list is a stack; a reused slot gets the next
\* generation, a new one generation 0.

Add(w, at, fire_at) ==
    LET reuse == w.free_list # <<>>
        s     == IF reuse THEN Last(w.free_list) ELSE Len(w.slots) + 1
        gen   == IF reuse THEN w.generations[s] + 1 ELSE 0
        node  == [fire_at |-> fire_at, generation |-> gen,
                  cancelled |-> FALSE, live |-> TRUE]
        grown == IF reuse
                 THEN [w EXCEPT !.free_list = Front(@),
                                !.generations[s] = gen,
                                !.slots[s] = node]
                 ELSE [w EXCEPT !.generations = Append(@, 0),
                                !.slots = Append(@, node)]
    IN  [wheel |-> Place(grown, s, fire_at, at),
         id    |-> [slot |-> s, generation |-> gen]]

-----------------------------------------------------------------------------
\* TimerWheel::cancel: leave a tombstone, sweep it when its bucket is drained.

\* Mutant: the generation of the id is not compared.
MatchesAnyGeneration(w, id) ==
    /\ id.slot \in DOMAIN w.slots
    /\ w.slots[id.slot].live
    /\ ~w.slots[id.slot].cancelled

Matches(w, id) ==
    /\ id.slot \in DOMAIN w.slots
    /\ w.slots[id.slot].live
    /\ w.slots[id.slot].generation = id.generation
    /\ ~w.slots[id.slot].cancelled

Cancel(w, id) ==
    IF Matches(w, id) THEN [w EXCEPT !.slots[id.slot].cancelled = TRUE] ELSE w

-----------------------------------------------------------------------------
\* TimerWheel::cascade for one level: step the level's cursor and re-hash the
\* nodes of the bucket it reaches, seen from the wheel's own time.

Rehash(w, s) ==
    IF ~w.slots[s].live THEN w
    ELSE IF w.slots[s].cancelled
         THEN [w EXCEPT !.slots[s] = NoNode, !.free_list = Append(@, s)]
         ELSE Place(w, s, w.slots[s].fire_at, w.last_tick * TICK)

RehashAll(w, q) ==
    LET after[k \in 0 .. Len(q)] == IF k = 0 THEN w ELSE Rehash(after[k - 1], q[k])
    IN  after[Len(q)]

CascadeLevel(w, level) ==
    LET c       == (w.cursors[level] + 1) % BUCKETS
        drained == [w EXCEPT !.cursors[level] = c, !.buckets[level][c] = <<>>]
    IN  RehashAll(drained, w.buckets[level][c])

\* cascade(1) runs when cursor 0 wrapped, cascade(l + 1) when cascade(l) ran
\* and its cursor wrapped.
Cascade(w) ==
    LET upTo[l \in 0 .. LEVELS - 1] ==
            IF l = 0 THEN w
            ELSE LET below == upTo[l - 1]
                 IN  IF \A k \in 0 .. l - 1 : below.cursors[k] = 0
                     THEN CascadeLevel(below, l) ELSE below
    IN  upTo[LEVELS - 1]

\* Mutant: the slot of a swept tombstone is not given back.
TakeSlotLeaks(w, s) ==
    IF ~w.slots[s].live THEN w
    ELSE IF w.slots[s].cancelled
         THEN [w EXCEPT !.slots[s] = NoNode]
         ELSE [w EXCEPT !.slots[s] = NoNode,
                        !.free_list = Append(@, s),
                        !.fired = Append(@, [slot |-> s,
                                             generation |-> w.slots[s].generation])]

\* Taking one slot out of the level-0 bucket under the cursor.
TakeSlot(w, s) ==
    IF ~w.slots[s].live THEN w
    ELSE LET id    == [slot |-> s, generation |-> w.slots[s].generation]
             freed == [w EXCEPT !.slots[s] = NoNode,
                                !.free_list = Append(@, s)]
         IN  IF w.slots[s].cancelled THEN freed
             ELSE [freed EXCEPT !.fired = Append(@, id)]

TakeAll(w, q) ==
    LET after[k \in 0 .. Len(q)] == IF k = 0 THEN w ELSE TakeSlot(after[k - 1], q[k])
    IN  after[Len(q)]

\* One iteration of advance's loop.
TickOnce(w) ==
    LET c     == (w.cursors[0] + 1) % BUCKETS
        moved == [w EXCEPT !.cursors[0] = c, !.last_tick = @ + 1]
        swept == [TakeAll(moved, moved.buckets[0][c]) EXCEPT !.buckets[0][c] = <<>>]
    IN  IF c = 0 THEN Cascade(swept) ELSE swept

\* How many ticks one call to advance catches up.
TicksToRun(w, at) == Min2(SatSub(at \div TICK, w.last_tick), BUCKETS * LEVELS)

\* TimerWheel::advance.  At most BUCKETS * LEVELS ticks are caught up in one
\* call: after a longer gap between polls the wheel stays behind the clock.
\* The batch of fired ids is the field `fired` of the result.
Advance(w, at) ==
    LET steps[n \in 0 .. BUCKETS * LEVELS] ==
            IF n = 0 THEN [w EXCEPT !.fired = <<>>] ELSE TickOnce(steps[n - 1])
    IN  steps[TicksToRun(w, at)]

-----------------------------------------------------------------------------
\* engine.rs: a deadline is rounded up to a whole tick before it is added.
AlignUpToTick(deadline) == ((deadline + TICK - 1) \div TICK) * TICK

NewWheel ==
    [slots |-> <<>>, generations |-> <<>>, free_list |-> <<>>,
     buckets |-> [l \in 0 .. LEVELS - 1 |-> [b \in 0 .. BUCKETS - 1 |-> <<>>]],
     cursors |-> [l \in 0 .. LEVELS - 1 |-> 0],
     last_tick |-> 0,
     fired |-> <<>>]

Init ==
    /\ now = 0
    /\ wheel = NewWheel
    /\ issued = <<>>
    /\ fired = <<>>

CaughtUp == wheel.last_tick = now \div TICK

\* dpdk_net_timer_add -> Engine::public_timer_add.  `deadline` is the user's.
PublicTimerAdd(deadline) ==
    /\ Len(issued) < MaxTimers
    /\ LET fire_at == AlignUpToTick(deadline)
           r       == Add(wheel, now, fire_at)
       IN  /\ wheel' = r.wheel
           /\ issued' = Append(issued,
                 [id |-> r.id, fire_at |-> fire_at,
                  due |-> Max2(fire_at, now) \div TICK,
                  caught_up |-> CaughtUp, fires |-> 0, cancels |-> 0])
    /\ fired' = <<>>
    /\ UNCHANGED now

\* dpdk_net_timer_cancel, with the id the i-th timer_add returned: the caller
\* may keep an id for as long as it likes.
PublicTimerCancel(i) ==
    LET id == issued[i].id
    IN  /\ wheel' = Cancel(wheel, id)
        /\ issued' = IF Matches(wheel, id)
                     THEN [issued EXCEPT ![i].cancels = @ + 1] ELSE issued
        /\ fired' = <<>>
        /\ UNCHANGED now

\* The timer step of poll_once: fire_timers_at(now) pushes one ApiTimer event
\* per fired public timer.
AdvanceTimerWheel ==
    LET w == Advance(wheel, now)
    IN  /\ wheel' = [w EXCEPT !.fired = <<>>]
        /\ fired' = w.fired
        /\ issued' = [i \in DOMAIN issued |->
                        [issued[i] EXCEPT !.fires = @ + Cardinality(
                            {k \in DOMAIN w.fired : w.fired[k] = issued[i].id})]]
        /\ UNCHANGED now

\* The clock runs on between calls; a poll may be late.
ClockRuns(gap) ==
    /\ now + gap <= MaxNow
    /\ now' = now + gap
    /\ fired' = <<>>
    /\ UNCHANGED <<wheel, issued>>

Next ==
    \/ \E d \in Delays : PublicTimerAdd(now + d)
    \/ \E i \in DOMAIN issued : PublicTimerCancel(i)
    \/ AdvanceTimerWheel
    \/ \E gap \in Gaps : ClockRuns(gap)

Spec == Init /\ [][Next]_vars
-----------------------------------------------------------------------------

\* Where slot s is queued: one entry per occurrence in a bucket.
QueuedAt(s) ==
    UNION {{<<l, b, i>> : i \in {j \in DOMAIN wheel.buckets[l][b] : wheel.buckets[l][b][j] = s}} :
               l \in 0 .. LEVELS - 1, b \in 0 .. BUCKETS - 1}

\* Slot accounting of add / advance / cascade: an occupied slot (tombstones
\* included) is queued in exactly one bucket, an empty one is on the free list
\* exactly once and in no bucket.  Anything else loses a timer, fires it twice
\* or hands one slot to two timers.
SlotAccounting ==
    \A s \in DOMAIN wheel.slots :
        LET free == {i \in DOMAIN wheel.free_list : wheel.free_list[i] = s}
        IN  IF wheel.slots[s].live
            THEN Cardinality(QueuedAt(s)) = 1 /\ free = {}
            ELSE QueuedAt(s) = {} /\ Cardinality(free) = 1

\* Every timer ever added has exactly one outcome: still pending in the wheel,
\* delivered once, or cancelled once through its own id.  In particular an id
\* kept after its slot was reused never cancels the slot's next timer.
OneOutcome ==
    \A i \in DOMAIN issued :
        issued[i].fires + issued[i].cancels
            + (IF Matches(wheel, issued[i].id) THEN 1 ELSE 0) = 1

\* No timer is late by the wheel's own time: a pending timer has a deadline
\* tick (or, for a past deadline, an arming tick) the wheel has not yet passed.
\* Covers re-hashing at every level, and delays beyond the wheel's span.
NeverOverdue ==
    \A i \in DOMAIN issued :
        Matches(wheel, issued[i].id) => wheel.last_tick <= issued[i].due

\* The timers in the batch that advance just returned.
JustFired == {i \in DOMAIN issued : \E k \in DOMAIN fired : fired[k] = issued[i].id}

\* A timer that was added while the wheel was level with the clock fires at
\* most one tick before its (rounded-up) deadline.
AtMostATickEarly ==
    \A i \in JustFired :
        issued[i].caught_up => now + TICK >= issued[i].fire_at

\* crates/dpdk-net/src/lib.rs:1092 documents of dpdk_net_timer_add that the
\* deadline is "Rounded up to the next 10 us wheel tick", so that no timer comes
\* a tick or more before it: also not one that was added after a late poll,
\* while the wheel was behind the clock.
NeverATickEarly ==
    \A i \in JustFired : now + TICK >= issued[i].fire_at
=============================================================================
