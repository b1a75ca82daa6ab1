-------------------------- MODULE TimerWheelProofs --------------------------
(***************************************************************************)
(* Proofs, for every shape of the wheel, number of timers, set of delays   *)
(* and pattern of polls, of what the run of TimerWheel checks on a small   *)
(* instance.  The loops of advance and cascade are recursive functions in  *)
(* the model: the first lemmas show that such functions exist and give the *)
(* induction over their steps.                                             *)
(***************************************************************************)
EXTENDS TimerWheel, FiniteSetTheorems, SequenceTheorems, TLAPS

-----------------------------------------------------------------------------
\* Induction and iteration.

Before == {r \in Nat \X Nat : r[1] < r[2]}

\* A set of naturals has a least element.
LEMMA Least ==
    ASSUME NEW T \in SUBSET Nat, T # {}
    PROVE  \E x \in T : \A y \in T : x <= y
<1>1. IsWellFoundedOn(Before, Nat)
  BY NatLessThanWellFounded, Zenon DEF OpToRel, Before
<1>2. ASSUME NEW x \in Nat, NEW y \in Nat, <<y, x>> \notin Before
      PROVE  x <= y
  BY <1>2 DEF Before
<1>3. PICK x \in T : \A y \in T : ~(<<y, x>> \in Before)
  BY <1>1, WFMin
<1>4. \A y \in T : x <= y
  BY <1>2, <1>3
<1> QED BY <1>4

\* Induction up to n, for the members of a set.
LEMMA UpTo ==
    ASSUME NEW n \in Nat, NEW G, 0 \in G, \A k \in 1 .. n : k - 1 \in G => k \in G
    PROVE  \A k \in 0 .. n : k \in G
<1> DEFINE B == {k \in 0 .. n : k \notin G}
<1>1. ASSUME B # {} PROVE FALSE
  <2>1. B \in SUBSET Nat
    OBVIOUS
  <2>2. PICK x \in B : \A y \in B : x <= y
    BY <1>1, <2>1, Least
  <2>3. x # 0 /\ x \in 1 .. n
    BY <2>2
  <2>4. x - 1 \in 0 .. n /\ ~(x <= x - 1)
    BY <2>3
  <2>5. x - 1 \in G
    BY <2>2, <2>4
  <2> QED BY <2>2, <2>3, <2>5
<1> QED BY <1>1

\* A function f that takes n steps from a, the k-th by F[k], within a set.
Steps(F, n, S) == F \in [1 .. n -> [S -> S]]

IsRun(f, F, n, S, a) ==
    f \in [0 .. n -> S] /\ f[0] = a /\ \A k \in 1 .. n : f[k] = F[k][f[k - 1]]

LEMMA Iterates ==
    ASSUME NEW n \in Nat, NEW S, NEW a \in S, NEW F, Steps(F, n, S)
    PROVE  \E f : IsRun(f, F, n, S, a)
<1>0. F \in [1 .. n -> [S -> S]]
  BY DEF Steps
<1> DEFINE Run(f, m) == f[0] = a /\ \A k \in 1 .. m : f[k] = F[k][f[k - 1]]
           G == {m \in 0 .. n : \E f \in [0 .. m -> S] : Run(f, m)}
<1>1. 0 \in G
  <2> DEFINE f == [k \in 0 .. 0 |-> a]
  <2>1. f \in [0 .. 0 -> S] /\ Run(f, 0)
    OBVIOUS
  <2>2. 0 \in 0 .. n
    OBVIOUS
  <2> HIDE DEF f, Run
  <2> QED BY <2>1, <2>2
<1>2. ASSUME NEW m \in 1 .. n, m - 1 \in G PROVE m \in G
  <2>1. PICK f \in [0 .. m - 1 -> S] : Run(f, m - 1)
    BY <1>2
  <2> DEFINE g == [k \in 0 .. m |-> IF k = m THEN F[m][f[m - 1]] ELSE f[k]]
  <2>2. f[m - 1] \in S /\ F[m] \in [S -> S] /\ F[m][f[m - 1]] \in S
    BY <1>0
  <2>3. \A k \in 0 .. m : k # m => k \in 0 .. m - 1
    OBVIOUS
  <2>4. g \in [0 .. m -> S]
    BY <2>2, <2>3
  <2>5. g[0] = a
    BY <2>1
  <2>6. ASSUME NEW k \in 1 .. m PROVE g[k] = F[k][g[k - 1]]
    <3>1. k - 1 \in 0 .. m - 1 /\ k - 1 # m /\ k - 1 \in 0 .. m /\ k \in 0 .. m
      OBVIOUS
    <3>2. g[k - 1] = f[k - 1]
      BY <3>1
    <3>3. CASE k = m
      BY <3>2, <3>3
    <3>4. CASE k # m
      <4>1. k \in 1 .. m - 1 /\ g[k] = f[k]
        BY <3>4
      <4>2. f[k] = F[k][f[k - 1]]
        BY <2>1, <4>1
      <4> QED BY <3>2, <4>1, <4>2
    <3> QED BY <3>3, <3>4
  <2>7. Run(g, m)
    BY <2>5, <2>6
  <2> HIDE DEF g, Run
  <2> QED BY <2>4, <2>7
<1> HIDE DEF G
<1>3. n \in G
  <2>1. \A k \in 0 .. n : k \in G
    BY <1>1, <1>2, UpTo
  <2> QED BY <2>1
<1> QED BY <1>3 DEF G, IsRun

\* A function that satisfies the equations of its steps stays in the set.
LEMMA RunOf ==
    ASSUME NEW n \in Nat, NEW S, NEW a \in S, NEW F, Steps(F, n, S),
           NEW g, g = [k \in 0 .. n |-> g[k]], g[0] = a,
           \A k \in 1 .. n : g[k - 1] \in S => g[k] = F[k][g[k - 1]]
    PROVE  IsRun(g, F, n, S, a)
<1> DEFINE G == {k \in 0 .. n : g[k] \in S}
<1>1. 0 \in G
  OBVIOUS
<1>2. ASSUME NEW k \in 1 .. n, k - 1 \in G PROVE k \in G
  <2>1. k \in 0 .. n /\ g[k - 1] \in S
    BY <1>2
  <2>2. g[k] = F[k][g[k - 1]]
    BY <2>1
  <2>3. F[k] \in [S -> S]
    BY DEF Steps
  <2> QED BY <2>1, <2>2, <2>3
<1> HIDE DEF G
<1>3. \A k \in 0 .. n : k \in G
  BY <1>1, <1>2, UpTo
<1>4. \A k \in 0 .. n : g[k] \in S
  BY <1>3 DEF G
<1>5. \A k \in 1 .. n : k - 1 \in 0 .. n
  OBVIOUS
<1> QED BY <1>4, <1>5 DEF IsRun

-----------------------------------------------------------------------------
\* The spans of the levels.

LEMMA SpanRuns ==
    ASSUME LEVELS \in Nat, BUCKETS \in Nat \ {0}
    PROVE  /\ Span \in [0 .. LEVELS -> Nat \ {0}] /\ Span[0] = 1
           /\ \A l \in 1 .. LEVELS : Span[l] = BUCKETS * Span[l - 1]
<1> DEFINE n == LEVELS
           S == Nat \ {0}
           F == [k \in 1 .. n |-> [v \in S |-> BUCKETS * v]]
           Loop(f) == f = [k \in 0 .. n |-> IF k = 0 THEN 1 ELSE BUCKETS * f[k - 1]]
<1>1. n \in Nat /\ 1 \in S
  OBVIOUS
<1>2. Steps(F, n, S)
  <2>1. \A v \in S : BUCKETS * v \in S
    OBVIOUS
  <2> QED BY <2>1 DEF Steps
<1>3. \A k \in 1 .. n, v \in S : F[k][v] = BUCKETS * v
  OBVIOUS
<1>4. Span = CHOOSE f : Loop(f)
  BY DEF Span
<1> HIDE DEF F, S
<1>5. PICK f : IsRun(f, F, n, S, 1)
  BY <1>1, <1>2, Iterates
<1>6. Loop(f)
  <2>1. ASSUME NEW k \in 1 .. n PROVE f[k] = BUCKETS * f[k - 1]
    <3>1. k - 1 \in 0 .. n
      OBVIOUS
    <3>2. f[k - 1] \in S /\ f[k] = F[k][f[k - 1]]
      BY <1>5, <3>1 DEF IsRun
    <3> QED BY <1>3, <3>2
  <2>2. \A k \in 0 .. n : k = 0 \/ k \in 1 .. n
    OBVIOUS
  <2>3. \A k \in 0 .. n : f[k] = IF k = 0 THEN 1 ELSE BUCKETS * f[k - 1]
    BY <1>5, <2>1, <2>2 DEF IsRun
  <2>4. f = [k \in 0 .. n |-> f[k]]
    BY <1>5 DEF IsRun
  <2> QED BY <2>3, <2>4
<1>7. Loop(Span)
  BY <1>4, <1>6
<1>8. /\ Span = [k \in 0 .. n |-> Span[k]] /\ Span[0] = 1
      /\ \A k \in 1 .. n : Span[k] = BUCKETS * Span[k - 1]
  BY <1>7
<1>9. IsRun(Span, F, n, S, 1)
  BY <1>1, <1>2, <1>3, <1>8, RunOf, ZenonT(40)
<1> QED BY <1>8, <1>9 DEF IsRun, S

-----------------------------------------------------------------------------
\* Types.

Lv == 0 .. LEVELS - 1
Bk == 0 .. BUCKETS - 1

Node == [fire_at : Nat, generation : Nat, cancelled : BOOLEAN, live : BOOLEAN]

\* A wheel with n slots.
WheelOf(n) ==
    [slots : [1 .. n -> Node], generations : [1 .. n -> Nat],
     free_list : Seq(1 .. n), buckets : [Lv -> [Bk -> Seq(1 .. n)]],
     cursors : [Lv -> Bk], last_tick : Nat,
     fired : Seq([slot : 1 .. n, generation : Nat])]

\* Remainder and quotient.
LEMMA DivMod ==
    ASSUME NEW x \in Nat, NEW m \in Nat \ {0}
    PROVE  x % m \in 0 .. m - 1 /\ x \div m \in Nat /\ x = m * (x \div m) + (x % m)
<1>1. x % m \in 0 .. m - 1
  OBVIOUS
<1>2. x \div m \in Nat
  OBVIOUS
<1>3. x = m * (x \div m) + (x % m)
  OBVIOUS
<1> QED BY <1>1, <1>2, <1>3

\* A delay is hashed to a level of the wheel, at an offset that never points
\* past the delay (at level 0: never past the next tick or the delay).
LEMMA OffsetFits ==
    ASSUME NEW delay \in Nat
    PROVE  LET lb == LevelAndBucketOffset(delay) IN
           /\ lb \in Lv \X (1 .. BUCKETS - 1)
           /\ lb[1] = 0 => lb[2] = Max2(1, delay)
           /\ lb[1] # 0 => lb[2] * Span[lb[1]] <= delay
<1> DEFINE fits == {l \in 0 .. LEVELS - 1 : delay < Span[l + 1]}
           level == CHOOSE l \in fits : \A k \in fits : l <= k
           top == LEVELS - 1
<1>0. BUCKETS \in Nat /\ BUCKETS > 1 /\ LEVELS \in Nat /\ LEVELS > 1
  BY WheelShape
<1>S. /\ Span \in [0 .. LEVELS -> Nat \ {0}] /\ Span[0] = 1
      /\ \A l \in 1 .. LEVELS : Span[l] = BUCKETS * Span[l - 1]
  BY <1>0, SpanRuns
<1>1. CASE fits = {}
  <2>1. top \in Lv /\ top # 0 /\ top + 1 = LEVELS /\ top \in 0 .. LEVELS
        /\ LEVELS \in 1 .. LEVELS /\ LEVELS - 1 = top /\ LEVELS \in 0 .. LEVELS
    BY <1>0 DEF Lv
  <2>2. Span[LEVELS] = BUCKETS * Span[top] /\ Span[top] \in Nat /\ Span[LEVELS] \in Nat
    BY <1>S, <2>1
  <2>3. ~(delay < Span[LEVELS])
    BY <1>1, <2>1 DEF Lv
  <2>4. LevelAndBucketOffset(delay) = <<top, BUCKETS - 1>>
    BY <1>1 DEF LevelAndBucketOffset
  <2> DEFINE sp == Span[top]
  <2>5. sp \in Nat /\ BUCKETS * sp <= delay
    BY <2>2, <2>3
  <2> HIDE DEF top, sp
  <2>6. (BUCKETS - 1) * sp <= delay
    <3>1. (BUCKETS - 1) * sp = BUCKETS * sp - sp
      BY <1>0, <2>5
    <3>2. BUCKETS * sp \in Nat
      BY <1>0, <2>5
    <3> QED BY <2>5, <3>1, <3>2
  <2>7. BUCKETS - 1 \in 1 .. BUCKETS - 1
    BY <1>0
  <2> QED BY <2>1, <2>4, <2>6, <2>7 DEF sp
<1>2. CASE fits # {}
  <2>1. fits \in SUBSET Nat
    BY <1>0
  <2>2. \E l \in fits : \A k \in fits : l <= k
    BY <1>2, <2>1, Least
  <2> HIDE DEF fits
  <2>3. level \in fits /\ \A k \in fits : level <= k
    BY <2>2
  <2> HIDE DEF level
  <2>4. level \in Lv /\ level \in 0 .. LEVELS /\ level + 1 \in 1 .. LEVELS
        /\ level + 1 \in 0 .. LEVELS /\ delay < Span[level + 1]
    BY <1>0, <2>3 DEF fits, Lv
  <2> DEFINE sp == Span[level]
             x == delay \div sp
             off == Max2(1, Min2(x, BUCKETS - 1))
  <2>5. sp \in Nat \ {0} /\ Span[level + 1] = BUCKETS * sp
    BY <1>S, <2>4
  <2>6. LevelAndBucketOffset(delay) = <<level, off>>
    BY <1>2 DEF LevelAndBucketOffset, fits, level
  <2>L. level = 0 => sp = 1
    BY <1>S
  <2> HIDE DEF sp
  <2>7. x \in Nat /\ delay % sp \in 0 .. sp - 1 /\ delay = sp * x + (delay % sp)
    BY <2>5, DivMod
  <2>8. off \in 1 .. BUCKETS - 1
    BY <1>0, <2>7 DEF Max2, Min2
  <2>9. ASSUME level = 0 PROVE off = Max2(1, delay)
    <3>1. sp = 1
      BY <2>9, <2>L
    <3>2. x = delay /\ delay < BUCKETS
      BY <1>0, <2>4, <2>5, <2>7, <3>1
    <3> QED BY <1>0, <3>2 DEF Max2, Min2
  <2>10. ASSUME level # 0 PROVE off * sp <= delay
    <3>1. level - 1 \in 0 .. LEVELS - 1 /\ ~(level <= level - 1) /\ (level - 1) + 1 = level
      BY <1>0, <2>4, <2>10 DEF Lv
    <3>2. level - 1 \notin fits
      BY <2>3, <3>1
    <3>3. ~(delay < sp)
      BY <3>1, <3>2 DEF fits, sp
    <3>4. x >= 1
      <4>1. ASSUME x = 0 PROVE FALSE
        <5>1. sp * x = 0
          BY <2>5, <4>1
        <5> HIDE DEF x
        <5> QED BY <2>5, <2>7, <3>3, <5>1
      <4> QED BY <2>7, <4>1
    <3>5. off <= x /\ off \in Nat
      BY <1>0, <2>7, <3>4 DEF Max2, Min2
    <3> HIDE DEF off, x
    <3>6. off * sp <= x * sp /\ x * sp = sp * x /\ x * sp \in Nat
      <4>1. x = off + (x - off) /\ x - off \in Nat
        BY <2>7, <3>5
      <4>2. x * sp = off * sp + (x - off) * sp /\ (x - off) * sp \in Nat /\ off * sp \in Nat
        BY <2>5, <2>7, <3>5, <4>1
      <4> QED BY <2>5, <2>7, <4>2
    <3> QED BY <2>5, <2>7, <3>5, <3>6
  <2> HIDE DEF off
  <2> QED BY <2>4, <2>6, <2>8, <2>9, <2>10 DEF sp
<1> QED BY <1>1, <1>2

\* Where a deadline is hashed to, seen from `at`: the level and the bucket.
HashLevel(fire_at, at) == LevelAndBucketOffset(SatSub(fire_at, at) \div TICK)[1]
HashOffset(fire_at, at) == LevelAndBucketOffset(SatSub(fire_at, at) \div TICK)[2]
HashBucket(w, fire_at, at) ==
    (w.cursors[HashLevel(fire_at, at)] + HashOffset(fire_at, at)) % BUCKETS

\* v is w with slot s appended to bucket b of level l.
AddedTo(v, w, s, l, b) ==
    /\ v.slots = w.slots /\ v.free_list = w.free_list /\ v.fired = w.fired
    /\ v.generations = w.generations
    /\ v.cursors = w.cursors /\ v.last_tick = w.last_tick
    /\ v.buckets = [w.buckets EXCEPT ![l][b] = Append(@, s)]

\* What Place does: one bucket gets one more entry.
LEMMA PlaceStep ==
    ASSUME NEW n \in Nat, NEW w \in WheelOf(n), NEW s \in 1 .. n,
           NEW fire_at \in Nat, NEW at \in Nat
    PROVE  /\ HashLevel(fire_at, at) \in Lv /\ HashOffset(fire_at, at) \in Nat
           /\ HashBucket(w, fire_at, at) \in Bk
           /\ Place(w, s, fire_at, at) \in WheelOf(n)
           /\ AddedTo(Place(w, s, fire_at, at), w, s, HashLevel(fire_at, at),
                      HashBucket(w, fire_at, at))
<1> DEFINE delay == SatSub(fire_at, at) \div TICK
           lb == LevelAndBucketOffset(delay)
           bucket == (w.cursors[lb[1]] + lb[2]) % BUCKETS
<1>1. delay \in Nat
  <2>1. SatSub(fire_at, at) \in Nat
    BY DEF SatSub
  <2> QED BY <2>1, DivMod, WheelShape
<1>2. lb \in Lv \X Nat
  <2>1. lb \in Lv \X (1 .. BUCKETS - 1)
    BY <1>1, OffsetFits
  <2> QED BY <2>1
<1>3. w.cursors[lb[1]] + lb[2] \in Nat
  BY <1>2 DEF WheelOf, Bk
<1>4. bucket \in Bk
  BY <1>3, DivMod, WheelShape DEF Bk
<1>5. Place(w, s, fire_at, at) = [w EXCEPT !.buckets[lb[1]][bucket] = Append(@, s)]
  BY DEF Place
<1>6. lb[1] \in Lv /\ lb[2] \in Nat
  BY <1>2
<1>7. /\ HashLevel(fire_at, at) = lb[1] /\ HashOffset(fire_at, at) = lb[2]
      /\ HashBucket(w, fire_at, at) = bucket
  BY DEF HashLevel, HashOffset, HashBucket
<1> HIDE DEF lb, bucket
<1>8. ASSUME NEW l \in Lv, NEW b \in Bk
      PROVE  /\ [w EXCEPT !.buckets[l][b] = Append(@, s)] \in WheelOf(n)
             /\ AddedTo([w EXCEPT !.buckets[l][b] = Append(@, s)], w, s, l, b)
  <2>1. Append(w.buckets[l][b], s) \in Seq(1 .. n)
    BY DEF WheelOf
  <2>2. [w.buckets EXCEPT ![l][b] = Append(@, s)] \in [Lv -> [Bk -> Seq(1 .. n)]]
    BY <2>1 DEF WheelOf
  <2>3. [w EXCEPT !.buckets[l][b] = Append(@, s)] \in WheelOf(n)
    BY <2>2 DEF WheelOf
  <2>4. AddedTo([w EXCEPT !.buckets[l][b] = Append(@, s)], w, s, l, b)
    BY DEF WheelOf, AddedTo
  <2> QED BY <2>3, <2>4
<1>9. /\ Place(w, s, fire_at, at) \in WheelOf(n)
      /\ AddedTo(Place(w, s, fire_at, at), w, s, lb[1], bucket)
  BY <1>4, <1>5, <1>6, <1>8
<1> QED BY <1>4, <1>6, <1>7, <1>9

-----------------------------------------------------------------------------
\* The accounting of slots, for the buckets B and while the slots of X are in
\* hand: taken out of their bucket and neither queued nor freed yet.

QueuedLive(slots, B, X) ==
    \A l \in Lv, b \in Bk : \A i \in 1 .. Len(B[l][b]) :
        slots[B[l][b][i]].live /\ B[l][b][i] \notin X

QueuedOnce(B) ==
    \A l, k \in Lv, b, c \in Bk : \A i \in 1 .. Len(B[l][b]), j \in 1 .. Len(B[k][c]) :
        B[l][b][i] = B[k][c][j] => l = k /\ b = c /\ i = j

Queued(B, s) == \E l \in Lv, b \in Bk : \E i \in 1 .. Len(B[l][b]) : B[l][b][i] = s

LiveQueued(n, slots, B, X) ==
    \A s \in 1 .. n : slots[s].live /\ s \notin X => Queued(B, s)

FreeOnce(slots, free) ==
    /\ \A i \in 1 .. Len(free) : ~slots[free[i]].live
    /\ \A i, j \in 1 .. Len(free) : free[i] = free[j] => i = j

DeadFree(n, slots, free) ==
    \A s \in 1 .. n : ~slots[s].live => \E i \in 1 .. Len(free) : free[i] = s

Acc(n, slots, free, B, X) ==
    /\ QueuedLive(slots, B, X)
    /\ QueuedOnce(B)
    /\ LiveQueued(n, slots, B, X)
    /\ FreeOnce(slots, free)
    /\ DeadFree(n, slots, free)
    /\ X \subseteq {s \in 1 .. n : slots[s].live}

Buckets(n) == [Lv -> [Bk -> Seq(1 .. n)]]

\* The entries of the bucket q that are still in hand after k of them.
Held(q, k) == {q[j] : j \in k + 1 .. Len(q)}

Distinct(q) == \A i, j \in 1 .. Len(q) : q[i] = q[j] => i = j

LEMMA HeldEnds ==
    ASSUME NEW n \in Nat, NEW q \in Seq(1 .. n)
    PROVE  Held(q, Len(q)) = {} /\ Held(q, 0) = {q[j] : j \in 1 .. Len(q)}
<1>1. Len(q) \in Nat /\ \A j \in Len(q) + 1 .. Len(q) : FALSE
  OBVIOUS
<1> QED BY <1>1 DEF Held

LEMMA Appended ==
    ASSUME NEW T, NEW q \in Seq(T), NEW x \in T
    PROVE  /\ Append(q, x) \in Seq(T)
           /\ Len(q) \in Nat /\ Len(Append(q, x)) = Len(q) + 1
           /\ Append(q, x)[Len(q) + 1] = x
           /\ \A i \in 1 .. Len(q) : i \in 1 .. Len(q) + 1 /\ Append(q, x)[i] = q[i] /\ q[i] \in T
           /\ \A i \in 1 .. Len(q) + 1 : i \in 1 .. Len(q) \/ i = Len(q) + 1
           /\ Len(q) + 1 \in 1 .. Len(q) + 1 /\ Len(q) + 1 \notin 1 .. Len(q)
OBVIOUS

\* A slot in hand is given back to the free list.
LEMMA AccFree ==
    ASSUME NEW n \in Nat, NEW slots \in [1 .. n -> Node], NEW free \in Seq(1 .. n),
           NEW B \in Buckets(n), NEW X, NEW s \in X, Acc(n, slots, free, B, X)
    PROVE  Acc(n, [slots EXCEPT ![s] = NoNode], Append(free, s), B, X \ {s})
<1> DEFINE slots2 == [slots EXCEPT ![s] = NoNode]
           free2 == Append(free, s)
<1>0. s \in 1 .. n /\ slots[s].live /\ X \subseteq 1 .. n
  BY DEF Acc
<1>1. \A t \in 1 .. n : slots2[t] = IF t = s THEN NoNode ELSE slots[t]
  BY <1>0
<1>2. ~NoNode.live
  BY DEF NoNode
<1>3. Len(free2) = Len(free) + 1 /\ free2[Len(free) + 1] = s /\ Len(free) \in Nat
      /\ \A i \in 1 .. Len(free) : free2[i] = free[i] /\ free[i] \in 1 .. n
  BY <1>0
<1>4. \A i \in 1 .. Len(free2) : i \in 1 .. Len(free) \/ i = Len(free) + 1
  BY <1>3
<1>5. \A l \in Lv, b \in Bk : \A i \in 1 .. Len(B[l][b]) : B[l][b][i] \in 1 .. n
  BY DEF Buckets
<1> HIDE DEF slots2, free2
<1>6. QueuedLive(slots2, B, X \ {s})
  BY <1>1, <1>5 DEF QueuedLive, Acc
<1>7. LiveQueued(n, slots2, B, X \ {s})
  BY <1>1, <1>2 DEF LiveQueued, Acc
<1>8. FreeOnce(slots2, free2)
  <2>1. \A i \in 1 .. Len(free) : free[i] # s
    BY <1>0 DEF Acc, FreeOnce
  <2>2. \A i \in 1 .. Len(free2) : ~slots2[free2[i]].live
    BY <1>0, <1>1, <1>2, <1>3, <1>4, <2>1 DEF FreeOnce, Acc
  <2>3. \A i, j \in 1 .. Len(free) : free[i] = free[j] => i = j
    BY DEF FreeOnce, Acc
  <2>4. \A i, j \in 1 .. Len(free2) : free2[i] = free2[j] => i = j
    BY <1>3, <1>4, <2>1, <2>3
  <2> QED BY <2>2, <2>4 DEF FreeOnce
<1>9. DeadFree(n, slots2, free2)
  <2> SUFFICES ASSUME NEW t \in 1 .. n, ~slots2[t].live
               PROVE  \E i \in 1 .. Len(free2) : free2[i] = t
    BY DEF DeadFree
  <2>1. CASE t = s
    <3>1. Len(free) + 1 \in 1 .. Len(free2)
      BY <1>3
    <3> QED BY <1>3, <2>1, <3>1
  <2>2. CASE t # s
    <3>1. PICK i \in 1 .. Len(free) : free[i] = t
      BY <1>1, <2>2 DEF Acc, DeadFree
    <3>2. i \in 1 .. Len(free2)
      BY <1>3
    <3> QED BY <1>3, <3>1, <3>2
  <2> QED BY <2>1, <2>2
<1>10. X \ {s} \subseteq {t \in 1 .. n : slots2[t].live}
  BY <1>0, <1>1 DEF Acc
<1> QED BY <1>6, <1>7, <1>8, <1>9, <1>10 DEF Acc, slots2, free2

\* A slot in hand is appended to a bucket.
LEMMA AccPlace ==
    ASSUME NEW n \in Nat, NEW slots \in [1 .. n -> Node], NEW free \in Seq(1 .. n),
           NEW B \in Buckets(n), NEW X, NEW s \in X, Acc(n, slots, free, B, X),
           NEW l0 \in Lv, NEW b0 \in Bk
    PROVE  Acc(n, slots, free, [B EXCEPT ![l0][b0] = Append(@, s)], X \ {s})
<1> DEFINE B2 == [B EXCEPT ![l0][b0] = Append(@, s)]
           m == Len(B[l0][b0])
<1>0. s \in 1 .. n /\ slots[s].live /\ X \subseteq 1 .. n
  BY DEF Acc
<1>1. \A l \in Lv, b \in Bk : B[l][b] \in Seq(1 .. n) /\ Len(B[l][b]) \in Nat
  BY DEF Buckets
<1>2. \A l \in Lv, b \in Bk :
         B2[l][b] = IF l = l0 /\ b = b0 THEN Append(B[l0][b0], s) ELSE B[l][b]
  BY DEF Buckets
<1> HIDE DEF B2
<1>3. /\ m \in Nat /\ Len(B2[l0][b0]) = m + 1 /\ B2[l0][b0][m + 1] = s
      /\ \A i \in 1 .. m : i \in 1 .. m + 1 /\ B2[l0][b0][i] = B[l0][b0][i]
      /\ \A i \in 1 .. m + 1 : i \in 1 .. m \/ i = m + 1
      /\ m + 1 \in 1 .. m + 1
  <2>1. B2[l0][b0] = Append(B[l0][b0], s) /\ B[l0][b0] \in Seq(1 .. n)
    BY <1>1, <1>2
  <2> DEFINE q == B[l0][b0]
  <2>2. q \in Seq(1 .. n) /\ B2[l0][b0] = Append(q, s) /\ m = Len(q)
    BY <2>1
  <2> HIDE DEF q, m
  <2>3. /\ Len(q) \in Nat /\ Len(Append(q, s)) = Len(q) + 1
        /\ Append(q, s)[Len(q) + 1] = s
        /\ \A i \in 1 .. Len(q) : i \in 1 .. Len(q) + 1 /\ Append(q, s)[i] = q[i]
        /\ \A i \in 1 .. Len(q) + 1 : i \in 1 .. Len(q) \/ i = Len(q) + 1
        /\ Len(q) + 1 \in 1 .. Len(q) + 1
    BY <1>0, <2>2, Appended
  <2> QED BY <2>2, <2>3 DEF q
<1> HIDE DEF m
<1>4. ASSUME NEW l \in Lv, NEW b \in Bk, NEW i \in 1 .. Len(B2[l][b])
      PROVE  \/ i \in 1 .. Len(B[l][b]) /\ B2[l][b][i] = B[l][b][i]
             \/ l = l0 /\ b = b0 /\ i = m + 1 /\ B2[l][b][i] = s
  <2>1. CASE l = l0 /\ b = b0
    BY <1>3, <2>1 DEF m
  <2>2. CASE ~(l = l0 /\ b = b0)
    <3>1. B2[l][b] = B[l][b]
      BY <1>2, <2>2
    <3> QED BY <3>1
  <2> QED BY <2>1, <2>2
<1>5. ASSUME NEW l \in Lv, NEW b \in Bk, NEW i \in 1 .. Len(B[l][b])
      PROVE  i \in 1 .. Len(B2[l][b]) /\ B2[l][b][i] = B[l][b][i]
  <2>1. CASE l = l0 /\ b = b0
    BY <1>3, <2>1 DEF m
  <2>2. CASE ~(l = l0 /\ b = b0)
    <3>1. B2[l][b] = B[l][b]
      BY <1>2, <2>2
    <3> QED BY <3>1
  <2> QED BY <2>1, <2>2
<1>6. \A l \in Lv, b \in Bk : \A i \in 1 .. Len(B[l][b]) : B[l][b][i] # s
  BY DEF Acc, QueuedLive
<1>7. QueuedLive(slots, B2, X \ {s})
  BY <1>0, <1>4 DEF Acc, QueuedLive
<1>8. QueuedOnce(B2)
  <2> SUFFICES ASSUME NEW l \in Lv, NEW k \in Lv, NEW b \in Bk, NEW c \in Bk,
                      NEW i \in 1 .. Len(B2[l][b]), NEW j \in 1 .. Len(B2[k][c]),
                      B2[l][b][i] = B2[k][c][j]
               PROVE  l = k /\ b = c /\ i = j
    BY DEF QueuedOnce
  <2>1. CASE B2[l][b][i] = s
    <3>1. l = l0 /\ b = b0 /\ i = m + 1
      BY <1>4, <1>6, <2>1, ZenonT(40)
    <3>2. k = l0 /\ c = b0 /\ j = m + 1
      <4>1. B2[k][c][j] = s
        BY <2>1
      <4> QED BY <1>4, <1>6, <4>1
    <3> QED BY <3>1, <3>2
  <2>2. CASE B2[l][b][i] # s
    <3>1. /\ i \in 1 .. Len(B[l][b]) /\ B2[l][b][i] = B[l][b][i]
          /\ j \in 1 .. Len(B[k][c]) /\ B2[k][c][j] = B[k][c][j]
      <4>1. B2[k][c][j] # s
        BY <2>2
      <4> QED BY <1>4, <2>2, <4>1
    <3>2. B[l][b][i] = B[k][c][j] /\ QueuedOnce(B)
      BY <3>1 DEF Acc
    <3> QED BY <3>1, <3>2 DEF QueuedOnce
  <2> QED BY <2>1, <2>2
<1>9. LiveQueued(n, slots, B2, X \ {s})
  <2> SUFFICES ASSUME NEW t \in 1 .. n, slots[t].live, t \notin X \ {s} PROVE Queued(B2, t)
    BY DEF LiveQueued
  <2>1. CASE t = s
    <3>1. m + 1 \in 1 .. Len(B2[l0][b0]) /\ B2[l0][b0][m + 1] = t
      BY <1>3, <2>1
    <3> QED BY <3>1, Zenon DEF Queued
  <2>2. CASE t # s
    <3>1. PICK l \in Lv, b \in Bk : \E i \in 1 .. Len(B[l][b]) : B[l][b][i] = t
      BY <2>2 DEF Acc, LiveQueued, Queued
    <3>2. PICK i \in 1 .. Len(B[l][b]) : B[l][b][i] = t
      BY <3>1
    <3>3. i \in 1 .. Len(B2[l][b]) /\ B2[l][b][i] = t
      BY <1>5, <3>2
    <3> QED BY <3>3 DEF Queued
  <2> QED BY <2>1, <2>2
<1> QED BY <1>7, <1>8, <1>9 DEF Acc, B2

\* The slots of a bucket that is drained are in hand, each once.
LEMMA AccDrain ==
    ASSUME NEW n \in Nat, NEW slots \in [1 .. n -> Node], NEW free \in Seq(1 .. n),
           NEW B \in Buckets(n), Acc(n, slots, free, B, {}),
           NEW l0 \in Lv, NEW b0 \in Bk
    PROVE  /\ Acc(n, slots, free, [B EXCEPT ![l0][b0] = <<>>], Held(B[l0][b0], 0))
           /\ Distinct(B[l0][b0])
<1> DEFINE B2 == [B EXCEPT ![l0][b0] = <<>>]
           X == {B[l0][b0][i] : i \in 1 .. Len(B[l0][b0])}
<1>1. \A l \in Lv, b \in Bk : B[l][b] \in Seq(1 .. n) /\ Len(B[l][b]) \in Nat
  BY DEF Buckets
<1>2. \A l \in Lv, b \in Bk :
         B2[l][b] = IF l = l0 /\ b = b0 THEN <<>> ELSE B[l][b]
  BY DEF Buckets
<1> HIDE DEF B2
<1>3. \A i \in 1 .. Len(<<>>) : FALSE
  OBVIOUS
<1>4. ASSUME NEW l \in Lv, NEW b \in Bk, NEW i \in 1 .. Len(B2[l][b])
      PROVE  ~(l = l0 /\ b = b0) /\ i \in 1 .. Len(B[l][b]) /\ B2[l][b][i] = B[l][b][i]
  BY <1>2, <1>3
<1>5. \A i, j \in 1 .. Len(B[l0][b0]) : B[l0][b0][i] = B[l0][b0][j] => i = j
  BY DEF Acc, QueuedOnce
<1>6. QueuedLive(slots, B2, X)
  <2> SUFFICES ASSUME NEW l \in Lv, NEW b \in Bk, NEW i \in 1 .. Len(B2[l][b])
               PROVE  slots[B2[l][b][i]].live /\ B2[l][b][i] \notin X
    BY DEF QueuedLive
  <2>1. ~(l = l0 /\ b = b0) /\ i \in 1 .. Len(B[l][b]) /\ B2[l][b][i] = B[l][b][i]
    BY <1>4
  <2>2. \A j \in 1 .. Len(B[l0][b0]) : B[l0][b0][j] # B[l][b][i]
    BY <2>1 DEF Acc, QueuedOnce
  <2> QED BY <2>1, <2>2 DEF Acc, QueuedLive
<1>7. QueuedOnce(B2)
  BY <1>4 DEF Acc, QueuedOnce
<1>8. LiveQueued(n, slots, B2, X)
  <2> SUFFICES ASSUME NEW t \in 1 .. n, slots[t].live, t \notin X PROVE Queued(B2, t)
    BY DEF LiveQueued
  <2>1. PICK l \in Lv, b \in Bk : \E i \in 1 .. Len(B[l][b]) : B[l][b][i] = t
    BY DEF Acc, LiveQueued, Queued
  <2>2. ~(l = l0 /\ b = b0)
    BY <2>1
  <2> QED BY <1>2, <2>1, <2>2 DEF Queued
<1>9. X \subseteq {t \in 1 .. n : slots[t].live}
  <2>1. \A i \in 1 .. Len(B[l0][b0]) : B[l0][b0][i] \in 1 .. n
    BY <1>1
  <2> QED BY <2>1 DEF Acc, QueuedLive
<1>10. Held(B[l0][b0], 0) = X
  BY <1>1, HeldEnds
<1>11. Acc(n, slots, free, B2, X)
  BY <1>6, <1>7, <1>8, <1>9 DEF Acc
<1> HIDE DEF X
<1> QED BY <1>5, <1>10, <1>11 DEF Distinct, B2

-----------------------------------------------------------------------------
\* The fate of an id: how often it was fired, and whether it is pending.

Ids(n) == [slot : 1 .. n, generation : Nat]

Count(f, id) == Cardinality({k \in DOMAIN f : f[k] = id})

Tally(w, id) == Count(w.fired, id) + (IF Matches(w, id) THEN 1 ELSE 0)

SameTally(n, v, w) == \A id \in Ids(n) : Tally(v, id) = Tally(w, id)

LEMMA Counted ==
    ASSUME NEW T, NEW f \in Seq(T), NEW x \in T, NEW id
    PROVE  /\ Count(f, id) \in Nat
           /\ Count(Append(f, x), id) = Count(f, id) + (IF x = id THEN 1 ELSE 0)
<1> DEFINE m == Len(f)
           g == Append(f, x)
           C == {k \in DOMAIN f : f[k] = id}
           D == {k \in DOMAIN g : g[k] = id}
<1>1. m \in Nat /\ DOMAIN f = 1 .. m /\ DOMAIN g = 1 .. m + 1 /\ g[m + 1] = x
      /\ \A k \in 1 .. m : g[k] = f[k]
  OBVIOUS
<1>2. IsFiniteSet(1 .. m) /\ IsFiniteSet(C)
  <2>1. IsFiniteSet(1 .. m)
    BY <1>1, FS_Interval
  <2>2. C \subseteq 1 .. m
    BY <1>1
  <2> QED BY <2>1, <2>2, FS_Subset
<1>3. Cardinality(C) \in Nat
  BY <1>2, FS_CardinalityType
<1>4. \A k \in 1 .. m + 1 : k \in 1 .. m \/ k = m + 1
  BY <1>1
<1>5. \A k \in 1 .. m : k \in 1 .. m + 1
  BY <1>1
<1>6. m + 1 \notin C /\ m + 1 \in 1 .. m + 1
  BY <1>1
<1> HIDE DEF m, g
<1>7. CASE x = id
  <2>1. D = C \cup {m + 1}
    BY <1>1, <1>4, <1>5, <1>6, <1>7
  <2>2. Cardinality(C \cup {m + 1}) = Cardinality(C) + 1
    BY <1>2, <1>6, FS_AddElement
  <2> QED BY <1>3, <1>7, <2>1, <2>2 DEF Count, g
<1>8. CASE x # id
  <2>1. D = C
    BY <1>1, <1>4, <1>5, <1>8
  <2>2. Count(f, id) = Cardinality(C) /\ Count(g, id) = Cardinality(D)
    BY DEF Count
  <2> HIDE DEF C, D
  <2> QED BY <1>3, <1>8, <2>1, <2>2 DEF g
<1> QED BY <1>7, <1>8

\* What taking one slot does to each field, and that no id loses its fate.
LEMMA TakeSlotStep ==
    ASSUME NEW n \in Nat, NEW w \in WheelOf(n), NEW s \in 1 .. n
    PROVE  LET v == TakeSlot(w, s) IN
           /\ v \in WheelOf(n)
           /\ v.buckets = w.buckets /\ v.generations = w.generations
           /\ v.cursors = w.cursors /\ v.last_tick = w.last_tick
           /\ w.slots[s].live => /\ v.slots = [w.slots EXCEPT ![s] = NoNode]
                                 /\ v.free_list = Append(w.free_list, s)
           /\ \A k \in 1 .. Len(v.fired) :
                 v.fired[k].slot = s \/ \E j \in 1 .. Len(w.fired) : w.fired[j] = v.fired[k]
           /\ SameTally(n, v, w)
<1> DEFINE v == TakeSlot(w, s)
           id0 == [slot |-> s, generation |-> w.slots[s].generation]
<1>1. NoNode \in Node /\ ~NoNode.live
  BY DEF NoNode, Node
<1>2. id0 \in Ids(n) /\ w.slots[s] \in Node
  BY DEF WheelOf, Node, Ids
<1>3. Append(w.free_list, s) \in Seq(1 .. n) /\ w.fired \in Seq(Ids(n))
  BY DEF WheelOf, Ids
<1>4. Append(w.fired, id0) \in Seq(Ids(n))
  BY <1>2, <1>3
<1>5. [w.slots EXCEPT ![s] = NoNode] \in [1 .. n -> Node]
  BY <1>1 DEF WheelOf
<1>6. CASE ~w.slots[s].live
  BY <1>6 DEF TakeSlot, SameTally
<1>7. CASE w.slots[s].live
  <2>1. /\ v.slots = [w.slots EXCEPT ![s] = NoNode]
        /\ v.free_list = Append(w.free_list, s)
        /\ v.fired = IF w.slots[s].cancelled THEN w.fired ELSE Append(w.fired, id0)
        /\ v.buckets = w.buckets /\ v.generations = w.generations
        /\ v.cursors = w.cursors /\ v.last_tick = w.last_tick
    BY <1>7 DEF TakeSlot, WheelOf
  <2>2. v \in WheelOf(n)
    BY <1>3, <1>4, <1>5, <1>7 DEF TakeSlot, WheelOf, Ids
  <2> HIDE DEF v
  <2>3. DOMAIN w.slots = 1 .. n /\ DOMAIN v.slots = 1 .. n
    BY <2>2 DEF WheelOf
  <2>4. ASSUME NEW id \in Ids(n) PROVE Tally(v, id) = Tally(w, id)
    <3>1. id.slot \in 1 .. n /\ id.generation \in Nat
      BY DEF Ids
    <3>2. id = id0 <=> id.slot = s /\ id.generation = w.slots[s].generation
      BY DEF Ids
    <3>3. v.slots[id.slot] = IF id.slot = s THEN NoNode ELSE w.slots[id.slot]
      BY <2>1, <2>3, <3>1
    <3>4. Matches(v, id) <=> Matches(w, id) /\ id.slot # s
      BY <1>1, <2>3, <3>1, <3>3 DEF Matches
    <3>5. Matches(w, id) /\ id.slot = s <=> id = id0 /\ ~w.slots[s].cancelled
      BY <1>7, <2>3, <3>1, <3>2 DEF Matches
    <3>6. Count(w.fired, id) \in Nat
          /\ Count(Append(w.fired, id0), id) = Count(w.fired, id) + (IF id0 = id THEN 1 ELSE 0)
      BY <1>2, <1>3, Counted
    <3>7. CASE w.slots[s].cancelled
      <4>1. v.fired = w.fired /\ (Matches(v, id) <=> Matches(w, id))
        BY <2>1, <3>4, <3>5, <3>7
      <4> QED BY <4>1 DEF Tally
    <3>8. CASE ~w.slots[s].cancelled
      <4>1. v.fired = Append(w.fired, id0)
        BY <2>1, <3>8
      <4> HIDE DEF id0
      <4> QED BY <3>4, <3>5, <3>6, <3>8, <4>1 DEF Tally
    <3> QED BY <3>7, <3>8
  <2>5. \A k \in 1 .. Len(v.fired) :
           v.fired[k].slot = s \/ \E j \in 1 .. Len(w.fired) : w.fired[j] = v.fired[k]
    BY <1>2, <1>3, <2>1, Appended
  <2> QED BY <2>1, <2>2, <2>4, <2>5 DEF SameTally, v
<1> QED BY <1>6, <1>7

\* Re-hashing one slot: it is freed if it is a tombstone, else queued again.
LEMMA RehashStep ==
    ASSUME NEW n \in Nat, NEW w \in WheelOf(n), NEW s \in 1 .. n
    PROVE  LET v == Rehash(w, s) IN
           /\ v \in WheelOf(n)
           /\ v.generations = w.generations /\ v.fired = w.fired
           /\ v.cursors = w.cursors /\ v.last_tick = w.last_tick
           /\ w.slots[s].live =>
                 \/ /\ v.slots = [w.slots EXCEPT ![s] = NoNode]
                    /\ v.free_list = Append(w.free_list, s)
                    /\ v.buckets = w.buckets
                 \/ LET f == w.slots[s].fire_at
                        at == w.last_tick * TICK
                    IN  /\ f \in Nat /\ at \in Nat
                        /\ HashLevel(f, at) \in Lv /\ HashBucket(w, f, at) \in Bk
                        /\ AddedTo(v, w, s, HashLevel(f, at), HashBucket(w, f, at))
           /\ SameTally(n, v, w)
<1> DEFINE v == Rehash(w, s)
<1>1. NoNode \in Node /\ ~NoNode.live
  BY DEF NoNode, Node
<1>2. w.slots[s] \in Node /\ w.slots[s].fire_at \in Nat /\ w.last_tick * TICK \in Nat
  <2>1. w.last_tick \in Nat /\ w.slots[s] \in Node
    BY DEF WheelOf
  <2>2. TICK \in Nat
    BY WheelShape
  <2> QED BY <2>1, <2>2 DEF Node
<1>3. Append(w.free_list, s) \in Seq(1 .. n)
  BY DEF WheelOf
<1>4. [w.slots EXCEPT ![s] = NoNode] \in [1 .. n -> Node]
  BY <1>1 DEF WheelOf
<1>5. CASE ~w.slots[s].live
  BY <1>5 DEF Rehash, SameTally
<1>6. CASE w.slots[s].live /\ w.slots[s].cancelled
  <2>1. /\ v.slots = [w.slots EXCEPT ![s] = NoNode]
        /\ v.free_list = Append(w.free_list, s) /\ v.fired = w.fired
        /\ v.buckets = w.buckets /\ v.generations = w.generations
        /\ v.cursors = w.cursors /\ v.last_tick = w.last_tick
    BY <1>6 DEF Rehash, WheelOf
  <2>2. v \in WheelOf(n)
    BY <1>3, <1>4, <1>6 DEF Rehash, WheelOf
  <2> HIDE DEF v
  <2>3. DOMAIN w.slots = 1 .. n /\ DOMAIN v.slots = 1 .. n
    BY <2>2 DEF WheelOf
  <2>4. ASSUME NEW id \in Ids(n) PROVE Tally(v, id) = Tally(w, id)
    <3>1. id.slot \in 1 .. n
      BY DEF Ids
    <3>2. v.slots[id.slot] = IF id.slot = s THEN NoNode ELSE w.slots[id.slot]
      BY <2>1, <2>3, <3>1
    <3>3. Matches(v, id) <=> Matches(w, id)
      BY <1>1, <1>6, <2>3, <3>1, <3>2 DEF Matches
    <3> QED BY <2>1, <3>3 DEF Tally
  <2> QED BY <2>1, <2>2, <2>4 DEF SameTally, v
<1>7. CASE w.slots[s].live /\ ~w.slots[s].cancelled
  <2> DEFINE f == w.slots[s].fire_at
             at == w.last_tick * TICK
  <2>1. v = Place(w, s, f, at)
    BY <1>7 DEF Rehash
  <2>2. f \in Nat /\ at \in Nat
    BY <1>2
  <2> HIDE DEF f, at, v
  <2>3. /\ HashLevel(f, at) \in Lv /\ HashBucket(w, f, at) \in Bk
        /\ v \in WheelOf(n) /\ AddedTo(v, w, s, HashLevel(f, at), HashBucket(w, f, at))
    BY <2>1, <2>2, PlaceStep
  <2>4. SameTally(n, v, w)
    BY <2>3 DEF SameTally, Tally, Matches, AddedTo
  <2>5. /\ v.generations = w.generations /\ v.fired = w.fired
        /\ v.cursors = w.cursors /\ v.last_tick = w.last_tick
    BY <2>3 DEF AddedTo
  <2> QED BY <2>2, <2>3, <2>4, <2>5 DEF f, at, v
<1> QED BY <1>5, <1>6, <1>7

-----------------------------------------------------------------------------
\* Draining a bucket.

\* The loop of TakeAll runs, within the wheels of n slots.
LEMMA TakeAllRun ==
    ASSUME NEW n \in Nat, NEW w \in WheelOf(n), NEW q \in Seq(1 .. n)
    PROVE  \E g \in [0 .. Len(q) -> WheelOf(n)] :
              /\ g[0] = w /\ TakeAll(w, q) = g[Len(q)]
              /\ \A k \in 1 .. Len(q) : g[k] = TakeSlot(g[k - 1], q[k])
<1> DEFINE m == Len(q)
           S == WheelOf(n)
           F == [k \in 1 .. m |-> [v \in S |-> TakeSlot(v, q[k])]]
           Loop(f) == f = [k \in 0 .. m |-> IF k = 0 THEN w ELSE TakeSlot(f[k - 1], q[k])]
           g == CHOOSE f : Loop(f)
<1>1. m \in Nat /\ w \in S /\ \A k \in 1 .. m : q[k] \in 1 .. n
  OBVIOUS
<1>2. Steps(F, m, S)
  <2>1. \A k \in 1 .. m, v \in S : TakeSlot(v, q[k]) \in S
    BY <1>1, TakeSlotStep
  <2> QED BY <2>1 DEF Steps
<1>3. \A k \in 1 .. m, v \in S : F[k][v] = TakeSlot(v, q[k])
  OBVIOUS
<1>4. TakeAll(w, q) = g[m]
  BY DEF TakeAll
<1> HIDE DEF F, S, m
<1>5. PICK f : IsRun(f, F, m, S, w)
  BY <1>1, <1>2, Iterates
<1>6. Loop(f)
  <2>1. ASSUME NEW k \in 1 .. m PROVE f[k] = TakeSlot(f[k - 1], q[k])
    <3>1. k - 1 \in 0 .. m
      BY <1>1
    <3>2. f[k - 1] \in S /\ f[k] = F[k][f[k - 1]]
      BY <1>5, <3>1 DEF IsRun
    <3> QED BY <1>3, <3>2
  <2>2. \A k \in 0 .. m : k = 0 \/ k \in 1 .. m
    BY <1>1
  <2>3. \A k \in 0 .. m : f[k] = IF k = 0 THEN w ELSE TakeSlot(f[k - 1], q[k])
    BY <1>5, <2>1, <2>2 DEF IsRun
  <2>4. f = [k \in 0 .. m |-> f[k]]
    BY <1>5 DEF IsRun
  <2> QED BY <2>3, <2>4
<1>7. Loop(g)
  BY <1>6
<1> HIDE DEF g
<1>8. /\ g = [k \in 0 .. m |-> g[k]] /\ g[0] = w
      /\ \A k \in 1 .. m : g[k] = TakeSlot(g[k - 1], q[k])
  <2> DEFINE E == [k \in 0 .. m |-> IF k = 0 THEN w ELSE TakeSlot(g[k - 1], q[k])]
  <2>1. g = E
    BY <1>7
  <2>2. E = [k \in 0 .. m |-> E[k]] /\ \A k \in 0 .. m : E[k] = IF k = 0 THEN w ELSE TakeSlot(g[k - 1], q[k])
    OBVIOUS
  <2> HIDE DEF E
  <2>3. 0 \in 0 .. m /\ \A k \in 1 .. m : k # 0 /\ k \in 0 .. m
    BY <1>1
  <2> QED BY <2>1, <2>2, <2>3
<1>9. \A k \in 1 .. m : g[k - 1] \in S => g[k] = F[k][g[k - 1]]
  BY <1>3, <1>8
<1>10. IsRun(g, F, m, S, w)
  BY <1>1, <1>2, <1>8, <1>9, RunOf
<1> QED BY <1>4, <1>8, <1>10 DEF IsRun, S, m

\* The loop of RehashAll runs, within the wheels of n slots.
LEMMA RehashAllRun ==
    ASSUME NEW n \in Nat, NEW w \in WheelOf(n), NEW q \in Seq(1 .. n)
    PROVE  \E g \in [0 .. Len(q) -> WheelOf(n)] :
              /\ g[0] = w /\ RehashAll(w, q) = g[Len(q)]
              /\ \A k \in 1 .. Len(q) : g[k] = Rehash(g[k - 1], q[k])
<1> DEFINE m == Len(q)
           S == WheelOf(n)
           F == [k \in 1 .. m |-> [v \in S |-> Rehash(v, q[k])]]
           Loop(f) == f = [k \in 0 .. m |-> IF k = 0 THEN w ELSE Rehash(f[k - 1], q[k])]
           g == CHOOSE f : Loop(f)
<1>1. m \in Nat /\ w \in S /\ \A k \in 1 .. m : q[k] \in 1 .. n
  OBVIOUS
<1>2. Steps(F, m, S)
  <2>1. \A k \in 1 .. m, v \in S : Rehash(v, q[k]) \in S
    BY <1>1, RehashStep
  <2> QED BY <2>1 DEF Steps
<1>3. \A k \in 1 .. m, v \in S : F[k][v] = Rehash(v, q[k])
  OBVIOUS
<1>4. RehashAll(w, q) = g[m]
  BY DEF RehashAll
<1> HIDE DEF F, S, m
<1>5. PICK f : IsRun(f, F, m, S, w)
  BY <1>1, <1>2, Iterates
<1>6. Loop(f)
  <2>1. ASSUME NEW k \in 1 .. m PROVE f[k] = Rehash(f[k - 1], q[k])
    <3>1. k - 1 \in 0 .. m
      BY <1>1
    <3>2. f[k - 1] \in S /\ f[k] = F[k][f[k - 1]]
      BY <1>5, <3>1 DEF IsRun
    <3> QED BY <1>3, <3>2
  <2>2. \A k \in 0 .. m : k = 0 \/ k \in 1 .. m
    BY <1>1
  <2>3. \A k \in 0 .. m : f[k] = IF k = 0 THEN w ELSE Rehash(f[k - 1], q[k])
    BY <1>5, <2>1, <2>2 DEF IsRun
  <2>4. f = [k \in 0 .. m |-> f[k]]
    BY <1>5 DEF IsRun
  <2> QED BY <2>3, <2>4
<1>7. Loop(g)
  BY <1>6
<1> HIDE DEF g
<1>8. /\ g = [k \in 0 .. m |-> g[k]] /\ g[0] = w
      /\ \A k \in 1 .. m : g[k] = Rehash(g[k - 1], q[k])
  <2> DEFINE E == [k \in 0 .. m |-> IF k = 0 THEN w ELSE Rehash(g[k - 1], q[k])]
  <2>1. g = E
    BY <1>7
  <2>2. E = [k \in 0 .. m |-> E[k]] /\ \A k \in 0 .. m : E[k] = IF k = 0 THEN w ELSE Rehash(g[k - 1], q[k])
    OBVIOUS
  <2> HIDE DEF E
  <2>3. 0 \in 0 .. m /\ \A k \in 1 .. m : k # 0 /\ k \in 0 .. m
    BY <1>1
  <2> QED BY <2>1, <2>2, <2>3
<1>9. \A k \in 1 .. m : g[k - 1] \in S => g[k] = F[k][g[k - 1]]
  BY <1>3, <1>8
<1>10. IsRun(g, F, m, S, w)
  BY <1>1, <1>2, <1>8, <1>9, RunOf
<1> QED BY <1>4, <1>8, <1>10 DEF IsRun, S, m

-----------------------------------------------------------------------------
\* Arithmetic of the cursors.

LEMMA DivUnique ==
    ASSUME NEW m \in Nat \ {0}, NEW a \in Int, NEW b \in Int,
           NEW r \in 0 .. m - 1, NEW s \in 0 .. m - 1, m * a + r = m * b + s
    PROVE  a = b /\ r = s
<1>1. m * (a - b) = s - r
  OBVIOUS
<1>2. CASE a > b
  <2>1. a - b >= 1
    BY <1>2
  <2>2. m * (a - b) >= m
    BY <2>1
  <2> QED BY <1>1, <2>2
<1>3. CASE a < b
  <2>1. b - a >= 1
    BY <1>3
  <2>2. m * (b - a) >= m
    BY <2>1
  <2>3. m * (a - b) = - (m * (b - a))
    OBVIOUS
  <2> QED BY <1>1, <2>2, <2>3
<1>4. CASE a = b
  BY <1>1, <1>4
<1> QED BY <1>2, <1>3, <1>4

LEMMA ModAdd ==
    ASSUME NEW m \in Nat \ {0}, NEW x \in Nat, NEW y \in Nat
    PROVE  ((x % m) + y) % m = (x + y) % m
<1> DEFINE q == x \div m
           r == x % m
           z == r + y
           u == x + y
<1>1. q \in Nat /\ r \in 0 .. m - 1 /\ x = m * q + r
  BY DivMod
<1>2. z \in Nat /\ u \in Nat
  BY <1>1
<1> HIDE DEF q, r
<1>3. u = m * q + z
  BY <1>1
<1> HIDE DEF z, u
<1>4. z % m \in 0 .. m - 1 /\ z \div m \in Nat /\ z = m * (z \div m) + (z % m)
  BY <1>2, DivMod
<1>5. u % m \in 0 .. m - 1 /\ u \div m \in Nat /\ u = m * (u \div m) + (u % m)
  BY <1>2, DivMod
<1> DEFINE a == q + (z \div m)
           b == u \div m
           c == z % m
           d == u % m
<1>6. m * a + c = m * b + d
  <2>1. m * (q + (z \div m)) = m * q + m * (z \div m)
    BY <1>1, <1>4
  <2> QED BY <1>1, <1>3, <1>4, <1>5, <2>1
<1>7. a \in Int /\ b \in Int /\ c \in 0 .. m - 1 /\ d \in 0 .. m - 1
  BY <1>1, <1>4, <1>5
<1> HIDE DEF a, b, c, d
<1>8. c = d
  BY <1>6, <1>7, DivUnique
<1> QED BY <1>8 DEF z, u, r, c, d

LEMMA ModSame ==
    ASSUME NEW m \in Nat \ {0}, NEW x \in Nat, NEW y \in Nat,
           x % m = y % m, x <= y, y < x + m
    PROVE  x = y
<1> DEFINE a == x \div m
           b == y \div m
           r == x % m
           d == y - x
<1>1. a \in Nat /\ r \in 0 .. m - 1 /\ x = m * a + r
  BY DivMod
<1>2. b \in Nat /\ y = m * b + r
  BY DivMod
<1>3. d \in 0 .. m - 1
  OBVIOUS
<1> HIDE DEF a, b, r
<1>4. m * (b - a) = m * b - m * a
  BY <1>1, <1>2
<1>5. m * (b - a) + 0 = m * 0 + d
  BY <1>1, <1>2, <1>4
<1>6. b - a \in Int /\ 0 \in Int /\ 0 \in 0 .. m - 1
  BY <1>1, <1>2
<1> HIDE DEF d
<1>7. d = 0
  BY <1>3, <1>5, <1>6, DivUnique
<1> QED BY <1>7 DEF d

\* A count of steps that follows one of m times as many: when the faster one
\* moves on, it reaches the next multiple of m exactly when it wraps.
LEMMA Wraps ==
    ASSUME NEW m \in Nat \ {0}, NEW p \in Nat, NEW x \in Nat,
           p * m <= x, x < (p + 1) * m
    PROVE  /\ (x + 1) % m = 0 => x + 1 = (p + 1) * m
           /\ (x + 1) % m # 0 => p * m <= x + 1 /\ x + 1 < (p + 1) * m
<1> DEFINE y == x + 1
           b == y \div m
           r == y % m
<1>0. y \in Nat
  OBVIOUS
<1> HIDE DEF y
<1>1. y \in Nat /\ b \in Nat /\ r \in 0 .. m - 1 /\ y = m * b + r
  BY <1>0, DivMod
<1>2. (p + 1) * m = m * p + m /\ p * m = m * p /\ m * p \in Nat
  OBVIOUS
<1>3. y <= m * p + m /\ m * p <= y /\ m * p < y
  BY <1>2 DEF y
<1>4. CASE y = m * p + m
  <2>1. m * (p + 1) + 0 = m * b + r
    BY <1>1, <1>2, <1>4
  <2>2. p + 1 \in Int /\ b \in Int /\ 0 \in 0 .. m - 1
    BY <1>1
  <2> HIDE DEF b, r
  <2>3. r = 0
    BY <1>1, <2>1, <2>2, DivUnique
  <2> QED BY <1>2, <1>4, <2>3 DEF r, y
<1>5. CASE y < m * p + m
  <2> DEFINE s == y - m * p
  <2>1. s \in 0 .. m - 1 /\ m * p + s = y
    BY <1>1, <1>2, <1>3, <1>5
  <2>2. m * p + s = m * b + r
    BY <1>1, <2>1
  <2>3. p \in Int /\ b \in Int
    BY <1>1
  <2>5. s # 0
    BY <1>2, <1>3, <2>1
  <2> HIDE DEF b, r, s
  <2>4. r = s
    BY <1>1, <2>1, <2>2, <2>3, DivUnique
  <2> QED BY <1>2, <1>3, <1>5, <2>4, <2>5 DEF r, y
<1> QED BY <1>1, <1>2, <1>3, <1>4, <1>5

-----------------------------------------------------------------------------
\* When the bucket of a queued slot is visited.  P[l] is the number of steps
\* the cursor of level l has taken.  The terms t of the timers give each slot
\* its deadline `fire`, the last tick `due` at which it may still be pending,
\* and the set `soft` of the slots that must not fire a tick too early.

Terms(n) == [fire : [1 .. n -> Nat], due : [1 .. n -> Nat], soft : SUBSET (1 .. n)]

\* The m-th step of the cursor of level l is a right time to visit slot s: at
\* level 0 its timer fires then, at the others it is re-hashed.
RightVisit(l, s, m, t) ==
    IF l = 0 THEN m <= t.due[s] + 1 /\ (s \in t.soft => t.fire[s] <= (m + 1) * TICK)
             ELSE m * Span[l] <= t.fire[s] \div TICK

Entry(l, b, s, P, t) ==
    \E m \in Nat : /\ m % BUCKETS = b /\ P[l] < m
                   /\ l = 0 => m < P[0] + BUCKETS
                   /\ RightVisit(l, s, m, t)

Sched(B, P, t) ==
    \A l \in Lv, b \in Bk : \A i \in 1 .. Len(B[l][b]) : Entry(l, b, B[l][b][i], P, t)

\* The cursors after P steps, none of them ahead of the wheel's time.
Clock(w, P) ==
    /\ P \in [Lv -> Nat] /\ P[0] = w.last_tick
    /\ \A l \in Lv : w.cursors[l] = P[l] % BUCKETS /\ P[l] * Span[l] <= w.last_tick

\* Every slot is due at its deadline or later.
DueLater(n, t) == \A s \in 1 .. n : t.fire[s] \div TICK <= t.due[s]

LEMMA Shape ==
    /\ TICK \in Nat \ {0} /\ BUCKETS \in Nat /\ BUCKETS > 1 /\ LEVELS \in Nat /\ LEVELS > 1
    /\ BUCKETS \in Nat \ {0} /\ 0 \in Lv
    /\ \A l \in Lv : l \in Nat /\ Span[l] \in Nat \ {0}
    /\ Span[0] = 1
    /\ \A l \in Lv : l # 0 => l - 1 \in Lv /\ Span[l] = BUCKETS * Span[l - 1]
<1>1. /\ TICK \in Nat \ {0} /\ BUCKETS \in Nat /\ BUCKETS > 1 /\ LEVELS \in Nat /\ LEVELS > 1
      /\ BUCKETS \in Nat \ {0}
  BY WheelShape
<1>2. /\ Span \in [0 .. LEVELS -> Nat \ {0}] /\ Span[0] = 1
      /\ \A l \in 1 .. LEVELS : Span[l] = BUCKETS * Span[l - 1]
  BY <1>1, SpanRuns
<1>3. \A l \in Lv : l \in Nat /\ l \in 0 .. LEVELS /\ (l # 0 => l \in 1 .. LEVELS /\ l - 1 \in Lv)
  BY <1>1 DEF Lv
<1>4. 0 \in Lv
  BY <1>1 DEF Lv
<1> QED BY <1>1, <1>2, <1>3, <1>4

\* A slot that is hashed within its terms is queued where it is visited in time.
LEMMA HashIsTimely ==
    ASSUME NEW n \in Nat, NEW w \in WheelOf(n), NEW s \in 1 .. n, NEW P, Clock(w, P),
           NEW t \in Terms(n), DueLater(n, t),
           NEW fire_at \in Nat, NEW at \in Nat,
           NEW d \in Nat, d = SatSub(fire_at, at) \div TICK,
           w.last_tick <= t.due[s],
           d # 0 => w.last_tick + d <= t.fire[s] \div TICK,
           s \in t.soft => t.fire[s] <= (w.last_tick + Max2(1, d) + 1) * TICK
    PROVE  Entry(HashLevel(fire_at, at), HashBucket(w, fire_at, at), s, P, t)
<1> DEFINE l == HashLevel(fire_at, at)
           off == HashOffset(fire_at, at)
           b == HashBucket(w, fire_at, at)
           m == P[l] + off
           T == w.last_tick
           f == t.fire[s] \div TICK
<1>1. /\ l \in Lv /\ off \in 1 .. BUCKETS - 1
      /\ l = 0 => off = Max2(1, d)
      /\ l # 0 => off * Span[l] <= d
  <2> DEFINE lb == LevelAndBucketOffset(d)
  <2>1. /\ lb \in Lv \X (1 .. BUCKETS - 1)
        /\ lb[1] = 0 => lb[2] = Max2(1, d)
        /\ lb[1] # 0 => lb[2] * Span[lb[1]] <= d
    BY OffsetFits
  <2>2. l = lb[1] /\ off = lb[2]
    BY DEF HashLevel, HashOffset
  <2> HIDE DEF lb, l, off
  <2> QED BY <2>1, <2>2
<1>2. b = (w.cursors[l] + off) % BUCKETS
  BY DEF HashBucket
<1>3. /\ P[l] \in Nat /\ P[0] = T /\ T \in Nat /\ w.cursors[l] = P[l] % BUCKETS
      /\ P[l] * Span[l] <= T
  BY <1>1 DEF Clock, WheelOf
<1>4. /\ t.fire[s] \in Nat /\ t.due[s] \in Nat /\ f <= t.due[s] /\ f \in Nat
  <2>1. t.fire[s] \in Nat /\ t.due[s] \in Nat
    BY DEF Terms
  <2> QED BY <2>1, Shape, DivMod DEF DueLater
<1> HIDE DEF l, off, b, T, f
<1>5. off \in Nat /\ off >= 1 /\ off < BUCKETS /\ BUCKETS \in Nat \ {0}
  BY <1>1, Shape
<1>6. m \in Nat /\ P[l] < m
  BY <1>3, <1>5
<1>7. m % BUCKETS = b
  BY <1>2, <1>3, <1>5, ModAdd
<1>8. l = 0 => m < P[0] + BUCKETS
  BY <1>3, <1>5
<1>9. RightVisit(l, s, m, t)
  <2>1. CASE l = 0
    <3>1. m = T + Max2(1, d)
      BY <1>1, <1>3, <2>1
    <3>2. Max2(1, d) \in Nat /\ (d = 0 => Max2(1, d) = 1) /\ (d # 0 => Max2(1, d) = d)
      BY DEF Max2
    <3>3. T <= t.due[s] /\ (d # 0 => T + d <= f)
      BY DEF T, f
    <3>4. m <= t.due[s] + 1
      BY <1>3, <1>4, <3>1, <3>2, <3>3
    <3>5. s \in t.soft => t.fire[s] <= (m + 1) * TICK
      BY <3>1 DEF T
    <3> QED BY <2>1, <3>4, <3>5 DEF RightVisit
  <2>2. CASE l # 0
    <3> DEFINE sp == Span[l]
    <3>1. sp \in Nat /\ sp >= 1 /\ off * sp <= d /\ P[l] * sp <= T
      BY <1>1, <1>3, <2>2, Shape
    <3> HIDE DEF sp
    <3>2. off * sp >= 1 /\ off * sp \in Nat
      BY <1>5, <3>1
    <3>3. d # 0
      BY <3>1, <3>2
    <3>4. T + d <= f
      BY <3>3 DEF T, f
    <3>5. (P[l] + off) * sp = P[l] * sp + off * sp /\ P[l] * sp \in Nat
      BY <1>3, <1>5, <3>1
    <3>6. m * sp <= f
      BY <1>3, <1>4, <3>1, <3>2, <3>4, <3>5
    <3> QED BY <2>2, <3>6 DEF RightVisit, sp, f
  <2> QED BY <2>1, <2>2
<1> QED BY <1>6, <1>7, <1>8, <1>9 DEF Entry, l, b

\* A slot is appended to a bucket whose visit is right for it.
LEMMA SchedPlace ==
    ASSUME NEW n \in Nat, NEW B \in Buckets(n), NEW s \in 1 .. n, NEW P, NEW t,
           NEW l0 \in Lv, NEW b0 \in Bk, Sched(B, P, t), Entry(l0, b0, s, P, t)
    PROVE  Sched([B EXCEPT ![l0][b0] = Append(@, s)], P, t)
<1> DEFINE B2 == [B EXCEPT ![l0][b0] = Append(@, s)]
<1>1. \A l \in Lv, b \in Bk :
         B2[l][b] = IF l = l0 /\ b = b0 THEN Append(B[l0][b0], s) ELSE B[l][b]
  BY DEF Buckets
<1> HIDE DEF B2
<1> SUFFICES ASSUME NEW l \in Lv, NEW b \in Bk, NEW i \in 1 .. Len(B2[l][b])
             PROVE  Entry(l, b, B2[l][b][i], P, t)
  BY DEF Sched, B2
<1>2. CASE ~(l = l0 /\ b = b0)
  <2>1. B2[l][b] = B[l][b]
    BY <1>1, <1>2
  <2> QED BY <2>1 DEF Sched
<1>3. CASE l = l0 /\ b = b0
  <2> DEFINE q == B[l0][b0]
  <2>1. q \in Seq(1 .. n) /\ B2[l][b] = Append(q, s)
    BY <1>1, <1>3 DEF Buckets
  <2>2. \A j \in 1 .. Len(q) : Entry(l, b, q[j], P, t)
    BY <1>3 DEF Sched
  <2> HIDE DEF q
  <2>3. Len(Append(q, s)) = Len(q) + 1 /\ Append(q, s)[Len(q) + 1] = s
        /\ (\A j \in 1 .. Len(q) : Append(q, s)[j] = q[j])
        /\ (\A j \in 1 .. Len(q) + 1 : j \in 1 .. Len(q) \/ j = Len(q) + 1)
    BY <2>1, Appended
  <2>4. CASE i \in 1 .. Len(q)
    BY <2>1, <2>2, <2>3, <2>4
  <2>5. CASE i = Len(q) + 1
    BY <1>3, <2>1, <2>3, <2>5
  <2> QED BY <2>1, <2>3, <2>4, <2>5
<1> QED BY <1>2, <1>3

\* The cursor of level l0 takes a step and the bucket it reaches is drained: the
\* other slots keep their visit, the drained ones are visited at the right time.
LEMMA SchedStep ==
    ASSUME NEW n \in Nat, NEW B \in Buckets(n), NEW P \in [Lv -> Nat], NEW t \in Terms(n),
           NEW l0 \in Lv, Sched(B, P, t), NEW c, c = (P[l0] + 1) % BUCKETS
    PROVE  /\ c \in Bk
           /\ Sched([B EXCEPT ![l0][c] = <<>>], [P EXCEPT ![l0] = @ + 1], t)
           /\ \A i \in 1 .. Len(B[l0][c]) : RightVisit(l0, B[l0][c][i], P[l0] + 1, t)
<1> DEFINE B2 == [B EXCEPT ![l0][c] = <<>>]
           Q == [P EXCEPT ![l0] = @ + 1]
           x == P[l0] + 1
<1>0. x \in Nat /\ BUCKETS \in Nat \ {0}
  BY Shape
<1>1. c \in Bk
  BY <1>0, DivMod DEF Bk
<1>2. \A l \in Lv, b \in Bk : B2[l][b] = IF l = l0 /\ b = c THEN <<>> ELSE B[l][b]
  BY <1>1 DEF Buckets
<1>3. \A l \in Lv : Q[l] = IF l = l0 THEN x ELSE P[l]
  OBVIOUS
<1>4. 0 \in Lv
  BY Shape
<1>5. \A i \in 1 .. Len(<<>>) : FALSE
  OBVIOUS
<1> HIDE DEF B2, Q
<1>6. ASSUME NEW l \in Lv, NEW b \in Bk, NEW i \in 1 .. Len(B2[l][b])
      PROVE  Entry(l, b, B2[l][b][i], Q, t)
  <2>1. ~(l = l0 /\ b = c) /\ B2[l][b] = B[l][b]
    BY <1>2, <1>5
  <2> DEFINE s == B[l][b][i]
  <2>2. PICK m \in Nat : /\ m % BUCKETS = b /\ P[l] < m
                         /\ l = 0 => m < P[0] + BUCKETS
                         /\ RightVisit(l, s, m, t)
    BY <2>1 DEF Sched, Entry
  <2>3. Q[l] < m
    <3>1. CASE l # l0
      BY <1>3, <2>2, <3>1
    <3>2. CASE l = l0
      <4>1. m # x
        BY <2>1, <2>2, <3>2
      <4> QED BY <1>3, <2>2, <3>2, <4>1
    <3> QED BY <3>1, <3>2
  <2>4. l = 0 => m < Q[0] + BUCKETS
    <3>1. Q[0] >= P[0] /\ Q[0] \in Nat /\ P[0] \in Nat
      BY <1>3, <1>4
    <3> QED BY <1>0, <2>2, <3>1
  <2> QED BY <2>1, <2>2, <2>3, <2>4 DEF Entry
<1>7. ASSUME NEW i \in 1 .. Len(B[l0][c]) PROVE RightVisit(l0, B[l0][c][i], x, t)
  <2> DEFINE s == B[l0][c][i]
  <2>1. PICK m \in Nat : /\ m % BUCKETS = c /\ P[l0] < m
                         /\ l0 = 0 => m < P[0] + BUCKETS
                         /\ RightVisit(l0, s, m, t)
    BY <1>1 DEF Sched, Entry
  <2>2. s \in 1 .. n
    BY <1>1 DEF Buckets
  <2> HIDE DEF s, x
  <2>3. x <= m /\ x % BUCKETS = m % BUCKETS /\ x = P[l0] + 1 /\ P[l0] \in Nat
    BY <2>1 DEF x
  <2>4. CASE l0 = 0
    <3>1. m < x + BUCKETS
      BY <1>0, <2>1, <2>3, <2>4
    <3>2. x = m
      BY <1>0, <2>3, <3>1, ModSame
    <3> QED BY <2>1, <3>2 DEF s
  <2>5. CASE l0 # 0
    <3> DEFINE sp == Span[l0]
               f == t.fire[s] \div TICK
    <3>1. sp \in Nat
      BY Shape
    <3>2. m * sp <= f
      BY <2>1, <2>5 DEF RightVisit
    <3>3. f \in Nat
      <4>1. t.fire[s] \in Nat
        BY <2>2 DEF Terms
      <4> QED BY <4>1, Shape, DivMod
    <3> HIDE DEF sp, f
    <3>4. m * sp = x * sp + (m - x) * sp /\ (m - x) * sp \in Nat /\ x * sp \in Nat
      BY <1>0, <2>3, <3>1, SMTT(30)
    <3>5. x * sp <= f
      BY <3>2, <3>3, <3>4
    <3> QED BY <2>5, <3>5 DEF RightVisit, sp, f, s
  <2> QED BY <2>4, <2>5
<1>8. Sched(B2, Q, t)
  BY <1>6 DEF Sched
<1> QED BY <1>1, <1>7, <1>8 DEF B2, Q

-----------------------------------------------------------------------------
\* The sweep of a bucket, slot after slot.

\* Slots are freed, never filled or changed, by a sweep.
Survives(n, v, w) == \A s \in 1 .. n : v.slots[s].live => v.slots[s] = w.slots[s]

\* No timer that was fired so far came more than a tick early.
Fires(w, t) ==
    \A k \in 1 .. Len(w.fired) :
        w.fired[k].slot \in t.soft => t.fire[w.fired[k].slot] <= (w.last_tick + 1) * TICK

LEMMA HeldStep ==
    ASSUME NEW n \in Nat, NEW q \in Seq(1 .. n), Distinct(q), NEW k \in 1 .. Len(q)
    PROVE  q[k] \in Held(q, k - 1) /\ Held(q, k) = Held(q, k - 1) \ {q[k]}
<1> DEFINE m == Len(q)
<1>1. m \in Nat
  OBVIOUS
<1>2. k \in (k - 1) + 1 .. m
  BY <1>1
<1>3. \A j \in k + 1 .. m : j \in (k - 1) + 1 .. m /\ j # k /\ j \in 1 .. m
  BY <1>1
<1>4. \A j \in (k - 1) + 1 .. m : j # k => j \in k + 1 .. m
  BY <1>1
<1>5. \A j \in 1 .. m : j # k => q[j] # q[k]
  BY DEF Distinct
<1> HIDE DEF m
<1>6. Held(q, k) = {q[j] : j \in k + 1 .. m} /\ Held(q, k - 1) = {q[j] : j \in (k - 1) + 1 .. m}
  BY DEF Held, m
<1> QED BY <1>2, <1>3, <1>4, <1>5, <1>6

LEMMA TakeAllKeeps ==
    ASSUME NEW n \in Nat, NEW w \in WheelOf(n), NEW q \in Seq(1 .. n), Distinct(q),
           NEW D \in Buckets(n), Acc(n, w.slots, w.free_list, D, Held(q, 0)),
           NEW t \in Terms(n), Fires(w, t),
           \A i \in 1 .. Len(q) : RightVisit(0, q[i], w.last_tick, t)
    PROVE  LET v == TakeAll(w, q) IN
           /\ v \in WheelOf(n)
           /\ v.buckets = w.buckets /\ v.generations = w.generations
           /\ v.cursors = w.cursors /\ v.last_tick = w.last_tick
           /\ SameTally(n, v, w) /\ Survives(n, v, w) /\ Fires(v, t)
           /\ Acc(n, v.slots, v.free_list, D, {})
<1> DEFINE m == Len(q)
           Good(v, k) ==
              /\ v.buckets = w.buckets /\ v.generations = w.generations
              /\ v.cursors = w.cursors /\ v.last_tick = w.last_tick
              /\ SameTally(n, v, w) /\ Survives(n, v, w) /\ Fires(v, t)
              /\ Acc(n, v.slots, v.free_list, D, Held(q, k))
<1>1. PICK g \in [0 .. m -> WheelOf(n)] :
              /\ g[0] = w /\ TakeAll(w, q) = g[m]
              /\ \A k \in 1 .. m : g[k] = TakeSlot(g[k - 1], q[k])
  BY TakeAllRun
<1> DEFINE G == {k \in 0 .. m : Good(g[k], k)}
<1>2. m \in Nat
  OBVIOUS
<1>3. 0 \in G
  <2>1. Good(w, 0)
    BY DEF SameTally, Survives
  <2> QED BY <1>1, <1>2, <2>1
<1>4. ASSUME NEW k \in 1 .. m, k - 1 \in G PROVE k \in G
  <2> DEFINE u == g[k - 1]
             v == g[k]
             s == q[k]
  <2>1. k - 1 \in 0 .. m /\ k \in 0 .. m
    BY <1>2
  <2>2. u \in WheelOf(n) /\ v = TakeSlot(u, s) /\ s \in 1 .. n /\ Good(u, k - 1)
    <3>1. s \in 1 .. n
      OBVIOUS
    <3> HIDE DEF Good
    <3>3. u \in WheelOf(n)
      BY <1>1, <2>1
    <3>4. v = TakeSlot(u, s)
      BY <1>1
    <3>2. Good(u, k - 1)
      BY <1>4
    <3> QED BY <3>1, <3>2, <3>3, <3>4
  <2>R. RightVisit(0, s, w.last_tick, t)
    OBVIOUS
  <2>H. s \in Held(q, k - 1) /\ Held(q, k) = Held(q, k - 1) \ {s}
    BY HeldStep
  <2> HIDE DEF u, v, s, Good, G
  <2>3. /\ u.slots \in [1 .. n -> Node] /\ u.free_list \in Seq(1 .. n)
        /\ u.last_tick = w.last_tick
        /\ Acc(n, u.slots, u.free_list, D, Held(q, k - 1))
    BY <2>2 DEF WheelOf, Good
  <2>4. u.slots[s].live
    BY <2>2, <2>3, <2>H DEF Acc
  <2>5. /\ v \in WheelOf(n)
        /\ v.buckets = u.buckets /\ v.generations = u.generations
        /\ v.cursors = u.cursors /\ v.last_tick = u.last_tick
        /\ v.slots = [u.slots EXCEPT ![s] = NoNode]
        /\ v.free_list = Append(u.free_list, s)
        /\ SameTally(n, v, u)
        /\ \A j \in 1 .. Len(v.fired) :
              v.fired[j].slot = s \/ \E i \in 1 .. Len(u.fired) : u.fired[i] = v.fired[j]
    <3>1. LET x == TakeSlot(u, s) IN
          /\ x \in WheelOf(n)
          /\ x.buckets = u.buckets /\ x.generations = u.generations
          /\ x.cursors = u.cursors /\ x.last_tick = u.last_tick
          /\ u.slots[s].live => /\ x.slots = [u.slots EXCEPT ![s] = NoNode]
                                /\ x.free_list = Append(u.free_list, s)
          /\ \A j \in 1 .. Len(x.fired) :
                x.fired[j].slot = s \/ \E i \in 1 .. Len(u.fired) : u.fired[i] = x.fired[j]
          /\ SameTally(n, x, u)
      BY <2>2, TakeSlotStep, Zenon
    <3> QED BY <2>2, <2>4, <3>1
  <2>6. Acc(n, v.slots, v.free_list, D, Held(q, k))
    <3>1. Acc(n, [u.slots EXCEPT ![s] = NoNode], Append(u.free_list, s), D, Held(q, k - 1) \ {s})
      BY <2>3, <2>H, AccFree, Zenon
    <3> QED BY <2>5, <2>H, <3>1
  <2>7. SameTally(n, v, w)
    BY <2>2, <2>5 DEF SameTally, Good
  <2>8. Survives(n, v, w)
    <3>1. \A x \in 1 .. n : v.slots[x] = IF x = s THEN NoNode ELSE u.slots[x]
      BY <2>2, <2>3, <2>5
    <3>2. ~NoNode.live
      BY DEF NoNode
    <3> QED BY <2>2, <3>1, <3>2 DEF Survives, Good
  <2>9. Fires(v, t)
    <3>1. s \in t.soft => t.fire[s] <= (v.last_tick + 1) * TICK
      BY <2>3, <2>5, <2>R DEF RightVisit
    <3>2. Fires(u, t)
      BY <2>2 DEF Good
    <3> QED BY <2>5, <3>1, <3>2 DEF Fires
  <2>10. Good(v, k)
    BY <2>2, <2>5, <2>6, <2>7, <2>8, <2>9 DEF Good
  <2> QED BY <2>1, <2>10 DEF G, v
<1> HIDE DEF G
<1>5. \A k \in 0 .. m : k \in G
  BY <1>2, <1>3, <1>4, UpTo
<1>6. Good(g[m], m) /\ g[m] \in WheelOf(n)
  <2>1. m \in 0 .. m
    BY <1>2
  <2> QED BY <1>1, <1>5, <2>1 DEF G
<1>7. Held(q, m) = {}
  BY HeldEnds
<1> QED BY <1>1, <1>6, <1>7

LEMMA Product ==
    ASSUME NEW a \in Nat, NEW b \in Nat, NEW m \in Nat, a <= b
    PROVE  a * m <= b * m /\ a * m \in Nat /\ b * m \in Nat
<1>1. b = a + (b - a) /\ b - a \in Nat
  OBVIOUS
<1>2. b * m = a * m + (b - a) * m /\ (b - a) * m \in Nat /\ a * m \in Nat
  BY <1>1
<1> QED BY <1>2

LEMMA DivBounds ==
    ASSUME NEW x \in Nat, NEW m \in Nat \ {0}
    PROVE  /\ x \div m \in Nat
           /\ (x \div m) * m <= x /\ x < (x \div m + 1) * m
           /\ \A y \in Nat : y * m <= x => y <= x \div m
<1> DEFINE q == x \div m
           r == x % m
<1>1. q \in Nat /\ r \in 0 .. m - 1 /\ x = m * q + r
  BY DivMod
<1> HIDE DEF q, r
<1>2. q * m <= x /\ x < (q + 1) * m
  BY <1>1
<1>3. ASSUME NEW y \in Nat, y * m <= x, ~(y <= q) PROVE FALSE
  <2>1. q + 1 <= y /\ q + 1 \in Nat
    BY <1>1, <1>3
  <2>2. (q + 1) * m <= y * m
    BY <2>1, Product
  <2> QED BY <1>1, <1>2, <1>3, <2>2
<1> QED BY <1>1, <1>2, <1>3 DEF q

\* The delay of a deadline that is seen from tick T, not later than its own.
LEMMA TickDelay ==
    ASSUME NEW f \in Nat, NEW T \in Nat, T <= f \div TICK,
           NEW d, d = SatSub(f, T * TICK) \div TICK
    PROVE  /\ d \in Nat /\ T + d <= f \div TICK
           /\ f <= (T + Max2(1, d) + 1) * TICK
<1> DEFINE k == TICK
           F == f \div TICK
           x == f - T * k
<1>0. k \in Nat \ {0}
  BY Shape
<1>1. F \in Nat /\ F * k <= f /\ \A y \in Nat : y * k <= f => y <= F
  BY <1>0, DivBounds
<1>2. T * k <= F * k /\ T * k \in Nat /\ F * k \in Nat
  BY <1>0, <1>1, Product
<1>3. x \in Nat /\ SatSub(f, T * TICK) = x
  BY <1>1, <1>2 DEF SatSub
<1>4. d = x \div k
  BY <1>3
<1> HIDE DEF x, k, F
<1>5. d \in Nat /\ d * k <= x /\ x < (d + 1) * k
  BY <1>0, <1>3, <1>4, DivBounds
<1>6. (T + d) * k = T * k + d * k /\ d * k \in Nat /\ (T + d) * k \in Nat
  BY <1>0, <1>5
<1>7. (T + d) * k <= f
  BY <1>2, <1>3, <1>5, <1>6 DEF x
<1>8. T + d <= F
  BY <1>1, <1>5, <1>7
<1>9. (T + d + 1) * k = T * k + (d + 1) * k /\ (d + 1) * k \in Nat
  BY <1>0, <1>5
<1>10. f <= (T + d + 1) * k
  BY <1>2, <1>3, <1>5, <1>9 DEF x
<1>11. Max2(1, d) \in Nat /\ T + d + 1 <= T + Max2(1, d) + 1
  BY <1>5 DEF Max2
<1>12. (T + d + 1) * k <= (T + Max2(1, d) + 1) * k /\ (T + d + 1) * k \in Nat
       /\ (T + Max2(1, d) + 1) * k \in Nat
  <2> DEFINE a == T + d + 1
             b == T + Max2(1, d) + 1
  <2>1. a \in Nat /\ b \in Nat /\ a <= b
    BY <1>5, <1>11
  <2> HIDE DEF a, b
  <2>2. a * k <= b * k /\ a * k \in Nat /\ b * k \in Nat
    BY <1>0, <2>1, Product
  <2> QED BY <2>2 DEF a, b
<1> QED BY <1>5, <1>8, <1>10, <1>12 DEF F, k

\* The deadlines of the occupied slots are those of the terms.
Agrees(n, w, t) == \A s \in 1 .. n : w.slots[s].live => w.slots[s].fire_at = t.fire[s]

LEMMA RehashAllKeeps ==
    ASSUME NEW n \in Nat, NEW w \in WheelOf(n), NEW q \in Seq(1 .. n), Distinct(q),
           Acc(n, w.slots, w.free_list, w.buckets, Held(q, 0)),
           NEW t \in Terms(n), DueLater(n, t), Agrees(n, w, t),
           NEW P, Clock(w, P), Sched(w.buckets, P, t),
           \A i \in 1 .. Len(q) : w.last_tick <= t.fire[q[i]] \div TICK
    PROVE  LET v == RehashAll(w, q) IN
           /\ v \in WheelOf(n)
           /\ v.generations = w.generations /\ v.fired = w.fired
           /\ v.cursors = w.cursors /\ v.last_tick = w.last_tick
           /\ SameTally(n, v, w) /\ Survives(n, v, w)
           /\ Acc(n, v.slots, v.free_list, v.buckets, {})
           /\ Sched(v.buckets, P, t)
<1> DEFINE m == Len(q)
           Good(v, k) ==
              /\ v.generations = w.generations /\ v.fired = w.fired
              /\ v.cursors = w.cursors /\ v.last_tick = w.last_tick
              /\ SameTally(n, v, w) /\ Survives(n, v, w)
              /\ Acc(n, v.slots, v.free_list, v.buckets, Held(q, k))
              /\ Sched(v.buckets, P, t)
<1>1. PICK g \in [0 .. m -> WheelOf(n)] :
              /\ g[0] = w /\ RehashAll(w, q) = g[m]
              /\ \A k \in 1 .. m : g[k] = Rehash(g[k - 1], q[k])
  BY RehashAllRun
<1> DEFINE G == {k \in 0 .. m : Good(g[k], k)}
<1>2. m \in Nat
  OBVIOUS
<1>3. 0 \in G
  <2>1. Good(w, 0)
    BY DEF SameTally, Survives
  <2> QED BY <1>1, <1>2, <2>1
<1>4. ASSUME NEW k \in 1 .. m, k - 1 \in G PROVE k \in G
  <2> DEFINE u == g[k - 1]
             v == g[k]
             s == q[k]
             f == u.slots[s].fire_at
             at == u.last_tick * TICK
  <2>1. k - 1 \in 0 .. m /\ k \in 0 .. m
    BY <1>2
  <2>R. w.last_tick <= t.fire[s] \div TICK
    OBVIOUS
  <2>H. s \in Held(q, k - 1) /\ Held(q, k) = Held(q, k - 1) \ {s}
    BY HeldStep
  <2>2. u \in WheelOf(n) /\ v = Rehash(u, s) /\ s \in 1 .. n /\ Good(u, k - 1)
    <3>1. s \in 1 .. n
      OBVIOUS
    <3> HIDE DEF Good
    <3>2. Good(u, k - 1)
      BY <1>4
    <3>3. u \in WheelOf(n)
      BY <1>1, <2>1
    <3>4. v = Rehash(u, s)
      BY <1>1
    <3> QED BY <3>1, <3>2, <3>3, <3>4
  <2> HIDE DEF u, v, s, Good, G
  <2>3. /\ u.slots \in [1 .. n -> Node] /\ u.free_list \in Seq(1 .. n)
        /\ u.buckets \in Buckets(n) /\ u.last_tick = w.last_tick /\ u.cursors = w.cursors
        /\ u.last_tick \in Nat
        /\ Acc(n, u.slots, u.free_list, u.buckets, Held(q, k - 1))
        /\ Sched(u.buckets, P, t)
    BY <2>2 DEF WheelOf, Good, Buckets
  <2>4. u.slots[s].live
    BY <2>2, <2>3, <2>H DEF Acc
  <2>5. LET x == Rehash(u, s) IN
           /\ x \in WheelOf(n)
           /\ x.generations = u.generations /\ x.fired = u.fired
           /\ x.cursors = u.cursors /\ x.last_tick = u.last_tick
           /\ u.slots[s].live =>
                 \/ /\ x.slots = [u.slots EXCEPT ![s] = NoNode]
                    /\ x.free_list = Append(u.free_list, s)
                    /\ x.buckets = u.buckets
                 \/ /\ f \in Nat /\ at \in Nat
                    /\ HashLevel(f, at) \in Lv /\ HashBucket(u, f, at) \in Bk
                    /\ AddedTo(x, u, s, HashLevel(f, at), HashBucket(u, f, at))
           /\ SameTally(n, x, u)
    BY <2>2, RehashStep, Zenon
  <2> HIDE DEF f, at
  <2>6. /\ v \in WheelOf(n)
        /\ v.generations = u.generations /\ v.fired = u.fired
        /\ v.cursors = u.cursors /\ v.last_tick = u.last_tick
        /\ SameTally(n, v, u)
    BY <2>2, <2>5
  <2>7. SameTally(n, v, w)
    BY <2>2, <2>6 DEF SameTally, Good
  <2>8. CASE /\ v.slots = [u.slots EXCEPT ![s] = NoNode]
             /\ v.free_list = Append(u.free_list, s)
             /\ v.buckets = u.buckets
    <3>1. Acc(n, [u.slots EXCEPT ![s] = NoNode], Append(u.free_list, s), u.buckets,
              Held(q, k - 1) \ {s})
      BY <2>3, <2>H, AccFree, Zenon
    <3>2. Acc(n, v.slots, v.free_list, v.buckets, Held(q, k))
      BY <2>8, <2>H, <3>1
    <3>3. \A x \in 1 .. n : v.slots[x] = IF x = s THEN NoNode ELSE u.slots[x]
      BY <2>2, <2>3, <2>8
    <3>4. ~NoNode.live
      BY DEF NoNode
    <3>5. Survives(n, v, w)
      BY <2>2, <3>3, <3>4 DEF Survives, Good
    <3>6. Good(v, k)
      BY <2>2, <2>3, <2>6, <2>7, <2>8, <3>2, <3>5 DEF Good
    <3> QED BY <2>1, <3>6 DEF G, v
  <2>9. CASE /\ f \in Nat /\ at \in Nat
             /\ HashLevel(f, at) \in Lv /\ HashBucket(u, f, at) \in Bk
             /\ AddedTo(v, u, s, HashLevel(f, at), HashBucket(u, f, at))
    <3> DEFINE l == HashLevel(f, at)
               b == HashBucket(u, f, at)
               T == u.last_tick
               d == SatSub(f, at) \div TICK
    <3>1. v.slots = u.slots /\ v.free_list = u.free_list
          /\ v.buckets = [u.buckets EXCEPT ![l][b] = Append(@, s)]
      BY <2>9 DEF AddedTo
    <3>2. f = t.fire[s]
      BY <2>2, <2>4 DEF Survives, Agrees, Good, f
    <3>3. T \in Nat /\ T <= f \div TICK /\ at = T * TICK
      BY <2>3, <2>R, <3>2 DEF at
    <3> HIDE DEF T
    <3>4. /\ d \in Nat /\ T + d <= f \div TICK
          /\ f <= (T + Max2(1, d) + 1) * TICK
      BY <2>9, <3>3, TickDelay
    <3>5. Clock(u, P)
      BY <2>3 DEF Clock
    <3>6. u.last_tick <= t.due[s]
      <4>1. t.fire[s] \div TICK <= t.due[s] /\ t.due[s] \in Nat
        BY <2>2 DEF DueLater, Terms
      <4>2. f \div TICK \in Nat
        BY <2>9, Shape, DivMod
      <4> QED BY <3>2, <3>3, <4>1, <4>2 DEF T
    <3>7. d = SatSub(f, at) \div TICK
      OBVIOUS
    <3>8. d # 0 => u.last_tick + d <= t.fire[s] \div TICK
      BY <3>2, <3>4 DEF T
    <3>9. s \in t.soft => t.fire[s] <= (u.last_tick + Max2(1, d) + 1) * TICK
      BY <3>2, <3>4 DEF T
    <3> HIDE DEF d
    <3>10. Entry(l, b, s, P, t)
      BY <2>2, <2>9, <3>4, <3>5, <3>6, <3>7, <3>8, <3>9, HashIsTimely
    <3> HIDE DEF l, b
    <3>11. l \in Lv /\ b \in Bk
      BY <2>9 DEF l, b
    <3>12. Sched(v.buckets, P, t)
      <4>1. Sched([u.buckets EXCEPT ![l][b] = Append(@, s)], P, t)
        BY <2>2, <2>3, <3>10, <3>11, SchedPlace, Zenon
      <4> QED BY <3>1, <4>1
    <3>13. Acc(n, u.slots, u.free_list, [u.buckets EXCEPT ![l][b] = Append(@, s)],
               Held(q, k - 1) \ {s})
      BY <2>3, <2>H, <3>11, AccPlace, Zenon
    <3>14. Acc(n, v.slots, v.free_list, v.buckets, Held(q, k))
      BY <2>H, <3>1, <3>13
    <3>15. Survives(n, v, w)
      BY <2>2, <3>1 DEF Survives, Good
    <3>16. Good(v, k)
      BY <2>2, <2>3, <2>6, <2>7, <3>12, <3>14, <3>15 DEF Good
    <3> QED BY <2>1, <3>16 DEF G, v
  <2> QED BY <2>2, <2>4, <2>5, <2>8, <2>9
<1> HIDE DEF G
<1>5. \A k \in 0 .. m : k \in G
  BY <1>2, <1>3, <1>4, UpTo
<1>6. Good(g[m], m) /\ g[m] \in WheelOf(n)
  <2>1. m \in 0 .. m
    BY <1>2
  <2> QED BY <1>1, <1>5, <2>1 DEF G
<1>7. Held(q, m) = {}
  BY HeldEnds
<1> QED BY <1>1, <1>6, <1>7

-----------------------------------------------------------------------------
\* The cascade.

Sound(n, w, P, t) ==
    /\ w \in WheelOf(n)
    /\ Acc(n, w.slots, w.free_list, w.buckets, {})
    /\ Clock(w, P)
    /\ Sched(w.buckets, P, t)
    /\ Agrees(n, w, t)

\* What no cascade changes.
Frame(n, v, w) ==
    /\ v.generations = w.generations /\ v.fired = w.fired /\ v.last_tick = w.last_tick
    /\ SameTally(n, v, w) /\ Survives(n, v, w)

\* The step of the cursor of one level, before its bucket is re-hashed.
Drained(w, level, c) == [w EXCEPT !.cursors[level] = c, !.buckets[level][c] = <<>>]

LEMMA DrainedType ==
    ASSUME NEW n \in Nat, NEW w \in WheelOf(n), NEW level \in Lv, NEW c \in Bk
    PROVE  LET v == Drained(w, level, c) IN
           /\ v \in WheelOf(n)
           /\ v.slots = w.slots /\ v.generations = w.generations
           /\ v.free_list = w.free_list /\ v.last_tick = w.last_tick /\ v.fired = w.fired
           /\ v.cursors = [w.cursors EXCEPT ![level] = c]
           /\ v.buckets = [w.buckets EXCEPT ![level][c] = <<>>]
           /\ w.buckets \in Buckets(n) /\ w.buckets[level][c] \in Seq(1 .. n)
           /\ w.slots \in [1 .. n -> Node] /\ w.free_list \in Seq(1 .. n)
<1> DEFINE B2 == [w.buckets EXCEPT ![level][c] = <<>>]
           C2 == [w.cursors EXCEPT ![level] = c]
<1>1. w.buckets \in Buckets(n) /\ w.buckets[level][c] \in Seq(1 .. n)
      /\ w.slots \in [1 .. n -> Node] /\ w.free_list \in Seq(1 .. n)
  BY DEF WheelOf, Buckets
<1>2. B2 \in [Lv -> [Bk -> Seq(1 .. n)]]
  <2>1. <<>> \in Seq(1 .. n)
    OBVIOUS
  <2> QED BY <1>1, <2>1 DEF Buckets
<1>3. C2 \in [Lv -> Bk]
  BY DEF WheelOf
<1>4. Drained(w, level, c) \in WheelOf(n)
  BY <1>2, <1>3 DEF Drained, WheelOf
<1>5. LET v == Drained(w, level, c) IN
           /\ v.slots = w.slots /\ v.generations = w.generations
           /\ v.free_list = w.free_list /\ v.last_tick = w.last_tick /\ v.fired = w.fired
           /\ v.cursors = C2 /\ v.buckets = B2
  BY DEF Drained, WheelOf
<1> QED BY <1>1, <1>4, <1>5

\* The bucket that a cursor reaches.
LEMMA NextBucket ==
    ASSUME NEW n \in Nat, NEW w \in WheelOf(n), NEW level \in Lv
    PROVE  /\ (w.cursors[level] + 1) % BUCKETS \in Bk
           /\ \A P : Clock(w, P) => /\ P \in [Lv -> Nat]
                                    /\ (w.cursors[level] + 1) % BUCKETS = (P[level] + 1) % BUCKETS
<1>0. BUCKETS \in Nat \ {0} /\ 1 \in Nat
  BY Shape
<1>1. w.cursors[level] + 1 \in Nat
  <2>1. w.cursors[level] \in Bk
    BY DEF WheelOf
  <2> QED BY <2>1 DEF Bk
<1>2. (w.cursors[level] + 1) % BUCKETS \in Bk
  BY <1>0, <1>1, DivMod DEF Bk
<1>3. ASSUME NEW P, Clock(w, P)
      PROVE  P \in [Lv -> Nat] /\ (w.cursors[level] + 1) % BUCKETS = (P[level] + 1) % BUCKETS
  <2>1. P \in [Lv -> Nat] /\ P[level] \in Nat /\ w.cursors[level] = P[level] % BUCKETS
    BY <1>3 DEF Clock
  <2>2. ((P[level] % BUCKETS) + 1) % BUCKETS = (P[level] + 1) % BUCKETS
    BY <1>0, <2>1, ModAdd
  <2> QED BY <2>1, <2>2
<1> QED BY <1>2, <1>3

LEMMA CascadeLevelType ==
    ASSUME NEW n \in Nat, NEW w \in WheelOf(n), NEW level \in Lv
    PROVE  CascadeLevel(w, level) \in WheelOf(n)
<1> DEFINE c == (w.cursors[level] + 1) % BUCKETS
           q == w.buckets[level][c]
           v == Drained(w, level, c)
<1>1. c \in Bk
  BY NextBucket
<1>2. CascadeLevel(w, level) = RehashAll(v, q)
  BY DEF CascadeLevel, Drained
<1> HIDE DEF c
<1>3. v \in WheelOf(n) /\ q \in Seq(1 .. n)
  BY <1>1, DrainedType
<1> HIDE DEF v, q
<1>4. PICK g \in [0 .. Len(q) -> WheelOf(n)] : RehashAll(v, q) = g[Len(q)]
  BY <1>3, RehashAllRun
<1>5. Len(q) \in 0 .. Len(q)
  BY <1>3
<1> QED BY <1>2, <1>4, <1>5

\* One level cascades, at a tick that is a multiple of its span.
LEMMA CascadeLevelKeeps ==
    ASSUME NEW n \in Nat, NEW w, NEW P, NEW t \in Terms(n), DueLater(n, t),
           Sound(n, w, P, t), NEW level \in Lv, level # 0,
           (P[level] + 1) * Span[level] = w.last_tick
    PROVE  LET v == CascadeLevel(w, level)
               Q == [P EXCEPT ![level] = @ + 1]
           IN  /\ Sound(n, v, Q, t)
               /\ Frame(n, v, w)
               /\ v.cursors = [w.cursors EXCEPT ![level] = (P[level] + 1) % BUCKETS]
<1> DEFINE c == (w.cursors[level] + 1) % BUCKETS
           q == w.buckets[level][c]
           u == Drained(w, level, c)
           v == CascadeLevel(w, level)
           Q == [P EXCEPT ![level] = @ + 1]
<1>0. w \in WheelOf(n) /\ Clock(w, P)
  BY DEF Sound
<1>1. c \in Bk /\ c = (P[level] + 1) % BUCKETS /\ P \in [Lv -> Nat]
  BY <1>0, NextBucket
<1>2. v = RehashAll(u, q)
  BY DEF CascadeLevel, Drained
<1> HIDE DEF c, v
<1>c. c \in Bk
  BY <1>1
<1>3. /\ u \in WheelOf(n) /\ q \in Seq(1 .. n)
      /\ u.slots = w.slots /\ u.generations = w.generations
      /\ u.free_list = w.free_list /\ u.last_tick = w.last_tick /\ u.fired = w.fired
      /\ u.cursors = [w.cursors EXCEPT ![level] = c]
      /\ u.buckets = [w.buckets EXCEPT ![level][c] = <<>>]
      /\ w.buckets \in Buckets(n)
      /\ w.slots \in [1 .. n -> Node] /\ w.free_list \in Seq(1 .. n)
  <2>1. LET x == Drained(w, level, c) IN
           /\ x \in WheelOf(n)
           /\ x.slots = w.slots /\ x.generations = w.generations
           /\ x.free_list = w.free_list /\ x.last_tick = w.last_tick /\ x.fired = w.fired
           /\ x.cursors = [w.cursors EXCEPT ![level] = c]
           /\ x.buckets = [w.buckets EXCEPT ![level][c] = <<>>]
           /\ w.buckets \in Buckets(n) /\ w.buckets[level][c] \in Seq(1 .. n)
           /\ w.slots \in [1 .. n -> Node] /\ w.free_list \in Seq(1 .. n)
    BY <1>0, <1>c, DrainedType, Zenon
  <2> QED BY <2>1, Zenon
<1> HIDE DEF u
<1>4. /\ Acc(n, u.slots, u.free_list, u.buckets, Held(q, 0))
      /\ Distinct(q)
  <2>1. Acc(n, w.slots, w.free_list, w.buckets, {})
    BY DEF Sound
  <2>2. /\ Acc(n, w.slots, w.free_list, [w.buckets EXCEPT ![level][c] = <<>>], Held(q, 0))
        /\ Distinct(q)
    BY <1>c, <1>3, <2>1, AccDrain, Zenon
  <2> QED BY <1>3, <2>2
<1>5. /\ Sched(u.buckets, Q, t)
      /\ \A i \in 1 .. Len(q) : RightVisit(level, q[i], P[level] + 1, t)
  <2>1. Sched(w.buckets, P, t)
    BY DEF Sound
  <2>2. /\ Sched([w.buckets EXCEPT ![level][c] = <<>>], [P EXCEPT ![level] = @ + 1], t)
        /\ \A i \in 1 .. Len(w.buckets[level][c]) :
              RightVisit(level, w.buckets[level][c][i], P[level] + 1, t)
    BY <1>1, <1>3, <2>1, SchedStep, Zenon
  <2> QED BY <1>3, <2>2
<1>6. Clock(u, Q)
  <2>1. Q \in [Lv -> Nat] /\ Q[0] = P[0] /\ 0 \in Lv
        /\ \A l \in Lv : Q[l] = IF l = level THEN P[l] + 1 ELSE P[l]
    BY <1>1, Shape
  <2>2. \A l \in Lv : u.cursors[l] = IF l = level THEN c ELSE w.cursors[l]
    BY <1>0, <1>3 DEF WheelOf
  <2>3. w.last_tick \in Nat
    BY <1>0 DEF WheelOf
  <2> HIDE DEF Q
  <2> QED BY <1>0, <1>1, <1>3, <2>1, <2>2, <2>3 DEF Clock
<1>7. \A i \in 1 .. Len(q) : u.last_tick <= t.fire[q[i]] \div TICK
  BY <1>3, <1>5 DEF RightVisit
<1>8. Agrees(n, u, t)
  BY <1>3 DEF Sound, Agrees
<1> HIDE DEF q, Q
<1>9. LET x == RehashAll(u, q) IN
           /\ x \in WheelOf(n)
           /\ x.generations = u.generations /\ x.fired = u.fired
           /\ x.cursors = u.cursors /\ x.last_tick = u.last_tick
           /\ SameTally(n, x, u) /\ Survives(n, x, u)
           /\ Acc(n, x.slots, x.free_list, x.buckets, {})
           /\ Sched(x.buckets, Q, t)
  BY <1>3, <1>4, <1>5, <1>6, <1>7, <1>8, RehashAllKeeps, Zenon
<1>10. /\ v \in WheelOf(n)
       /\ v.generations = u.generations /\ v.fired = u.fired
       /\ v.cursors = u.cursors /\ v.last_tick = u.last_tick
       /\ SameTally(n, v, u) /\ Survives(n, v, u)
       /\ Acc(n, v.slots, v.free_list, v.buckets, {})
       /\ Sched(v.buckets, Q, t)
  BY <1>2, <1>9
<1>11. Frame(n, v, w)
  <2>1. SameTally(n, v, w)
    BY <1>3, <1>10 DEF SameTally, Tally, Matches
  <2>2. Survives(n, v, w)
    BY <1>3, <1>10 DEF Survives
  <2> QED BY <1>3, <1>10, <2>1, <2>2 DEF Frame
<1>12. Sound(n, v, Q, t)
  <2>1. Clock(v, Q)
    BY <1>6, <1>10 DEF Clock
  <2>2. Agrees(n, v, t)
    BY <1>8, <1>10 DEF Agrees, Survives
  <2> QED BY <1>10, <2>1, <2>2 DEF Sound
<1> QED BY <1>1, <1>3, <1>10, <1>11, <1>12 DEF v, Q, c

\* All cursors up to level l have just wrapped.
Hot(w, l) == \A k \in 0 .. l : w.cursors[k] = 0

\* A level's cursor takes one step for BUCKETS of the level below.
LinkAt(P, l) == P[l] * BUCKETS <= P[l - 1] /\ P[l - 1] < (P[l] + 1) * BUCKETS

Linked(P) == \A l \in Lv : l # 0 => LinkAt(P, l)

\* The cascade has dealt with the levels up to l.
Stage(w, P, l) ==
    /\ \A k \in Lv : k # 0 /\ k # l + 1 => LinkAt(P, k)
    /\ l + 1 \in Lv => IF Hot(w, l) THEN P[l] = (P[l + 1] + 1) * BUCKETS ELSE LinkAt(P, l + 1)
    /\ Hot(w, l) => P[l] * Span[l] = w.last_tick

CascadeTo(v, l) == IF Hot(v, l - 1) THEN CascadeLevel(v, l) ELSE v

LEMMA CascadeRun ==
    ASSUME NEW n \in Nat, NEW w \in WheelOf(n)
    PROVE  \E g \in [0 .. LEVELS - 1 -> WheelOf(n)] :
              /\ g[0] = w /\ Cascade(w) = g[LEVELS - 1]
              /\ \A k \in 1 .. LEVELS - 1 : g[k] = CascadeTo(g[k - 1], k)
<1> DEFINE m == LEVELS - 1
           S == WheelOf(n)
           F == [k \in 1 .. m |-> [v \in S |-> CascadeTo(v, k)]]
           Loop(f) == f = [k \in 0 .. m |-> IF k = 0 THEN w ELSE CascadeTo(f[k - 1], k)]
           g == CHOOSE f : Loop(f)
<1>1. m \in Nat /\ w \in S /\ \A k \in 1 .. m : k \in Lv
  BY Shape DEF Lv
<1>2. Steps(F, m, S)
  <2>1. \A k \in 1 .. m, v \in S : CascadeTo(v, k) \in S
    BY <1>1, CascadeLevelType DEF CascadeTo
  <2> QED BY <2>1 DEF Steps
<1>3. \A k \in 1 .. m, v \in S : F[k][v] = CascadeTo(v, k)
  OBVIOUS
<1>4. Cascade(w) = g[m]
  BY DEF Cascade, CascadeTo, Hot
<1> HIDE DEF F, S, m
<1>5. PICK f : IsRun(f, F, m, S, w)
  BY <1>1, <1>2, Iterates
<1>6. Loop(f)
  <2>1. ASSUME NEW k \in 1 .. m PROVE f[k] = CascadeTo(f[k - 1], k)
    <3>1. k - 1 \in 0 .. m
      BY <1>1
    <3>2. f[k - 1] \in S /\ f[k] = F[k][f[k - 1]]
      BY <1>5, <3>1 DEF IsRun
    <3> QED BY <1>3, <3>2
  <2>2. \A k \in 0 .. m : k = 0 \/ k \in 1 .. m
    BY <1>1
  <2>3. \A k \in 0 .. m : f[k] = IF k = 0 THEN w ELSE CascadeTo(f[k - 1], k)
    BY <1>5, <2>1, <2>2 DEF IsRun
  <2>4. f = [k \in 0 .. m |-> f[k]]
    BY <1>5 DEF IsRun
  <2> QED BY <2>3, <2>4
<1>7. Loop(g)
  BY <1>6
<1> HIDE DEF g
<1>8. /\ g = [k \in 0 .. m |-> g[k]] /\ g[0] = w
      /\ \A k \in 1 .. m : g[k] = CascadeTo(g[k - 1], k)
  <2> DEFINE E == [k \in 0 .. m |-> IF k = 0 THEN w ELSE CascadeTo(g[k - 1], k)]
  <2>1. g = E
    BY <1>7
  <2>2. E = [k \in 0 .. m |-> E[k]] /\ \A k \in 0 .. m : E[k] = IF k = 0 THEN w ELSE CascadeTo(g[k - 1], k)
    OBVIOUS
  <2> HIDE DEF E
  <2>3. 0 \in 0 .. m /\ \A k \in 1 .. m : k # 0 /\ k \in 0 .. m
    BY <1>1
  <2> QED BY <2>1, <2>2, <2>3
<1>9. \A k \in 1 .. m : g[k - 1] \in S => g[k] = F[k][g[k - 1]]
  BY <1>3, <1>8
<1>10. IsRun(g, F, m, S, w)
  BY <1>1, <1>2, <1>8, <1>9, RunOf
<1> QED BY <1>4, <1>8, <1>10 DEF IsRun, S, m

\* One level of the cascade.
LEMMA CascadeStep ==
    ASSUME NEW n \in Nat, NEW w, NEW P, NEW t \in Terms(n), DueLater(n, t),
           Sound(n, w, P, t), NEW l \in Lv, l # 0, Stage(w, P, l - 1)
    PROVE  \E Q : /\ Sound(n, CascadeTo(w, l), Q, t)
                  /\ Frame(n, CascadeTo(w, l), w)
                  /\ Stage(CascadeTo(w, l), Q, l)
<1>0. /\ w \in WheelOf(n) /\ P \in [Lv -> Nat] /\ Clock(w, P)
      /\ l \in Nat /\ l >= 1 /\ l - 1 \in Lv /\ (l - 1) + 1 = l
  BY Shape DEF Sound, Clock
<1>1. \A k \in 0 .. l : k \in 0 .. l - 1 \/ k = l
  BY <1>0
<1>2. \A k \in 0 .. l - 1 : k \in 0 .. l /\ k # l
  BY <1>0
<1>K. \A k \in 0 .. l - 1 : k \in Lv
  BY Shape DEF Lv
<1>N. l + 1 \in Lv => (l + 1) # l /\ (l + 1) # 0 /\ (l + 1) - 1 = l
  BY <1>0
<1>3. CASE ~Hot(w, l - 1)
  <2>1. CascadeTo(w, l) = w
    BY <1>3 DEF CascadeTo
  <2>2. ~Hot(w, l)
    BY <1>2, <1>3 DEF Hot
  <2>3. Stage(w, P, l)
    BY <1>0, <1>3, <1>N, <2>2 DEF Stage
  <2>4. Frame(n, w, w)
    BY DEF Frame, SameTally, Survives
  <2> QED BY <2>1, <2>3, <2>4
<1>4. CASE Hot(w, l - 1)
  <2> DEFINE v == CascadeLevel(w, l)
             Q == [P EXCEPT ![l] = @ + 1]
             x == P[l]
             y == P[l - 1]
             sp == Span[l - 1]
  <2>1. CascadeTo(w, l) = v
    BY <1>4 DEF CascadeTo
  <2>2. x \in Nat /\ y \in Nat /\ y = (x + 1) * BUCKETS /\ y * sp = w.last_tick
    BY <1>0, <1>4 DEF Stage
  <2>3. sp \in Nat /\ BUCKETS \in Nat \ {0} /\ Span[l] = BUCKETS * sp
    BY Shape
  <2>4. (x + 1) * Span[l] = w.last_tick
    <3> HIDE DEF x, y, sp
    <3>1. (x + 1) * (BUCKETS * sp) = ((x + 1) * BUCKETS) * sp
      BY <2>2, <2>3
    <3> QED BY <2>2, <2>3, <3>1
  <2>5. /\ Sound(n, v, Q, t) /\ Frame(n, v, w)
        /\ v.cursors = [w.cursors EXCEPT ![l] = (P[l] + 1) % BUCKETS]
    BY <2>4, CascadeLevelKeeps
  <2>6. \A k \in Lv : Q[k] = IF k = l THEN x + 1 ELSE P[k]
    BY <1>0
  <2>7. \A k \in Lv : v.cursors[k] = IF k = l THEN (x + 1) % BUCKETS ELSE w.cursors[k]
    BY <1>0, <2>5 DEF WheelOf
  <2>8. v.last_tick = w.last_tick
    BY <2>5 DEF Frame
  <2> HIDE DEF v, Q, x, y
  <2>9. Hot(v, l) <=> (x + 1) % BUCKETS = 0
    <3>1. \A k \in 0 .. l - 1 : v.cursors[k] = 0
      BY <1>2, <1>4, <1>K, <2>7 DEF Hot
    <3>2. v.cursors[l] = (x + 1) % BUCKETS /\ l \in 0 .. l
      BY <1>0, <2>7
    <3> QED BY <1>1, <3>1, <3>2 DEF Hot
  <2>10. Stage(v, Q, l)
    <3>1. ASSUME NEW k \in Lv, k # 0, k # l + 1 PROVE LinkAt(Q, k)
      <4>1. CASE k = l
        <5>1. Q[k] = x + 1 /\ Q[k - 1] = y
          BY <1>0, <2>6, <4>1 DEF y
        <5>2. (x + 1) * BUCKETS <= y /\ y < ((x + 1) + 1) * BUCKETS
          BY <2>2, <2>3
        <5> QED BY <5>1, <5>2 DEF LinkAt
      <4>2. CASE k # l
        <5>1. k - 1 # l /\ k - 1 \in Lv
          BY <1>0, <3>1, Shape
        <5>2. Q[k] = P[k] /\ Q[k - 1] = P[k - 1]
          BY <2>6, <4>2, <5>1
        <5>3. LinkAt(P, k)
          BY <1>0, <3>1, <4>2 DEF Stage
        <5> QED BY <5>2, <5>3 DEF LinkAt
      <4> QED BY <4>1, <4>2
    <3>2. ASSUME l + 1 \in Lv
          PROVE  IF Hot(v, l) THEN Q[l] = (Q[l + 1] + 1) * BUCKETS ELSE LinkAt(Q, l + 1)
      <4> DEFINE p == P[l + 1]
      <4>1. p \in Nat /\ Q[l + 1] = p /\ Q[l] = x + 1 /\ (l + 1) - 1 = l
        BY <1>0, <1>N, <2>6, <3>2
      <4>2. LinkAt(P, l + 1)
        BY <1>0, <1>N, <3>2 DEF Stage
      <4>3. p * BUCKETS <= x /\ x < (p + 1) * BUCKETS
        BY <4>1, <4>2 DEF LinkAt, x
      <4> HIDE DEF p
      <4>4. /\ (x + 1) % BUCKETS = 0 => x + 1 = (p + 1) * BUCKETS
            /\ (x + 1) % BUCKETS # 0 => p * BUCKETS <= x + 1 /\ x + 1 < (p + 1) * BUCKETS
        BY <2>2, <2>3, <4>1, <4>3, Wraps
      <4> QED BY <2>9, <4>1, <4>4 DEF LinkAt
    <3>3. Q[l] * Span[l] = v.last_tick
      BY <2>4, <2>6, <2>8
    <3> QED BY <3>1, <3>2, <3>3 DEF Stage
  <2> QED BY <2>1, <2>5, <2>10
<1> QED BY <1>3, <1>4

LEMMA CascadeKeeps ==
    ASSUME NEW n \in Nat, NEW w, NEW P, NEW t \in Terms(n), DueLater(n, t),
           Sound(n, w, P, t), Stage(w, P, 0)
    PROVE  \E Q : Sound(n, Cascade(w), Q, t) /\ Frame(n, Cascade(w), w) /\ Linked(Q)
<1> DEFINE m == LEVELS - 1
<1>0. w \in WheelOf(n) /\ m \in Nat /\ \A k \in 1 .. m : k \in Lv /\ k # 0
  BY Shape DEF Sound, Lv
<1>1. PICK g \in [0 .. m -> WheelOf(n)] :
              /\ g[0] = w /\ Cascade(w) = g[m]
              /\ \A k \in 1 .. m : g[k] = CascadeTo(g[k - 1], k)
  BY <1>0, CascadeRun
<1> DEFINE Good(v, Q, k) == Sound(n, v, Q, t) /\ Frame(n, v, w) /\ Stage(v, Q, k)
           G == {k \in 0 .. m : \E Q : Good(g[k], Q, k)}
<1>2. 0 \in G
  <2>1. Frame(n, w, w)
    BY DEF Frame, SameTally, Survives
  <2>2. Good(g[0], P, 0) /\ 0 \in 0 .. m
    BY <1>0, <1>1, <2>1
  <2> QED BY <2>2
<1>3. ASSUME NEW k \in 1 .. m, k - 1 \in G PROVE k \in G
  <2> DEFINE u == g[k - 1]
             v == g[k]
  <2>1. PICK Q : Good(u, Q, k - 1)
    BY <1>3
  <2>2. v = CascadeTo(u, k) /\ k \in Lv /\ k # 0 /\ k \in 0 .. m
    BY <1>0, <1>1
  <2>3. PICK R : Sound(n, v, R, t) /\ Frame(n, v, u) /\ Stage(v, R, k)
    BY <2>1, <2>2, CascadeStep
  <2>4. Frame(n, v, w)
    BY <2>1, <2>3 DEF Frame, SameTally, Survives
  <2> QED BY <2>2, <2>3, <2>4
<1> HIDE DEF G
<1>4. \A k \in 0 .. m : k \in G
  BY <1>0, <1>2, <1>3, UpTo
<1>5. PICK Q : Good(g[m], Q, m)
  <2>1. m \in 0 .. m
    BY <1>0
  <2> QED BY <1>4, <2>1 DEF G
<1>6. Linked(Q)
  <2>1. \A k \in Lv : k # m + 1
    BY Shape DEF Lv
  <2> QED BY <1>5, <2>1 DEF Stage, Linked
<1> QED BY <1>1, <1>5, <1>6

-----------------------------------------------------------------------------
\* One tick, and a whole call of advance.

\* What the wheel keeps from tick to tick, seen from the wheel w it started from.
Ticking(n, v, w, t) ==
    /\ \E P : Sound(n, v, P, t) /\ Linked(P)
    /\ v.generations = w.generations
    /\ SameTally(n, v, w) /\ Survives(n, v, w) /\ Fires(v, t)

LEMMA TickKeeps ==
    ASSUME NEW n \in Nat, NEW w, NEW P, NEW t \in Terms(n), DueLater(n, t),
           Sound(n, w, P, t), Linked(P), Fires(w, t)
    PROVE  Ticking(n, TickOnce(w), w, t) /\ TickOnce(w).last_tick = w.last_tick + 1
<1> DEFINE c == (w.cursors[0] + 1) % BUCKETS
           moved == [w EXCEPT !.cursors[0] = c, !.last_tick = @ + 1]
           q == moved.buckets[0][c]
           D == [w.buckets EXCEPT ![0][c] = <<>>]
           r == TakeAll(moved, q)
           swept == [r EXCEPT !.buckets[0][c] = <<>>]
           Q == [P EXCEPT ![0] = @ + 1]
           T == w.last_tick
<1>0. w \in WheelOf(n) /\ Clock(w, P) /\ 0 \in Lv /\ T \in Nat /\ P[0] = T
  BY Shape DEF Sound, WheelOf, Clock
<1>1. c \in Bk /\ c = (P[0] + 1) % BUCKETS /\ P \in [Lv -> Nat]
  BY <1>0, NextBucket
<1>2. TickOnce(w) = IF c = 0 THEN Cascade(swept) ELSE swept
  BY DEF TickOnce
<1> HIDE DEF c
<1>c. c \in Bk
  BY <1>1
<1>3. /\ moved \in WheelOf(n)
      /\ moved.slots = w.slots /\ moved.generations = w.generations
      /\ moved.free_list = w.free_list /\ moved.last_tick = T + 1 /\ moved.fired = w.fired
      /\ moved.cursors = [w.cursors EXCEPT ![0] = c]
      /\ moved.buckets = w.buckets
  <2>1. [w.cursors EXCEPT ![0] = c] \in [Lv -> Bk] /\ T + 1 \in Nat
    BY <1>0, <1>c DEF WheelOf
  <2>2. moved \in WheelOf(n)
    BY <1>0, <2>1 DEF WheelOf
  <2> QED BY <1>0, <2>2 DEF WheelOf
<1> HIDE DEF moved
<1>4. /\ w.slots \in [1 .. n -> Node] /\ w.free_list \in Seq(1 .. n)
      /\ w.buckets \in Buckets(n) /\ q \in Seq(1 .. n) /\ q = w.buckets[0][c]
  BY <1>0, <1>c, <1>3 DEF WheelOf, Buckets
<1>5. D \in Buckets(n)
  <2>1. <<>> \in Seq(1 .. n)
    OBVIOUS
  <2> QED BY <1>0, <1>c, <1>4, <2>1 DEF Buckets
<1>6. Acc(n, moved.slots, moved.free_list, D, Held(q, 0)) /\ Distinct(q)
  <2>1. Acc(n, w.slots, w.free_list, w.buckets, {})
    BY DEF Sound
  <2>2. /\ Acc(n, w.slots, w.free_list, [w.buckets EXCEPT ![0][c] = <<>>], Held(w.buckets[0][c], 0))
        /\ Distinct(w.buckets[0][c])
    BY <1>0, <1>c, <1>4, <2>1, AccDrain, Zenon
  <2> QED BY <1>3, <1>4, <2>2
<1>7. /\ Sched(D, Q, t)
      /\ \A i \in 1 .. Len(q) : RightVisit(0, q[i], moved.last_tick, t)
  <2>1. Sched(w.buckets, P, t)
    BY DEF Sound
  <2>2. /\ Sched([w.buckets EXCEPT ![0][c] = <<>>], [P EXCEPT ![0] = @ + 1], t)
        /\ \A i \in 1 .. Len(w.buckets[0][c]) : RightVisit(0, w.buckets[0][c][i], P[0] + 1, t)
    BY <1>0, <1>1, <1>4, <2>1, SchedStep, Zenon
  <2> QED BY <1>0, <1>3, <1>4, <2>2
<1>8. Fires(moved, t)
  <2> SUFFICES ASSUME NEW k \in 1 .. Len(moved.fired), moved.fired[k].slot \in t.soft
               PROVE  t.fire[moved.fired[k].slot] <= (moved.last_tick + 1) * TICK
    BY DEF Fires
  <2> DEFINE s == moved.fired[k].slot
  <2>1. t.fire[s] <= (T + 1) * TICK
    BY <1>3 DEF Fires
  <2>2. s \in 1 .. n /\ t.fire[s] \in Nat
    BY DEF Terms
  <2>3. (T + 1) * TICK <= (T + 1 + 1) * TICK /\ (T + 1) * TICK \in Nat /\ (T + 1 + 1) * TICK \in Nat
    <3> DEFINE a == T + 1
               b == T + 1 + 1
    <3>1. a \in Nat /\ b \in Nat /\ a <= b /\ TICK \in Nat
      BY <1>0, Shape
    <3> HIDE DEF a, b
    <3>2. a * TICK <= b * TICK /\ a * TICK \in Nat /\ b * TICK \in Nat
      BY <3>1, Product
    <3> QED BY <3>2 DEF a, b
  <2> QED BY <1>3, <2>1, <2>2, <2>3
<1> HIDE DEF q, D, r
<1>9. LET v == TakeAll(moved, q) IN
           /\ v \in WheelOf(n)
           /\ v.buckets = moved.buckets /\ v.generations = moved.generations
           /\ v.cursors = moved.cursors /\ v.last_tick = moved.last_tick
           /\ SameTally(n, v, moved) /\ Survives(n, v, moved) /\ Fires(v, t)
           /\ Acc(n, v.slots, v.free_list, D, {})
  BY <1>3, <1>4, <1>5, <1>6, <1>7, <1>8, TakeAllKeeps, ZenonT(40)
<1>10. /\ r \in WheelOf(n)
       /\ r.buckets = w.buckets /\ r.generations = w.generations
       /\ r.cursors = [w.cursors EXCEPT ![0] = c] /\ r.last_tick = T + 1
       /\ SameTally(n, r, w) /\ Survives(n, r, w) /\ Fires(r, t)
       /\ Acc(n, r.slots, r.free_list, D, {})
  <2>1. SameTally(n, moved, w) /\ Survives(n, moved, w)
    BY <1>3 DEF SameTally, Tally, Matches, Survives
  <2>2. /\ r \in WheelOf(n)
        /\ r.buckets = moved.buckets /\ r.generations = moved.generations
        /\ r.cursors = moved.cursors /\ r.last_tick = moved.last_tick
        /\ SameTally(n, r, moved) /\ Survives(n, r, moved) /\ Fires(r, t)
        /\ Acc(n, r.slots, r.free_list, D, {})
    BY <1>9 DEF r
  <2> QED BY <1>3, <2>1, <2>2 DEF SameTally, Survives
<1>11. /\ swept \in WheelOf(n)
       /\ swept.slots = r.slots /\ swept.generations = r.generations
       /\ swept.free_list = r.free_list /\ swept.last_tick = r.last_tick
       /\ swept.fired = r.fired /\ swept.cursors = r.cursors
       /\ swept.buckets = D
  <2>1. [r.buckets EXCEPT ![0][c] = <<>>] = D
    BY <1>10 DEF D
  <2>2. D \in [Lv -> [Bk -> Seq(1 .. n)]]
    BY <1>5 DEF Buckets
  <2>3. swept \in WheelOf(n)
    BY <1>10, <2>1, <2>2 DEF WheelOf
  <2> QED BY <1>10, <2>1, <2>3 DEF WheelOf
<1> HIDE DEF swept
<1>12. \A l \in Lv : Q[l] = IF l = 0 THEN T + 1 ELSE P[l]
  BY <1>0, <1>1
<1>13. \A l \in Lv : swept.cursors[l] = IF l = 0 THEN c ELSE w.cursors[l]
  BY <1>0, <1>10, <1>11 DEF WheelOf
<1>14. Sound(n, swept, Q, t)
  <2>1. Clock(swept, Q)
    <3>1. Q \in [Lv -> Nat] /\ Q[0] = T + 1
      BY <1>0, <1>1
    <3>2. ASSUME NEW l \in Lv
          PROVE  swept.cursors[l] = Q[l] % BUCKETS /\ Q[l] * Span[l] <= T + 1
      <4>1. CASE l = 0
        <5>1. Q[l] = T + 1 /\ Span[l] = 1 /\ swept.cursors[l] = c
          BY <1>12, <1>13, <4>1, Shape
        <5>2. Q[l] * Span[l] <= T + 1
          BY <1>0, <5>1
        <5> QED BY <1>0, <1>1, <5>1, <5>2
      <4>2. CASE l # 0
        <5>1. Q[l] = P[l] /\ swept.cursors[l] = w.cursors[l]
          BY <1>12, <1>13, <4>2
        <5>2. w.cursors[l] = P[l] % BUCKETS /\ P[l] * Span[l] <= T
          BY <1>0 DEF Clock
        <5>3. P[l] * Span[l] \in Nat
          <6>1. P[l] \in Nat /\ Span[l] \in Nat
            BY <1>1, Shape
          <6> QED BY <6>1
        <5>4. P[l] * Span[l] <= T + 1
          BY <1>0, <5>2, <5>3
        <5> QED BY <5>1, <5>2, <5>4
      <4> QED BY <4>1, <4>2
    <3> HIDE DEF Q
    <3> QED BY <1>10, <1>11, <3>1, <3>2 DEF Clock
  <2>2. Agrees(n, swept, t)
    BY <1>10, <1>11 DEF Agrees, Survives, Sound
  <2> QED BY <1>7, <1>10, <1>11, <2>1, <2>2 DEF Sound
<1> HIDE DEF Q
<1>15. /\ swept.generations = w.generations /\ swept.last_tick = T + 1
       /\ SameTally(n, swept, w) /\ Survives(n, swept, w) /\ Fires(swept, t)
  BY <1>10, <1>11 DEF SameTally, Tally, Matches, Survives, Fires
<1>16. Stage(swept, Q, 0) /\ (c # 0 => Linked(Q))
  <2>1. 1 \in Lv /\ 0 + 1 = 1 /\ 1 - 1 = 0
    BY Shape DEF Lv
  <2>2. Q[0] = T + 1 /\ Q[1] = P[1] /\ P[1] \in Nat
    BY <1>0, <1>1, <1>12, <2>1
  <2>3. P[1] * BUCKETS <= T /\ T < (P[1] + 1) * BUCKETS
    BY <1>0, <2>1 DEF Linked, LinkAt
  <2> DEFINE p == P[1]
  <2>p. p \in Nat /\ p * BUCKETS <= T /\ T < (p + 1) * BUCKETS
    BY <2>2, <2>3
  <2> HIDE DEF p, T
  <2>4. /\ (T + 1) % BUCKETS = 0 => T + 1 = (p + 1) * BUCKETS
        /\ (T + 1) % BUCKETS # 0 => p * BUCKETS <= T + 1 /\ T + 1 < (p + 1) * BUCKETS
    <3>1. BUCKETS \in Nat \ {0}
      BY Shape
    <3> QED BY <1>0, <2>p, <3>1, Wraps
  <2>5. c = (T + 1) % BUCKETS
    BY <1>0, <1>1
  <2>6. ASSUME NEW k \in Lv, k # 0, k # 1 PROVE LinkAt(Q, k)
    <3>1. k - 1 \in Lv /\ k - 1 # 0
      BY <2>6, Shape
    <3>2. Q[k] = P[k] /\ Q[k - 1] = P[k - 1] /\ LinkAt(P, k)
      BY <1>12, <2>6, <3>1 DEF Linked
    <3> QED BY <3>2 DEF LinkAt
  <2>7. Hot(swept, 0) <=> c = 0
    <3>1. 0 .. 0 = {0}
      OBVIOUS
    <3> QED BY <1>0, <1>13, <3>1 DEF Hot
  <2>8. IF c = 0 THEN Q[0] = (Q[1] + 1) * BUCKETS ELSE LinkAt(Q, 1)
    BY <2>1, <2>2, <2>4, <2>5 DEF LinkAt, p
  <2>9. Q[0] * Span[0] = swept.last_tick
    BY <1>0, <1>15, <2>2, Shape
  <2>10. Stage(swept, Q, 0)
    BY <2>1, <2>6, <2>7, <2>8, <2>9 DEF Stage
  <2>11. c # 0 => Linked(Q)
    BY <2>6, <2>8 DEF Linked
  <2> QED BY <2>10, <2>11
<1>17. CASE c # 0
  <2>1. TickOnce(w) = swept
    BY <1>2, <1>17
  <2> QED BY <1>14, <1>15, <1>16, <1>17, <2>1 DEF Ticking
<1>18. CASE c = 0
  <2> DEFINE v == Cascade(swept)
  <2>1. TickOnce(w) = v
    BY <1>2, <1>18
  <2>2. PICK R : Sound(n, v, R, t) /\ Frame(n, v, swept) /\ Linked(R)
    BY <1>14, <1>16, CascadeKeeps
  <2> HIDE DEF v
  <2>3. /\ v.generations = w.generations /\ v.last_tick = T + 1
        /\ SameTally(n, v, w) /\ Survives(n, v, w)
    BY <1>15, <2>2 DEF Frame, SameTally, Survives
  <2>4. Fires(v, t)
    BY <1>15, <2>2 DEF Frame, Fires
  <2> QED BY <2>1, <2>2, <2>3, <2>4 DEF Ticking
<1> QED BY <1>17, <1>18

LEMMA AdvanceKeeps ==
    ASSUME NEW n \in Nat, NEW w, NEW P, NEW t \in Terms(n), DueLater(n, t),
           Sound(n, w, P, t), Linked(P), NEW at \in Nat, w.last_tick <= at \div TICK
    PROVE  LET v == Advance(w, at) IN
           /\ Ticking(n, v, [w EXCEPT !.fired = <<>>], t)
           /\ v.last_tick <= at \div TICK
<1> DEFINE m == BUCKETS * LEVELS
           a == [w EXCEPT !.fired = <<>>]
           S == {v \in WheelOf(n) : Ticking(n, v, a, t)}
           F == [k \in 1 .. m |-> [v \in S |-> TickOnce(v)]]
           Loop(f) == f = [k \in 0 .. m |-> IF k = 0 THEN a ELSE TickOnce(f[k - 1])]
           g == CHOOSE f : Loop(f)
           K == TicksToRun(w, at)
           T == w.last_tick
<1>0. w \in WheelOf(n) /\ T \in Nat
  BY DEF Sound, WheelOf
<1>a. /\ a \in WheelOf(n)
      /\ a.slots = w.slots /\ a.generations = w.generations /\ a.free_list = w.free_list
      /\ a.buckets = w.buckets /\ a.cursors = w.cursors /\ a.last_tick = w.last_tick
      /\ a.fired = <<>>
  <2>1. <<>> \in Seq([slot : 1 .. n, generation : Nat])
    OBVIOUS
  <2> QED BY <1>0, <2>1 DEF WheelOf
<1>m. m \in Nat /\ K \in 0 .. m /\ T + K <= at \div TICK
  <2>1. m \in Nat
    BY Shape
  <2>2. at \div TICK \in Nat
    BY Shape, DivMod
  <2> HIDE DEF m
  <2>3. K = Min2(SatSub(at \div TICK, T), m)
    BY DEF TicksToRun, m
  <2> QED BY <1>0, <2>1, <2>2, <2>3 DEF Min2, SatSub
<1>4. Advance(w, at) = g[K]
  BY DEF Advance
<1> HIDE DEF a, m, K
<1>1. m \in Nat /\ a \in S
  <2>1. Sound(n, a, P, t)
    BY <1>a DEF Sound, Clock, Agrees
  <2>2. Fires(a, t)
    BY <1>a DEF Fires
  <2>3. SameTally(n, a, a) /\ Survives(n, a, a)
    BY DEF SameTally, Survives
  <2> QED BY <1>a, <1>m, <2>1, <2>2, <2>3 DEF Ticking
<1>2a. ASSUME NEW v \in S PROVE TickOnce(v) \in S /\ TickOnce(v).last_tick = v.last_tick + 1
  <2>1. Ticking(n, v, a, t)
    OBVIOUS
  <2>2. PICK Q : Sound(n, v, Q, t) /\ Linked(Q)
    BY <2>1 DEF Ticking
  <2>3. Fires(v, t)
    BY <2>1 DEF Ticking
  <2>4. Ticking(n, TickOnce(v), v, t) /\ TickOnce(v).last_tick = v.last_tick + 1
    BY <2>2, <2>3, TickKeeps
  <2>5. Ticking(n, TickOnce(v), a, t)
    <3> DEFINE x == TickOnce(v)
    <3>1. Ticking(n, x, v, t)
      BY <2>4
    <3> HIDE DEF x, S
    <3>2. SameTally(n, x, a) /\ Survives(n, x, a)
      BY <2>1, <3>1 DEF Ticking, SameTally, Survives
    <3>3. Ticking(n, x, a, t)
      BY <2>1, <3>1, <3>2 DEF Ticking
    <3> QED BY <3>3 DEF x
  <2>6. TickOnce(v) \in WheelOf(n)
    BY <2>4 DEF Ticking, Sound
  <2> QED BY <2>4, <2>5, <2>6
<1>2. Steps(F, m, S)
  <2> HIDE DEF S
  <2> QED BY <1>2a DEF Steps
<1>3. \A k \in 1 .. m, v \in S : F[k][v] = TickOnce(v)
  OBVIOUS
<1>b. \A v \in S : v \in WheelOf(n) /\ Ticking(n, v, a, t)
  OBVIOUS
<1> HIDE DEF F, S
<1>5. PICK f : IsRun(f, F, m, S, a)
  BY <1>1, <1>2, Iterates
<1>6. Loop(f)
  <2>1. ASSUME NEW k \in 1 .. m PROVE f[k] = TickOnce(f[k - 1])
    <3>1. k - 1 \in 0 .. m
      BY <1>1
    <3>2. f[k - 1] \in S /\ f[k] = F[k][f[k - 1]]
      BY <1>5, <3>1 DEF IsRun
    <3> QED BY <1>3, <3>2
  <2>2. \A k \in 0 .. m : k = 0 \/ k \in 1 .. m
    BY <1>1
  <2>3. \A k \in 0 .. m : f[k] = IF k = 0 THEN a ELSE TickOnce(f[k - 1])
    BY <1>5, <2>1, <2>2 DEF IsRun
  <2>4. f = [k \in 0 .. m |-> f[k]]
    BY <1>5 DEF IsRun
  <2> QED BY <2>3, <2>4
<1>7. Loop(g)
  BY <1>6
<1> HIDE DEF g
<1>8. /\ g = [k \in 0 .. m |-> g[k]] /\ g[0] = a
      /\ \A k \in 1 .. m : g[k] = TickOnce(g[k - 1])
  <2> DEFINE E == [k \in 0 .. m |-> IF k = 0 THEN a ELSE TickOnce(g[k - 1])]
  <2>1. g = E
    BY <1>7
  <2>2. E = [k \in 0 .. m |-> E[k]] /\ \A k \in 0 .. m : E[k] = IF k = 0 THEN a ELSE TickOnce(g[k - 1])
    OBVIOUS
  <2> HIDE DEF E
  <2>3. 0 \in 0 .. m /\ \A k \in 1 .. m : k # 0 /\ k \in 0 .. m
    BY <1>1
  <2> QED BY <2>1, <2>2, <2>3
<1>9. \A k \in 1 .. m : g[k - 1] \in S => g[k] = F[k][g[k - 1]]
  BY <1>3, <1>8
<1>10. IsRun(g, F, m, S, a)
  BY <1>1, <1>2, <1>8, <1>9, RunOf
<1>11. \A k \in 0 .. m : g[k] \in S
  BY <1>10 DEF IsRun
<1> DEFINE G == {k \in 0 .. m : g[k].last_tick = T + k}
<1>12. 0 \in G
  BY <1>0, <1>1, <1>8, <1>a
<1>13. ASSUME NEW k \in 1 .. m, k - 1 \in G PROVE k \in G
  <2>1. k - 1 \in 0 .. m /\ k \in 0 .. m /\ g[k - 1].last_tick = T + (k - 1)
    BY <1>13
  <2>2. g[k].last_tick = g[k - 1].last_tick + 1
    BY <1>2a, <1>8, <1>11, <2>1
  <2> QED BY <1>0, <2>1, <2>2
<1> HIDE DEF G
<1>14. \A k \in 0 .. m : k \in G
  BY <1>1, <1>12, <1>13, UpTo
<1>15. g[K].last_tick = T + K
  BY <1>m, <1>14 DEF G
<1>16. Ticking(n, g[K], a, t)
  BY <1>b, <1>m, <1>11
<1> QED BY <1>4, <1>m, <1>15, <1>16 DEF a

-----------------------------------------------------------------------------
\* Adding a timer.

LEMMA FrontOf ==
    ASSUME NEW T, NEW q \in Seq(T), q # <<>>
    PROVE  /\ Front(q) \in Seq(T) /\ Len(q) \in Nat /\ Len(q) >= 1
           /\ Len(Front(q)) = Len(q) - 1 /\ Last(q) = q[Len(q)] /\ Last(q) \in T
           /\ \A i \in 1 .. Len(q) - 1 : Front(q)[i] = q[i]
<1> DEFINE m == Len(q)
<1>1. m \in Nat /\ m >= 1
  OBVIOUS
<1>2. q[m] \in T
  BY <1>1
<1>3. Front(q) = SubSeq(q, 1, m - 1) /\ Last(q) = q[m]
  BY DEF Front, Last
<1>4. 1 \in 1 .. m + 1 /\ m - 1 \in 0 .. m
  BY <1>1
<1>5. /\ SubSeq(q, 1, m - 1) \in Seq(T) /\ Len(SubSeq(q, 1, m - 1)) = m - 1
      /\ \A i \in 1 .. m - 1 : SubSeq(q, 1, m - 1)[i] = q[i]
  <2> HIDE DEF m
  <2>1. \A i \in 1 .. m - 1 : i \in 1 .. m /\ 1 + i - 1 = i
    BY <1>1
  <2>2. SubSeq(q, 1, m - 1) = [i \in 1 .. m - 1 |-> q[i]]
    BY <1>1, <2>1
  <2>3. \A i \in 1 .. m - 1 : q[i] \in T
    BY <2>1 DEF m
  <2>4. m - 1 \in Nat
    BY <1>1
  <2> QED BY <2>2, <2>3, <2>4
<1> QED BY <1>1, <1>2, <1>3, <1>5

\* The slot on top of the free list gets a new timer.
LEMMA AccTake ==
    ASSUME NEW n \in Nat, NEW slots \in [1 .. n -> Node], NEW free \in Seq(1 .. n),
           NEW B \in Buckets(n), Acc(n, slots, free, B, {}), free # <<>>,
           NEW node \in Node, node.live
    PROVE  /\ Last(free) \in 1 .. n /\ ~slots[Last(free)].live
           /\ Acc(n, [slots EXCEPT ![Last(free)] = node], Front(free), B, {Last(free)})
<1> DEFINE s == Last(free)
           slots2 == [slots EXCEPT ![s] = node]
           free2 == Front(free)
           m == Len(free)
<1>1. /\ m \in Nat /\ m >= 1 /\ Len(free2) = m - 1 /\ s = free[m] /\ s \in 1 .. n
      /\ \A i \in 1 .. m - 1 : free2[i] = free[i] /\ i \in 1 .. m /\ i # m
      /\ m \in 1 .. m /\ \A i \in 1 .. m : i = m \/ i \in 1 .. m - 1
  <2>1. /\ m \in Nat /\ m >= 1 /\ Len(free2) = m - 1 /\ s = free[m] /\ s \in 1 .. n
        /\ \A i \in 1 .. m - 1 : free2[i] = free[i]
    BY FrontOf
  <2> HIDE DEF m
  <2> QED BY <2>1
<1>2. FreeOnce(slots, free) /\ DeadFree(n, slots, free) /\ QueuedLive(slots, B, {})
      /\ QueuedOnce(B) /\ LiveQueued(n, slots, B, {})
  BY DEF Acc
<1>3. ~slots[s].live
  BY <1>1, <1>2 DEF FreeOnce
<1> HIDE DEF m, free2, s
<1>4. \A x \in 1 .. n : slots2[x] = IF x = s THEN node ELSE slots[x]
  BY <1>1
<1> HIDE DEF slots2
<1>5. \A l \in Lv, b \in Bk : \A i \in 1 .. Len(B[l][b]) :
         B[l][b][i] \in 1 .. n /\ B[l][b][i] # s /\ slots[B[l][b][i]].live
  <2>1. \A l \in Lv, b \in Bk : \A i \in 1 .. Len(B[l][b]) : B[l][b][i] \in 1 .. n
    BY DEF Buckets
  <2> QED BY <1>2, <1>3, <2>1 DEF QueuedLive
<1>6. QueuedLive(slots2, B, {s})
  BY <1>4, <1>5 DEF QueuedLive
<1>7. LiveQueued(n, slots2, B, {s})
  BY <1>2, <1>4 DEF LiveQueued
<1>8. FreeOnce(slots2, free2)
  <2>1. \A i \in 1 .. m : free[i] \in 1 .. n
    BY DEF m
  <2>2. \A i, j \in 1 .. m : free[i] = free[j] => i = j
    BY <1>2 DEF FreeOnce, m
  <2>3. \A i \in 1 .. m : ~slots[free[i]].live
    BY <1>2 DEF FreeOnce, m
  <2> QED BY <1>1, <1>4, <2>1, <2>2, <2>3 DEF FreeOnce
<1>9. DeadFree(n, slots2, free2)
  <2> SUFFICES ASSUME NEW x \in 1 .. n, ~slots2[x].live
               PROVE  \E i \in 1 .. Len(free2) : free2[i] = x
    BY DEF DeadFree
  <2>1. x # s /\ ~slots[x].live
    BY <1>4
  <2>2. PICK i \in 1 .. m : free[i] = x
    BY <1>2, <2>1 DEF DeadFree, m
  <2>3. i \in 1 .. m - 1
    BY <1>1, <2>1, <2>2
  <2> QED BY <1>1, <2>2, <2>3
<1>10. {s} \subseteq {x \in 1 .. n : slots2[x].live}
  BY <1>1, <1>4
<1>11. Acc(n, slots2, free2, B, {s})
  BY <1>2, <1>6, <1>7, <1>8, <1>9, <1>10 DEF Acc
<1> QED BY <1>1, <1>3, <1>11 DEF s, slots2, free2

\* The wheel grows by a slot with a new timer.
LEMMA AccGrow ==
    ASSUME NEW n \in Nat, NEW slots \in [1 .. n -> Node], NEW free \in Seq(1 .. n),
           NEW B \in Buckets(n), Acc(n, slots, free, B, {}), free = <<>>,
           NEW node \in Node, node.live,
           NEW slots2, \A x \in 1 .. n : slots2[x] = slots[x], slots2[n + 1] = node
    PROVE  Acc(n + 1, slots2, free, B, {n + 1})
<1>1. \A x \in 1 .. n + 1 : x \in 1 .. n \/ x = n + 1
  OBVIOUS
<1>2. \A x \in 1 .. n : x \in 1 .. n + 1 /\ x # n + 1
  OBVIOUS
<1>3. n + 1 \in 1 .. n + 1
  OBVIOUS
<1>4. FreeOnce(slots, free) /\ DeadFree(n, slots, free) /\ QueuedLive(slots, B, {})
      /\ QueuedOnce(B) /\ LiveQueued(n, slots, B, {})
  BY DEF Acc
<1>5. \A i \in 1 .. Len(free) : FALSE
  OBVIOUS
<1>6. \A l \in Lv, b \in Bk : \A i \in 1 .. Len(B[l][b]) : B[l][b][i] \in 1 .. n
  BY DEF Buckets
<1>7. QueuedLive(slots2, B, {n + 1})
  BY <1>2, <1>4, <1>6 DEF QueuedLive
<1>8. LiveQueued(n + 1, slots2, B, {n + 1})
  BY <1>1, <1>4 DEF LiveQueued
<1>9. FreeOnce(slots2, free)
  BY <1>5 DEF FreeOnce
<1>10. DeadFree(n + 1, slots2, free)
  <2>1. \A x \in 1 .. n : slots[x].live
    BY <1>4, <1>5 DEF DeadFree
  <2> QED BY <1>1, <2>1 DEF DeadFree
<1> QED BY <1>3, <1>4, <1>7, <1>8, <1>9, <1>10 DEF Acc

\* Terms that agree on the queued slots schedule them alike.
LEMMA SchedTerms ==
    ASSUME NEW n \in Nat, NEW B \in Buckets(n), NEW P, NEW t, NEW t2, NEW s, Sched(B, P, t),
           \A l \in Lv, b \in Bk : \A i \in 1 .. Len(B[l][b]) : B[l][b][i] # s,
           \A x \in 1 .. n : x # s => /\ t2.fire[x] = t.fire[x] /\ t2.due[x] = t.due[x]
                                      /\ x \in t2.soft <=> x \in t.soft
    PROVE  Sched(B, P, t2)
<1> SUFFICES ASSUME NEW l \in Lv, NEW b \in Bk, NEW i \in 1 .. Len(B[l][b])
             PROVE  Entry(l, b, B[l][b][i], P, t2)
  BY DEF Sched
<1>1. B[l][b][i] \in 1 .. n /\ B[l][b][i] # s /\ Entry(l, b, B[l][b][i], P, t)
  BY DEF Buckets, Sched
<1> QED BY <1>1 DEF Entry, RightVisit

\* How far ahead a deadline is when it is added, and when it is then visited.
LEMMA AddDelay ==
    ASSUME NEW at \in Nat, NEW F \in Nat, NEW f, f = F * TICK,
           NEW T \in Nat, T <= at \div TICK, NEW d, d = SatSub(f, at) \div TICK,
           NEW due, due = Max2(f, at) \div TICK
    PROVE  /\ d \in Nat /\ f \in Nat /\ due \in Nat
           /\ f \div TICK <= due /\ T <= due
           /\ d # 0 => T + d <= f \div TICK
           /\ T = at \div TICK => f <= (T + Max2(1, d) + 1) * TICK
<1> DEFINE k == TICK
           x == SatSub(f, at)
           A == at \div k
<1>0. k \in Nat \ {0} /\ k \in Nat /\ k >= 1
  BY Shape
<1>1. f \in Nat /\ f = F * k
  BY <1>0
<1>2. x \in Nat /\ (f >= at => x = f - at) /\ (f < at => x = 0)
  BY <1>1 DEF SatSub
<1>3. d = x \div k
  OBVIOUS
<1>4. A \in Nat /\ A * k <= at /\ at < (A + 1) * k
  BY <1>0, DivBounds
<1> HIDE DEF x
<1>5. d \in Nat /\ d * k <= x /\ x < (d + 1) * k
  BY <1>0, <1>2, <1>3, DivBounds
<1>6. f \div k \in Nat /\ (f \div k) * k <= f /\ \A y \in Nat : y * k <= f => y <= f \div k
  BY <1>0, <1>1, DivBounds
<1>7. /\ Max2(f, at) \in Nat /\ f <= Max2(f, at) /\ at <= Max2(f, at)
      /\ due \in Nat /\ \A y \in Nat : y * k <= Max2(f, at) => y <= due
  <2>1. Max2(f, at) \in Nat /\ f <= Max2(f, at) /\ at <= Max2(f, at)
    BY <1>1 DEF Max2
  <2> QED BY <1>0, <2>1, DivBounds
<1>8. T * k <= A * k /\ T * k \in Nat /\ A * k \in Nat
  BY <1>0, <1>4, Product
<1> DEFINE e == f \div k
           mx == Max2(f, at)
<1> HIDE DEF k, A, e, mx
<1>9. e <= due
  <2>1. e \in Nat /\ e * k <= f
    BY <1>6 DEF e
  <2>2. e * k \in Nat
    BY <1>0, <2>1
  <2>3. e * k <= mx
    BY <1>1, <1>7, <2>1, <2>2 DEF mx
  <2> QED BY <1>7, <2>1, <2>3 DEF mx
<1>10. T <= due
  <2>1. T * k <= mx
    BY <1>4, <1>7, <1>8 DEF mx
  <2> QED BY <1>7, <2>1 DEF mx
<1>11. ASSUME d # 0 PROVE T + d <= e
  <2>1. d >= 1 /\ d * k \in Nat /\ d * k >= 1
    BY <1>0, <1>5, <1>11
  <2>2. x = f - at
    BY <1>1, <1>2, <1>5, <2>1
  <2>3. (T + d) * k = T * k + d * k
    BY <1>0, <1>5
  <2>4. (T + d) * k <= f
    BY <1>1, <1>2, <1>4, <1>5, <1>8, <2>1, <2>2, <2>3
  <2>5. T + d \in Nat
    BY <1>5
  <2> QED BY <1>6, <2>4, <2>5 DEF e
<1>12. ASSUME T = A PROVE f <= (T + Max2(1, d) + 1) * k
  <2> DEFINE M == Max2(1, d)
  <2>1. M \in Nat /\ d <= M /\ 1 <= M
    BY <1>5 DEF Max2
  <2> HIDE DEF M
  <2>2. (T + d + 2) * k = (T + 1) * k + (d + 1) * k /\ (T + 1) * k \in Nat /\ (d + 1) * k \in Nat
    BY <1>0, <1>5
  <2>3. F * k < (T + d + 2) * k
    BY <1>1, <1>2, <1>4, <1>5, <1>12, <2>2
  <2>4. F < T + d + 2
    <3>1. ASSUME ~(F < T + d + 2) PROVE FALSE
      <4> DEFINE z == T + d + 2
      <4>1. z \in Nat /\ z <= F
        BY <1>5, <3>1
      <4> HIDE DEF z
      <4>2. z * k <= F * k /\ z * k \in Nat /\ F * k \in Nat
        BY <1>0, <4>1, Product
      <4> QED BY <2>3, <4>2 DEF z
    <3> QED BY <3>1
  <2>5. F <= T + M + 1 /\ T + M + 1 \in Nat
    BY <1>5, <2>1, <2>4
  <2> DEFINE z == T + M + 1
  <2>6. z \in Nat /\ F <= z
    BY <2>5
  <2> HIDE DEF z
  <2>7. F * k <= z * k
    BY <1>0, <2>6, Product
  <2> QED BY <1>1, <2>7 DEF z, M
<1> QED BY <1>1, <1>5, <1>7, <1>9, <1>10, <1>11, <1>12 DEF e, k, A

LEMMA FunctionAppended ==
    ASSUME NEW n \in Nat, NEW T, NEW f \in [1 .. n -> T], NEW x \in T
    PROVE  /\ f \in Seq(T) /\ Len(f) = n
           /\ Append(f, x) \in [1 .. n + 1 -> T] /\ Append(f, x)[n + 1] = x
           /\ \A i \in 1 .. n : Append(f, x)[i] = f[i]
<1>1. f \in Seq(T)
  OBVIOUS
<1>2. Len(f) = n
  BY <1>1
<1>3. /\ Append(f, x) \in Seq(T) /\ Len(Append(f, x)) = n + 1
      /\ Append(f, x)[n + 1] = x /\ \A i \in 1 .. n : Append(f, x)[i] = f[i]
  BY <1>1, <1>2, Appended
<1>4. Append(f, x) \in [1 .. n + 1 -> T]
  <2> DEFINE a == Append(f, x)
  <2>1. a \in Seq(T) /\ Len(a) = n + 1
    BY <1>3
  <2> HIDE DEF a
  <2>2. a \in [1 .. n + 1 -> T]
    BY <2>1
  <2> QED BY <2>2 DEF a
<1> QED BY <1>1, <1>2, <1>3, <1>4

LEMMA SeqWiden ==
    ASSUME NEW T, NEW U, T \subseteq U, NEW q \in Seq(T)
    PROVE  q \in Seq(U)
<1>1. q \in [1 .. Len(q) -> T] /\ Len(q) \in Nat
  OBVIOUS
<1>2. q \in [1 .. Len(q) -> U]
  BY <1>1
<1> QED BY <1>1, <1>2

NewNode(fire_at, gen) ==
    [fire_at |-> fire_at, generation |-> gen, cancelled |-> FALSE, live |-> TRUE]

\* The wheel g is w with slot s taken or added for a new timer, still in hand.
Grows(n, w, fire_at, at, n2, s, gen, g) ==
    /\ n2 \in Nat /\ s \in 1 .. n2 /\ gen \in Nat /\ g \in WheelOf(n2)
    /\ Add(w, at, fire_at) = [wheel |-> Place(g, s, fire_at, at),
                              id |-> [slot |-> s, generation |-> gen]]
    /\ \A x \in 1 .. n : x \in 1 .. n2
    /\ \A x \in 1 .. n2 : x # s => /\ x \in 1 .. n /\ g.slots[x] = w.slots[x]
                                   /\ g.generations[x] = w.generations[x]
    /\ g.slots[s] = NewNode(fire_at, gen) /\ g.generations[s] = gen
    /\ s \in 1 .. n => ~w.slots[s].live /\ gen = w.generations[s] + 1
    /\ g.buckets = w.buckets /\ g.cursors = w.cursors
    /\ g.last_tick = w.last_tick /\ g.fired = w.fired
    /\ Acc(n2, g.slots, g.free_list, g.buckets, {s})

LEMMA AddStep ==
    ASSUME NEW n \in Nat, NEW w \in WheelOf(n),
           Acc(n, w.slots, w.free_list, w.buckets, {}),
           NEW fire_at \in Nat, NEW at \in Nat
    PROVE  \E n2, s, gen, g : Grows(n, w, fire_at, at, n2, s, gen, g)
<1>0. /\ w.slots \in [1 .. n -> Node] /\ w.free_list \in Seq(1 .. n)
      /\ w.buckets \in Buckets(n) /\ w.generations \in [1 .. n -> Nat]
      /\ w.cursors \in [Lv -> Bk] /\ w.last_tick \in Nat
      /\ w.fired \in Seq([slot : 1 .. n, generation : Nat])
  BY DEF WheelOf, Buckets
<1>1. CASE w.free_list # <<>>
  <2> DEFINE s == Last(w.free_list)
             gen == w.generations[s] + 1
             node == NewNode(fire_at, gen)
             g == [w EXCEPT !.free_list = Front(@), !.generations[s] = gen, !.slots[s] = node]
  <2>1. s \in 1 .. n /\ Front(w.free_list) \in Seq(1 .. n)
    BY <1>0, <1>1, FrontOf
  <2>2. gen \in Nat
    BY <1>0, <2>1
  <2>3. Add(w, at, fire_at) = [wheel |-> Place(g, s, fire_at, at),
                               id |-> [slot |-> s, generation |-> gen]]
    BY <1>1 DEF Add, NewNode
  <2> HIDE DEF gen
  <2>4. node \in Node /\ node.live
    BY <2>2 DEF Node, NewNode
  <2> HIDE DEF node
  <2> DEFINE S2 == [w.slots EXCEPT ![s] = node]
             G2 == [w.generations EXCEPT ![s] = gen]
  <2>5. S2 \in [1 .. n -> Node] /\ G2 \in [1 .. n -> Nat]
    BY <1>0, <2>1, <2>2, <2>4
  <2>6. g \in WheelOf(n)
    BY <2>1, <2>5 DEF WheelOf
  <2>7. /\ g.slots = S2 /\ g.generations = G2 /\ g.free_list = Front(w.free_list)
        /\ g.buckets = w.buckets /\ g.cursors = w.cursors
        /\ g.last_tick = w.last_tick /\ g.fired = w.fired
    BY DEF WheelOf
  <2> HIDE DEF g
  <2>8. /\ ~w.slots[s].live
        /\ Acc(n, [w.slots EXCEPT ![s] = node], Front(w.free_list), w.buckets, {s})
    BY <1>0, <1>1, <2>4, AccTake
  <2>9. Acc(n, g.slots, g.free_list, g.buckets, {s})
    BY <2>7, <2>8
  <2> HIDE DEF s
  <2>10. /\ \A x \in 1 .. n : x # s => /\ g.slots[x] = w.slots[x]
                                       /\ g.generations[x] = w.generations[x]
         /\ g.slots[s] = node /\ g.generations[s] = gen
    BY <1>0, <2>1, <2>7
  <2>11. Grows(n, w, fire_at, at, n, s, gen, g)
    BY <2>1, <2>2, <2>3, <2>6, <2>7, <2>8, <2>9, <2>10 DEF Grows, gen, node
  <2> QED BY <2>11
<1>2. CASE w.free_list = <<>>
  <2> DEFINE s == n + 1
             node == NewNode(fire_at, 0)
             S2 == Append(w.slots, node)
             G2 == Append(w.generations, 0)
             g == [w EXCEPT !.generations = Append(@, 0), !.slots = Append(@, node)]
  <2>1. w.slots \in Seq(Node) /\ Len(w.slots) = n /\ w.generations \in Seq(Nat) /\ Len(w.generations) = n
    <3>1. node \in Node /\ 0 \in Nat
      BY DEF Node, NewNode
    <3> HIDE DEF node
    <3> QED BY <1>0, <3>1, FunctionAppended
  <2>2. Add(w, at, fire_at) = [wheel |-> Place(g, s, fire_at, at),
                               id |-> [slot |-> s, generation |-> 0]]
    BY <1>2, <2>1 DEF Add, NewNode
  <2>3. node \in Node /\ node.live
    BY DEF Node, NewNode
  <2> HIDE DEF node
  <2>4. /\ S2 \in [1 .. n + 1 -> Node] /\ S2[n + 1] = node
        /\ \A x \in 1 .. n : S2[x] = w.slots[x]
    <3>1. w.slots \in [1 .. n -> Node]
      BY <1>0
    <3> DEFINE f == w.slots
    <3> DEFINE T == Node
    <3>3. f \in [1 .. n -> T] /\ node \in T
      BY <2>3, <3>1
    <3> HIDE DEF f, T
    <3>4. /\ Append(f, node) \in [1 .. n + 1 -> T] /\ Append(f, node)[n + 1] = node
          /\ \A i \in 1 .. n : Append(f, node)[i] = f[i]
      BY <3>3, FunctionAppended
    <3> QED BY <3>4 DEF f, T
  <2>5. /\ G2 \in [1 .. n + 1 -> Nat] /\ G2[n + 1] = 0
        /\ \A x \in 1 .. n : G2[x] = w.generations[x]
    <3>1. 0 \in Nat
      OBVIOUS
    <3>2. w.generations \in [1 .. n -> Nat]
      BY <1>0
    <3> DEFINE f == w.generations
               z == 0
               N == Nat
    <3>3. f \in [1 .. n -> N] /\ z \in N
      BY <3>1, <3>2
    <3> HIDE DEF f, z, N
    <3>4. /\ Append(f, z) \in [1 .. n + 1 -> N] /\ Append(f, z)[n + 1] = z
          /\ \A i \in 1 .. n : Append(f, z)[i] = f[i]
      BY <3>3, FunctionAppended
    <3> QED BY <3>4 DEF f, z, N
  <2>6. /\ \A x \in 1 .. n : x \in 1 .. n + 1
        /\ \A x \in 1 .. n + 1 : x # n + 1 => x \in 1 .. n
        /\ n + 1 \in 1 .. n + 1 /\ n + 1 \notin 1 .. n /\ n + 1 \in Nat
    OBVIOUS
  <2>7. /\ g.slots = S2 /\ g.generations = G2 /\ g.free_list = w.free_list
        /\ g.buckets = w.buckets /\ g.cursors = w.cursors
        /\ g.last_tick = w.last_tick /\ g.fired = w.fired
    BY DEF WheelOf
  <2>8. g \in WheelOf(n + 1)
    <3>1. w.free_list \in Seq(1 .. n + 1)
      BY <1>2
    <3>2. w.buckets \in [Lv -> [Bk -> Seq(1 .. n + 1)]]
      <4>1. \A q \in Seq(1 .. n) : q \in Seq(1 .. n + 1)
        BY <2>6
      <4> QED BY <1>0, <4>1 DEF Buckets
    <3>3. w.fired \in Seq([slot : 1 .. n + 1, generation : Nat])
      <4>1. [slot : 1 .. n, generation : Nat] \subseteq [slot : 1 .. n + 1, generation : Nat]
        BY <2>6
      <4>2. w.fired \in Seq([slot : 1 .. n, generation : Nat])
        BY <1>0
      <4> QED BY <4>1, <4>2, SeqWiden, Zenon
    <3> HIDE DEF S2, G2
    <3> QED BY <1>0, <2>4, <2>5, <3>1, <3>2, <3>3 DEF WheelOf, S2, G2
  <2> HIDE DEF g, S2, G2
  <2>9. Acc(n + 1, S2, w.free_list, w.buckets, {n + 1})
    BY <1>0, <1>2, <2>3, <2>4, AccGrow
  <2>10. Grows(n, w, fire_at, at, n + 1, s, 0, g)
    BY <2>2, <2>4, <2>5, <2>6, <2>7, <2>8, <2>9 DEF Grows, node
  <2> QED BY <2>10
<1> QED BY <1>1, <1>2

-----------------------------------------------------------------------------
\* The inductive invariant: the wheel is sound for some count of cursor steps
\* and some terms, and the terms are those of the timers that are pending.

Issue == [id : [slot : Nat, generation : Nat], fire_at : Nat, due : Nat,
          caught_up : BOOLEAN, fires : Nat, cancels : Nat]

Known(n, w, t, is) ==
    \A i \in 1 .. Len(is) :
        /\ is[i].id \in Ids(n)
        /\ is[i].id.generation <= w.generations[is[i].id.slot]
        /\ Matches(w, is[i].id) =>
              /\ t.due[is[i].id.slot] <= is[i].due
              /\ t.fire[is[i].id.slot] = is[i].fire_at
              /\ is[i].caught_up => is[i].id.slot \in t.soft

Unique(is) == \A i, j \in 1 .. Len(is) : is[i].id = is[j].id => i = j

Outcome(w, is) ==
    \A i \in 1 .. Len(is) :
        is[i].fires + is[i].cancels + (IF Matches(w, is[i].id) THEN 1 ELSE 0) = 1

Settled(n, P, t, w, is) ==
    /\ n \in Nat /\ t \in Terms(n) /\ DueLater(n, t)
    /\ Sound(n, w, P, t) /\ Linked(P) /\ Known(n, w, t, is)

Inv(at, w, is) ==
    /\ at \in Nat /\ is \in Seq(Issue) /\ w.fired = <<>> /\ w.last_tick <= at \div TICK
    /\ Unique(is) /\ Outcome(w, is)
    /\ \E n, P, t : Settled(n, P, t, w, is)

LEMMA InvInit == Inv(0, NewWheel, <<>>)
<1> DEFINE w == NewWheel
           P == [l \in Lv |-> 0]
           t == [fire |-> <<>>, due |-> <<>>, soft |-> {}]
<1>1. /\ w.slots = <<>> /\ w.generations = <<>> /\ w.free_list = <<>> /\ w.fired = <<>>
      /\ w.buckets = [l \in Lv |-> [b \in Bk |-> <<>>]]
      /\ w.cursors = [l \in Lv |-> 0] /\ w.last_tick = 0
  BY DEF NewWheel, Lv, Bk
<1>2. 0 \in Nat /\ 1 .. 0 = {} /\ 0 \in Bk
  BY Shape DEF Bk
<1>3. \A T : <<>> \in Seq(T) /\ Len(<<>>) = 0 /\ <<>> \in [1 .. 0 -> T]
  OBVIOUS
<1>4. w \in WheelOf(0)
  <2>1. [l \in Lv |-> [b \in Bk |-> <<>>]] \in [Lv -> [Bk -> Seq(1 .. 0)]]
    OBVIOUS
  <2>2. [l \in Lv |-> 0] \in [Lv -> Bk]
    BY <1>2
  <2>3. <<>> \in Seq([slot : 1 .. 0, generation : Nat]) /\ <<>> \in Seq(1 .. 0)
        /\ <<>> \in [1 .. 0 -> Node] /\ <<>> \in [1 .. 0 -> Nat]
    BY <1>3
  <2> QED BY <2>1, <2>2, <2>3 DEF WheelOf, NewWheel, Lv, Bk
<1> HIDE DEF w
<1>5. \A l \in Lv, b \in Bk : w.buckets[l][b] = <<>> /\ Len(w.buckets[l][b]) = 0
  BY <1>1
<1>6. Acc(0, w.slots, w.free_list, w.buckets, {})
  BY <1>1, <1>2, <1>5 DEF Acc, QueuedLive, QueuedOnce, LiveQueued, FreeOnce, DeadFree
<1>7. Clock(w, P)
  <2>1. P \in [Lv -> Nat] /\ \A l \in Lv : P[l] = 0
    OBVIOUS
  <2>2. \A l \in Lv : w.cursors[l] = 0
    BY <1>1
  <2>3. 0 % BUCKETS = 0
    <3>1. BUCKETS \in Nat \ {0}
      BY Shape
    <3> QED BY <3>1
  <2>4. \A l \in Lv : 0 * Span[l] = 0
    BY Shape
  <2> HIDE DEF P
  <2> QED BY <1>1, <2>1, <2>2, <2>3, <2>4, Shape DEF Clock
<1>8. Sched(w.buckets, P, t)
  BY <1>2, <1>5 DEF Sched
<1>9. Agrees(0, w, t) /\ DueLater(0, t)
  BY <1>2 DEF Agrees, DueLater
<1>10. t \in Terms(0)
  BY <1>2, <1>3 DEF Terms
<1>11. Linked(P)
  <2>1. \A l \in Lv : l # 0 => P[l] = 0 /\ P[l - 1] = 0
    BY Shape
  <2>2. 0 * BUCKETS <= 0 /\ 0 < (0 + 1) * BUCKETS
    BY Shape
  <2> HIDE DEF P
  <2> QED BY <2>1, <2>2 DEF Linked, LinkAt
<1>12. Known(0, w, t, <<>>) /\ Unique(<<>>) /\ Outcome(w, <<>>)
  BY DEF Known, Unique, Outcome
<1> HIDE DEF P, t
<1>13. Settled(0, P, t, w, <<>>)
  BY <1>2, <1>4, <1>6, <1>7, <1>8, <1>9, <1>10, <1>11, <1>12 DEF Settled, Sound
<1>14. w.last_tick <= 0 \div TICK
  <2>1. 0 \div TICK \in Nat
    BY Shape, DivMod
  <2> QED BY <1>1, <2>1
<1>15. <<>> \in Seq(Issue)
  OBVIOUS
<1> QED BY <1>1, <1>2, <1>12, <1>13, <1>14, <1>15 DEF Inv, w

LEMMA InvClock ==
    ASSUME NEW at, NEW w, NEW is, Inv(at, w, is), NEW gap \in Nat
    PROVE  Inv(at + gap, w, is)
<1>1. at \in Nat /\ TICK \in Nat \ {0} /\ at + gap \in Nat
  BY Shape DEF Inv
<1>2. PICK n, P, t : Settled(n, P, t, w, is)
  BY DEF Inv
<1>3. w.last_tick \in Nat
  BY <1>2 DEF Settled, Sound, WheelOf
<1>4. at \div TICK \in Nat /\ (at \div TICK) * TICK <= at
  BY <1>1, DivBounds
<1>5. (at \div TICK) * TICK <= at + gap
  <2>1. (at \div TICK) * TICK \in Nat
    BY <1>1, <1>4
  <2> QED BY <1>1, <1>4, <2>1
<1>6. at \div TICK <= (at + gap) \div TICK /\ (at + gap) \div TICK \in Nat
  BY <1>1, <1>4, <1>5, DivBounds
<1>7. w.last_tick <= (at + gap) \div TICK
  BY <1>3, <1>4, <1>6 DEF Inv
<1> QED BY <1>1, <1>7 DEF Inv

\* A cancel marks the node of the timer it names and no other.
LEMMA InvCancel ==
    ASSUME NEW at, NEW w, NEW is, Inv(at, w, is), NEW i \in 1 .. Len(is)
    PROVE  Inv(at, Cancel(w, is[i].id),
               IF Matches(w, is[i].id) THEN [is EXCEPT ![i].cancels = @ + 1] ELSE is)
<1> DEFINE id == is[i].id
           s == id.slot
           v == Cancel(w, id)
           js == [is EXCEPT ![i].cancels = @ + 1]
<1>1. CASE ~Matches(w, id)
  BY <1>1 DEF Cancel
<1>2. CASE Matches(w, id)
  <2>0. is \in Seq(Issue) /\ at \in Nat /\ Len(is) \in Nat
    BY DEF Inv
  <2>1. PICK n, P, t : Settled(n, P, t, w, is)
    BY DEF Inv
  <2>2. n \in Nat /\ w \in WheelOf(n) /\ id \in Ids(n) /\ s \in 1 .. n
    BY <2>1 DEF Settled, Sound, Known, Ids
  <2>3. w.slots \in [1 .. n -> Node] /\ DOMAIN w.slots = 1 .. n /\ w.slots[s] \in Node
    BY <2>2 DEF WheelOf
  <2> DEFINE node == [w.slots[s] EXCEPT !.cancelled = TRUE]
             S2 == [w.slots EXCEPT ![s] = node]
  <2>4. /\ node \in Node /\ node.live = w.slots[s].live /\ node.fire_at = w.slots[s].fire_at
        /\ node.generation = w.slots[s].generation /\ node.cancelled
    BY <2>3 DEF Node
  <2>5. v = [w EXCEPT !.slots = S2]
    BY <1>2, <2>2 DEF Cancel, WheelOf
  <2> HIDE DEF node
  <2>6. S2 \in [1 .. n -> Node] /\ \A x \in 1 .. n : S2[x] = IF x = s THEN node ELSE w.slots[x]
    BY <2>2, <2>3, <2>4
  <2>7. /\ v \in WheelOf(n) /\ v.slots = S2
        /\ v.generations = w.generations /\ v.free_list = w.free_list
        /\ v.buckets = w.buckets /\ v.cursors = w.cursors
        /\ v.last_tick = w.last_tick /\ v.fired = w.fired
    <3> HIDE DEF S2
    <3> QED BY <2>2, <2>5, <2>6 DEF WheelOf
  <2> HIDE DEF v, S2
  <2>8. \A x \in 1 .. n : v.slots[x].live = w.slots[x].live /\ v.slots[x].fire_at = w.slots[x].fire_at
    BY <2>4, <2>6, <2>7
  <2>9. Sound(n, v, P, t)
    <3>1. Sound(n, w, P, t)
      BY <2>1 DEF Settled
    <3>2. /\ w.buckets \in Buckets(n) /\ w.free_list \in Seq(1 .. n)
      BY <2>2 DEF WheelOf, Buckets
    <3>3. Acc(n, v.slots, v.free_list, v.buckets, {})
      <4>1. \A l \in Lv, b \in Bk : \A k \in 1 .. Len(w.buckets[l][b]) : w.buckets[l][b][k] \in 1 .. n
        BY <2>2, <3>2 DEF Buckets
      <4>2. \A k \in 1 .. Len(w.free_list) : w.free_list[k] \in 1 .. n
        BY <2>2, <3>2
      <4>3. Acc(n, w.slots, w.free_list, w.buckets, {})
        BY <3>1 DEF Sound
      <4>4. QueuedLive(v.slots, w.buckets, {})
        BY <2>8, <4>1, <4>3 DEF Acc, QueuedLive
      <4>5. LiveQueued(n, v.slots, w.buckets, {}) /\ DeadFree(n, v.slots, w.free_list)
        BY <2>8, <4>3 DEF Acc, LiveQueued, DeadFree
      <4>6. FreeOnce(v.slots, w.free_list)
        BY <2>8, <4>2, <4>3 DEF Acc, FreeOnce
      <4> QED BY <2>7, <4>3, <4>4, <4>5, <4>6 DEF Acc
    <3>4. Clock(v, P)
      BY <2>7, <3>1 DEF Sound, Clock
    <3>5. Agrees(n, v, t)
      BY <2>8, <3>1 DEF Sound, Agrees
    <3> QED BY <2>7, <3>1, <3>3, <3>4, <3>5 DEF Sound
  <2>10. /\ js \in Seq(Issue) /\ Len(js) = Len(is)
         /\ \A j \in 1 .. Len(is) :
               /\ js[j].id = is[j].id /\ js[j].fire_at = is[j].fire_at
               /\ js[j].due = is[j].due /\ js[j].caught_up = is[j].caught_up
               /\ js[j].fires = is[j].fires
               /\ js[j].cancels = IF j = i THEN is[j].cancels + 1 ELSE is[j].cancels
               /\ is[j].fires \in Nat /\ is[j].cancels \in Nat
    <3>1. \A j \in 1 .. Len(is) : is[j] \in Issue
      BY <2>0
    <3> DEFINE e == [is[i] EXCEPT !.cancels = @ + 1]
    <3>2. /\ e \in Issue /\ e.id = is[i].id /\ e.fire_at = is[i].fire_at /\ e.due = is[i].due
          /\ e.caught_up = is[i].caught_up /\ e.fires = is[i].fires
          /\ e.cancels = is[i].cancels + 1
      BY <3>1 DEF Issue
    <3>3. js = [is EXCEPT ![i] = e]
      OBVIOUS
    <3> HIDE DEF e, js
    <3>4. js \in Seq(Issue) /\ Len(js) = Len(is)
          /\ \A j \in 1 .. Len(is) : js[j] = IF j = i THEN e ELSE is[j]
      BY <2>0, <3>2, <3>3
    <3>5. \A j \in 1 .. Len(is) : is[j].fires \in Nat /\ is[j].cancels \in Nat
      BY <3>1 DEF Issue
    <3> QED BY <3>2, <3>4, <3>5
  <2> HIDE DEF js
  <2>11. ASSUME NEW j \in 1 .. Len(is)
         PROVE  Matches(v, is[j].id) <=> Matches(w, is[j].id) /\ j # i
    <3>1. is[j].id \in Ids(n) /\ is[j].id.slot \in 1 .. n /\ (is[j].id = id => j = i)
      BY <2>1 DEF Settled, Known, Ids, Inv, Unique
    <3>2. is[j].id = id <=> is[j].id.slot = s /\ is[j].id.generation = id.generation
      BY <2>2, <3>1 DEF Ids
    <3>3. DOMAIN v.slots = 1 .. n
      BY <2>7 DEF WheelOf
    <3>4. w.slots[s].generation = id.generation
      BY <1>2 DEF Matches
    <3>5. CASE is[j].id.slot # s
      <4>1. v.slots[is[j].id.slot] = w.slots[is[j].id.slot] /\ j # i
        BY <2>6, <2>7, <3>1, <3>5
      <4> QED BY <2>3, <3>3, <4>1 DEF Matches
    <3>6. CASE is[j].id.slot = s
      <4>1. v.slots[is[j].id.slot] = node
        BY <2>2, <2>6, <2>7, <3>6
      <4>2. ~Matches(v, is[j].id)
        BY <2>4, <4>1 DEF Matches
      <4>3. Matches(w, is[j].id) => j = i
        BY <3>1, <3>2, <3>4, <3>6 DEF Matches
      <4> QED BY <4>2, <4>3
    <3> QED BY <3>5, <3>6
  <2>12. Known(n, v, t, js)
    BY <2>1, <2>7, <2>10, <2>11 DEF Settled, Known
  <2>13. Unique(js)
    BY <2>10 DEF Inv, Unique
  <2>14. Outcome(v, js)
    <3> SUFFICES ASSUME NEW j \in 1 .. Len(is)
                 PROVE  js[j].fires + js[j].cancels + (IF Matches(v, js[j].id) THEN 1 ELSE 0) = 1
      BY <2>10 DEF Outcome
    <3>1. is[j].fires + is[j].cancels + (IF Matches(w, is[j].id) THEN 1 ELSE 0) = 1
      BY DEF Inv, Outcome
    <3>2. CASE j = i
      <4>1. /\ js[j].fires = is[j].fires /\ js[j].cancels = is[j].cancels + 1
            /\ is[j].fires \in Nat /\ is[j].cancels \in Nat /\ js[j].id = is[j].id
        BY <2>10, <3>2
      <4>2. ~Matches(v, is[j].id) /\ Matches(w, is[j].id)
        BY <1>2, <2>11, <3>2
      <4> QED BY <3>1, <4>1, <4>2
    <3>3. CASE j # i
      BY <2>10, <2>11, <3>1, <3>3
    <3> QED BY <3>2, <3>3
  <2>15. Settled(n, P, t, v, js)
    BY <2>1, <2>9, <2>12 DEF Settled
  <2>16. Inv(at, v, js)
    BY <2>0, <2>7, <2>10, <2>13, <2>14, <2>15 DEF Inv
  <2> QED BY <1>2, <2>16 DEF v, js
<1> QED BY <1>1, <1>2

\* An advance fires a timer only in its own outcome, and not more than a tick
\* before the deadline of one that was added with the wheel level with the clock.
LEMMA InvAdvance ==
    ASSUME NEW at, NEW w, NEW is, Inv(at, w, is), NEW v, v = Advance(w, at),
           NEW js, js = [i \in DOMAIN is |->
                           [is[i] EXCEPT !.fires = @ + Count(v.fired, is[i].id)]]
    PROVE  /\ Inv(at, [v EXCEPT !.fired = <<>>], js)
           /\ DOMAIN js = 1 .. Len(is)
           /\ \A i \in 1 .. Len(is) :
                 (\E k \in DOMAIN v.fired : v.fired[k] = js[i].id) /\ js[i].caught_up
                    => at + TICK >= js[i].fire_at
<1>0. is \in Seq(Issue) /\ at \in Nat /\ Len(is) \in Nat /\ w.fired = <<>>
      /\ w.last_tick <= at \div TICK /\ DOMAIN is = 1 .. Len(is)
  BY DEF Inv
<1>1. PICK n, P, t : Settled(n, P, t, w, is)
  BY DEF Inv
<1> DEFINE a == [w EXCEPT !.fired = <<>>]
           u == [v EXCEPT !.fired = <<>>]
<1>2. n \in Nat /\ t \in Terms(n) /\ DueLater(n, t) /\ Sound(n, w, P, t) /\ Linked(P) /\ w \in WheelOf(n)
  BY <1>1 DEF Settled, Sound
<1>3. a = w
  BY <1>0, <1>2 DEF WheelOf
<1>4. Ticking(n, v, a, t) /\ v.last_tick <= at \div TICK
  BY <1>0, <1>2, AdvanceKeeps
<1>5. /\ v.generations = w.generations /\ SameTally(n, v, w) /\ Survives(n, v, w) /\ Fires(v, t)
      /\ \E Q : Sound(n, v, Q, t) /\ Linked(Q)
  BY <1>3, <1>4 DEF Ticking
<1> HIDE DEF a
<1>6. PICK Q : Sound(n, v, Q, t) /\ Linked(Q)
  BY <1>5
<1>7. v \in WheelOf(n) /\ v.fired \in Seq(Ids(n))
  BY <1>6 DEF Sound, WheelOf, Ids
<1>8. /\ u \in WheelOf(n) /\ u.slots = v.slots /\ u.generations = v.generations
      /\ u.free_list = v.free_list /\ u.buckets = v.buckets /\ u.cursors = v.cursors
      /\ u.last_tick = v.last_tick /\ u.fired = <<>>
  <2>1. <<>> \in Seq([slot : 1 .. n, generation : Nat])
    OBVIOUS
  <2> QED BY <1>7, <2>1 DEF WheelOf
<1> HIDE DEF u
<1>9. Sound(n, u, Q, t)
  BY <1>6, <1>8 DEF Sound, Clock, Agrees
<1>10. \A i \in 1 .. Len(is) : is[i] \in Issue /\ is[i].id \in Ids(n) /\ Count(v.fired, is[i].id) \in Nat
  <2>1. ASSUME NEW i \in 1 .. Len(is) PROVE is[i] \in Issue /\ is[i].id \in Ids(n)
    BY <1>0, <1>1 DEF Settled, Known
  <2>2. ASSUME NEW i \in 1 .. Len(is) PROVE Count(v.fired, is[i].id) \in Nat
    BY <1>7, <2>1, Counted
  <2> QED BY <2>1, <2>2
<1>11. /\ js \in Seq(Issue) /\ Len(js) = Len(is) /\ DOMAIN js = 1 .. Len(is)
       /\ \A i \in 1 .. Len(is) :
             /\ js[i].id = is[i].id /\ js[i].fire_at = is[i].fire_at
             /\ js[i].due = is[i].due /\ js[i].caught_up = is[i].caught_up
             /\ js[i].fires = is[i].fires + Count(v.fired, is[i].id)
             /\ js[i].cancels = is[i].cancels
             /\ is[i].fires \in Nat /\ is[i].cancels \in Nat
  <2> DEFINE e(i) == [is[i] EXCEPT !.fires = @ + Count(v.fired, is[i].id)]
  <2>1. ASSUME NEW i \in 1 .. Len(is)
        PROVE  /\ e(i) \in Issue /\ e(i).id = is[i].id /\ e(i).fire_at = is[i].fire_at
               /\ e(i).due = is[i].due /\ e(i).caught_up = is[i].caught_up
               /\ e(i).fires = is[i].fires + Count(v.fired, is[i].id)
               /\ e(i).cancels = is[i].cancels
               /\ is[i].fires \in Nat /\ is[i].cancels \in Nat
    BY <1>10 DEF Issue
  <2>2. js = [i \in 1 .. Len(is) |-> e(i)]
    BY <1>0
  <2> HIDE DEF e
  <2>3. js \in [1 .. Len(is) -> Issue] /\ \A i \in 1 .. Len(is) : js[i] = e(i)
    BY <2>1, <2>2
  <2>4. js \in Seq(Issue)
    BY <1>0, <2>3
  <2>5. DOMAIN js = 1 .. Len(is) /\ Len(js) = Len(is)
    BY <1>0, <2>3, <2>4
  <2> QED BY <2>1, <2>3, <2>4, <2>5
<1>12. ASSUME NEW i \in 1 .. Len(is)
       PROVE  /\ Matches(u, is[i].id) <=> Matches(v, is[i].id)
              /\ Matches(v, is[i].id) => Matches(w, is[i].id)
              /\ Count(v.fired, is[i].id) + (IF Matches(v, is[i].id) THEN 1 ELSE 0)
                    = IF Matches(w, is[i].id) THEN 1 ELSE 0
  <2>1. is[i].id \in Ids(n) /\ is[i].id.slot \in 1 .. n
    BY <1>10 DEF Ids
  <2>2. DOMAIN v.slots = 1 .. n /\ DOMAIN w.slots = 1 .. n
    BY <1>2, <1>7 DEF WheelOf
  <2>3. Matches(u, is[i].id) <=> Matches(v, is[i].id)
    BY <1>8 DEF Matches
  <2>4. Matches(v, is[i].id) => Matches(w, is[i].id)
    BY <1>5, <2>1, <2>2 DEF Matches, Survives
  <2>5. Tally(v, is[i].id) = Tally(w, is[i].id)
    BY <1>5, <2>1 DEF SameTally
  <2>6. Count(w.fired, is[i].id) = 0
    <3>1. {k \in DOMAIN w.fired : w.fired[k] = is[i].id} = {}
      BY <1>0
    <3> QED BY <3>1, FS_EmptySet DEF Count
  <2> QED BY <2>3, <2>4, <2>5, <2>6 DEF Tally
<1>13. Known(n, u, t, js)
  <2> SUFFICES ASSUME NEW i \in 1 .. Len(js)
               PROVE  /\ js[i].id \in Ids(n)
                      /\ js[i].id.generation <= u.generations[js[i].id.slot]
                      /\ Matches(u, js[i].id) =>
                            /\ t.due[js[i].id.slot] <= js[i].due
                            /\ t.fire[js[i].id.slot] = js[i].fire_at
                            /\ js[i].caught_up => js[i].id.slot \in t.soft
    BY DEF Known
  <2>1. i \in 1 .. Len(is)
    BY <1>11
  <2>2. /\ js[i].id = is[i].id /\ js[i].fire_at = is[i].fire_at
        /\ js[i].due = is[i].due /\ js[i].caught_up = is[i].caught_up
    BY <1>11, <2>1
  <2>3. /\ is[i].id \in Ids(n) /\ is[i].id.generation <= w.generations[is[i].id.slot]
        /\ Matches(w, is[i].id) =>
              /\ t.due[is[i].id.slot] <= is[i].due
              /\ t.fire[is[i].id.slot] = is[i].fire_at
              /\ is[i].caught_up => is[i].id.slot \in t.soft
    BY <1>1, <2>1 DEF Settled, Known
  <2>4. Matches(u, is[i].id) => Matches(w, is[i].id)
    BY <1>12, <2>1
  <2>5. u.generations = w.generations
    BY <1>5, <1>8
  <2> QED BY <2>2, <2>3, <2>4, <2>5
<1>14. Unique(js)
  BY <1>11 DEF Inv, Unique
<1>15. Outcome(u, js)
  <2> SUFFICES ASSUME NEW i \in 1 .. Len(is)
               PROVE  js[i].fires + js[i].cancels + (IF Matches(u, js[i].id) THEN 1 ELSE 0) = 1
    BY <1>11 DEF Outcome
  <2>1. is[i].fires + is[i].cancels + (IF Matches(w, is[i].id) THEN 1 ELSE 0) = 1
    BY DEF Inv, Outcome
  <2>2. /\ js[i].fires = is[i].fires + Count(v.fired, is[i].id) /\ js[i].cancels = is[i].cancels
        /\ is[i].fires \in Nat /\ is[i].cancels \in Nat /\ js[i].id = is[i].id
        /\ Count(v.fired, is[i].id) \in Nat
    BY <1>10, <1>11
  <2>3. /\ Matches(u, is[i].id) <=> Matches(v, is[i].id)
        /\ Count(v.fired, is[i].id) + (IF Matches(v, is[i].id) THEN 1 ELSE 0)
              = IF Matches(w, is[i].id) THEN 1 ELSE 0
    BY <1>12
  <2> QED BY <2>1, <2>2, <2>3
<1>16. Inv(at, u, js)
  <2>1. Settled(n, Q, t, u, js)
    BY <1>2, <1>6, <1>9, <1>13 DEF Settled
  <2> QED BY <1>0, <1>4, <1>8, <1>11, <1>14, <1>15, <2>1 DEF Inv
<1>17. ASSUME NEW i \in 1 .. Len(is), NEW k \in DOMAIN v.fired, v.fired[k] = js[i].id, js[i].caught_up
       PROVE  at + TICK >= js[i].fire_at
  <2> DEFINE s == is[i].id.slot
             T == v.last_tick
             C == {j \in DOMAIN v.fired : v.fired[j] = is[i].id}
  <2>1. v.fired[k] = is[i].id /\ is[i].caught_up /\ js[i].fire_at = is[i].fire_at
    BY <1>11, <1>17
  <2>2. Count(v.fired, is[i].id) # 0
    <3>1. IsFiniteSet(C)
      <4>1. DOMAIN v.fired = 1 .. Len(v.fired) /\ Len(v.fired) \in Nat
        BY <1>7
      <4>2. IsFiniteSet(1 .. Len(v.fired))
        BY <4>1, FS_Interval
      <4>3. C \subseteq 1 .. Len(v.fired)
        BY <4>1
      <4> QED BY <4>2, <4>3, FS_Subset
    <3>2. C # {}
      BY <2>1
    <3>3. Cardinality(C) # 0
      BY <3>1, <3>2, FS_EmptySet
    <3> QED BY <3>3 DEF Count
  <2>3. Matches(w, is[i].id)
    BY <1>10, <1>12, <2>2
  <2>4. s \in t.soft /\ t.fire[s] = is[i].fire_at
    BY <1>1, <2>1, <2>3 DEF Settled, Known
  <2>5. t.fire[s] <= (T + 1) * TICK
    <3>1. k \in 1 .. Len(v.fired) /\ v.fired[k].slot = s
      BY <1>7, <2>1
    <3> QED BY <1>5, <2>4, <3>1 DEF Fires
  <2>6. T \in Nat /\ T <= at \div TICK /\ at \div TICK \in Nat /\ TICK \in Nat
        /\ (at \div TICK) * TICK <= at
    <3>1. T \in Nat
      BY <1>7 DEF WheelOf
    <3> QED BY <1>0, <1>4, <3>1, Shape, DivBounds
  <2> DEFINE A == at \div TICK
  <2>7. A \in Nat /\ T + 1 \in Nat /\ A + 1 \in Nat /\ T + 1 <= A + 1 /\ A * TICK <= at
    BY <2>6
  <2> HIDE DEF A, T
  <2> DEFINE y == T + 1
             z == A + 1
  <2>8. y \in Nat /\ z \in Nat /\ y <= z
    BY <2>7
  <2> HIDE DEF y, z
  <2>9. y * TICK <= z * TICK /\ y * TICK \in Nat /\ z * TICK \in Nat
    BY <2>6, <2>8, Product
  <2>10. z * TICK = A * TICK + TICK /\ A * TICK \in Nat
    <3>1. TICK \in Nat /\ A \in Nat
      BY <2>6, <2>7
    <3> QED BY <3>1 DEF z
  <2>11. t.fire[s] \in Nat
    BY <1>2, <2>4 DEF Terms
  <2>12. t.fire[s] <= y * TICK
    BY <2>5 DEF y
  <2> QED BY <1>0, <2>1, <2>4, <2>6, <2>7, <2>9, <2>10, <2>11, <2>12, SMTT(30)
<1> QED BY <1>11, <1>16, <1>17 DEF u

\* A new timer: its slot gets terms of its own, the other slots keep theirs.
LEMMA InvAdd ==
    ASSUME NEW at, NEW w, NEW is, Inv(at, w, is), NEW F \in Nat, NEW f, f = F * TICK,
           NEW r, r = Add(w, at, f),
           NEW e, e = [id |-> r.id, fire_at |-> f, due |-> Max2(f, at) \div TICK,
                       caught_up |-> w.last_tick = at \div TICK, fires |-> 0, cancels |-> 0]
    PROVE  Inv(at, r.wheel, Append(is, e))
<1>0. is \in Seq(Issue) /\ at \in Nat /\ Len(is) \in Nat /\ w.fired = <<>>
      /\ w.last_tick <= at \div TICK /\ Unique(is) /\ Outcome(w, is)
  BY DEF Inv
<1>1. PICK n, P, t : Settled(n, P, t, w, is)
  BY DEF Inv
<1>2. /\ n \in Nat /\ t \in Terms(n) /\ DueLater(n, t) /\ Sound(n, w, P, t) /\ Linked(P)
      /\ Known(n, w, t, is) /\ w \in WheelOf(n)
  BY <1>1 DEF Settled, Sound
<1> DEFINE T == w.last_tick
           due == Max2(f, at) \div TICK
           d == SatSub(f, at) \div TICK
           cu == T = at \div TICK
<1>3. T \in Nat /\ T <= at \div TICK
  BY <1>0, <1>2 DEF WheelOf
<1>4. /\ d \in Nat /\ f \in Nat /\ due \in Nat
      /\ f \div TICK <= due /\ T <= due
      /\ d # 0 => T + d <= f \div TICK
      /\ cu => f <= (T + Max2(1, d) + 1) * TICK
  BY <1>0, <1>3, AddDelay
<1>5. Acc(n, w.slots, w.free_list, w.buckets, {})
  BY <1>2 DEF Sound
<1>6. PICK n2, s, gen, g : Grows(n, w, f, at, n2, s, gen, g)
  BY <1>0, <1>2, <1>4, <1>5, AddStep
<1>7. /\ n2 \in Nat /\ s \in 1 .. n2 /\ gen \in Nat /\ g \in WheelOf(n2)
      /\ r = [wheel |-> Place(g, s, f, at), id |-> [slot |-> s, generation |-> gen]]
      /\ \A x \in 1 .. n : x \in 1 .. n2
      /\ \A x \in 1 .. n2 : x # s => /\ x \in 1 .. n /\ g.slots[x] = w.slots[x]
                                     /\ g.generations[x] = w.generations[x]
      /\ g.slots[s] = NewNode(f, gen) /\ g.generations[s] = gen
      /\ s \in 1 .. n => ~w.slots[s].live /\ gen = w.generations[s] + 1
      /\ g.buckets = w.buckets /\ g.cursors = w.cursors
      /\ g.last_tick = T /\ g.fired = <<>>
      /\ Acc(n2, g.slots, g.free_list, g.buckets, {s})
  BY <1>0, <1>6 DEF Grows
<1> DEFINE t2 == [fire |-> [x \in 1 .. n2 |-> IF x = s THEN f ELSE t.fire[x]],
                  due |-> [x \in 1 .. n2 |-> IF x = s THEN due ELSE t.due[x]],
                  soft |-> {x \in 1 .. n2 : IF x = s THEN cu ELSE x \in t.soft}]
           v == Place(g, s, f, at)
           l == HashLevel(f, at)
           b == HashBucket(g, f, at)
           js == Append(is, e)
<1> HIDE DEF T, due, d, cu
<1>8. /\ t2.fire[s] = f /\ t2.due[s] = due /\ (s \in t2.soft <=> cu)
      /\ \A x \in 1 .. n2 : x # s => /\ t2.fire[x] = t.fire[x] /\ t2.due[x] = t.due[x]
                                     /\ x \in t2.soft <=> x \in t.soft
  BY <1>7
<1>9. t2 \in Terms(n2)
  <2>1. \A x \in 1 .. n : t.fire[x] \in Nat /\ t.due[x] \in Nat
    BY <1>2 DEF Terms
  <2> QED BY <1>4, <1>7, <2>1 DEF Terms
<1> HIDE DEF t2
<1>10. DueLater(n2, t2)
  BY <1>2, <1>4, <1>7, <1>8 DEF DueLater
<1>11. Clock(g, P)
  BY <1>2, <1>7 DEF Sound, Clock, T
<1>12. /\ g.slots \in [1 .. n2 -> Node] /\ g.free_list \in Seq(1 .. n2)
       /\ g.buckets \in Buckets(n2) /\ w.buckets \in Buckets(n)
  BY <1>2, <1>7 DEF WheelOf, Buckets
<1>13. Sched(g.buckets, P, t2)
  <2>1. Sched(g.buckets, P, t)
    BY <1>2, <1>7 DEF Sound
  <2>2. \A k \in Lv, c \in Bk : \A i \in 1 .. Len(g.buckets[k][c]) : g.buckets[k][c][i] # s
    BY <1>7 DEF Acc, QueuedLive
  <2> QED BY <1>7, <1>8, <1>12, <2>1, <2>2, SchedTerms, ZenonT(40)
<1>14. l \in Lv /\ b \in Bk /\ v \in WheelOf(n2) /\ AddedTo(v, g, s, l, b)
  BY <1>0, <1>4, <1>7, PlaceStep
<1>15. Entry(l, b, s, P, t2)
  <2>1. g.last_tick <= t2.due[s]
    BY <1>4, <1>7, <1>8
  <2>2. d # 0 => g.last_tick + d <= t2.fire[s] \div TICK
    BY <1>4, <1>7, <1>8
  <2>3. s \in t2.soft => t2.fire[s] <= (g.last_tick + Max2(1, d) + 1) * TICK
    BY <1>4, <1>7, <1>8
  <2>4. d \in Nat /\ d = SatSub(f, at) \div TICK
    BY <1>4 DEF d
  <2> QED BY <1>0, <1>4, <1>7, <1>9, <1>10, <1>11, <2>1, <2>2, <2>3, <2>4, HashIsTimely
<1> HIDE DEF l, b, v
<1>16. /\ v.slots = g.slots /\ v.free_list = g.free_list /\ v.generations = g.generations
       /\ v.fired = <<>> /\ v.last_tick = T /\ v.cursors = g.cursors
       /\ v.buckets = [g.buckets EXCEPT ![l][b] = Append(@, s)]
  BY <1>7, <1>14 DEF AddedTo
<1>17. Sound(n2, v, P, t2)
  <2>1. Sched(v.buckets, P, t2)
    <3>1. Sched([g.buckets EXCEPT ![l][b] = Append(@, s)], P, t2)
      BY <1>7, <1>12, <1>13, <1>14, <1>15, SchedPlace, Zenon
    <3> QED BY <1>16, <3>1
  <2>2. Acc(n2, v.slots, v.free_list, v.buckets, {})
    <3>1. s \in {s} /\ {s} \ {s} = {}
      OBVIOUS
    <3>2. Acc(n2, g.slots, g.free_list, [g.buckets EXCEPT ![l][b] = Append(@, s)], {s} \ {s})
      BY <1>7, <1>12, <1>14, <3>1, AccPlace, Zenon
    <3> QED BY <1>16, <3>1, <3>2
  <2>3. Clock(v, P)
    BY <1>7, <1>11, <1>16 DEF Clock
  <2>4. Agrees(n2, v, t2)
    <3>1. NewNode(f, gen).fire_at = f
      BY DEF NewNode
    <3>2. Agrees(n, w, t)
      BY <1>2 DEF Sound
    <3> QED BY <1>7, <1>8, <1>16, <3>1, <3>2 DEF Agrees
  <2> QED BY <1>14, <2>1, <2>2, <2>3, <2>4 DEF Sound
<1>18. /\ e \in Issue /\ e.id = [slot |-> s, generation |-> gen] /\ e.fire_at = f
       /\ e.due = due /\ e.caught_up = cu /\ e.fires = 0 /\ e.cancels = 0
       /\ e.id \in Ids(n2)
  <2>1. r.id = [slot |-> s, generation |-> gen] /\ s \in Nat
    BY <1>7
  <2> QED BY <1>4, <1>7, <2>1 DEF Issue, Ids, due, cu, T
<1>19. /\ js \in Seq(Issue) /\ Len(js) = Len(is) + 1 /\ js[Len(is) + 1] = e
       /\ \A i \in 1 .. Len(is) : js[i] = is[i] /\ i # Len(is) + 1
       /\ \A i \in 1 .. Len(js) : i \in 1 .. Len(is) \/ i = Len(is) + 1
  BY <1>0, <1>18, Appended
<1> HIDE DEF js
<1>20. Matches(v, e.id)
  <2>1. DOMAIN v.slots = 1 .. n2
    BY <1>14 DEF WheelOf
  <2>2. e.id.slot = s /\ e.id.generation = gen
    BY <1>18
  <2>3. v.slots[s].live /\ v.slots[s].generation = gen /\ ~v.slots[s].cancelled
    BY <1>7, <1>16 DEF NewNode
  <2> QED BY <1>7, <2>1, <2>2, <2>3 DEF Matches
<1>21. ASSUME NEW i \in 1 .. Len(is)
       PROVE  /\ is[i].id \in Ids(n2) /\ is[i].id # e.id
              /\ is[i].id.generation <= v.generations[is[i].id.slot]
              /\ Matches(v, is[i].id) <=> Matches(w, is[i].id)
              /\ Matches(w, is[i].id) => is[i].id.slot # s
  <2> DEFINE x == is[i].id.slot
  <2>1. is[i].id \in Ids(n) /\ x \in 1 .. n /\ is[i].id.generation \in Nat
        /\ is[i].id.generation <= w.generations[x]
    BY <1>2 DEF Known, Ids
  <2>2. is[i].id \in Ids(n2) /\ x \in 1 .. n2
    BY <1>7, <2>1 DEF Ids
  <2>3. DOMAIN v.slots = 1 .. n2 /\ DOMAIN w.slots = 1 .. n /\ w.generations[x] \in Nat
    BY <1>2, <1>14, <2>1 DEF WheelOf
  <2>4. CASE x # s
    <3>1. v.slots[x] = w.slots[x] /\ v.generations[x] = w.generations[x]
      BY <1>7, <1>16, <2>2, <2>4
    <3>2. Matches(v, is[i].id) <=> Matches(w, is[i].id)
      BY <2>1, <2>2, <2>3, <3>1 DEF Matches
    <3>3. is[i].id # e.id
      BY <1>18, <2>4
    <3> QED BY <2>1, <2>2, <2>4, <3>1, <3>2, <3>3
  <2>5. CASE x = s
    <3>1. ~w.slots[x].live /\ gen = w.generations[x] + 1 /\ v.generations[x] = gen
      BY <1>7, <1>16, <2>1, <2>5
    <3>2. is[i].id.generation < gen /\ is[i].id.generation <= gen
      BY <2>1, <2>3, <3>1
    <3>3. ~Matches(w, is[i].id)
      BY <3>1 DEF Matches
    <3>4. v.slots[x].generation = gen
      BY <1>7, <1>16, <2>5 DEF NewNode
    <3>5. ~Matches(v, is[i].id)
      BY <2>1, <3>2, <3>4 DEF Matches
    <3>6. is[i].id # e.id
      BY <1>18, <2>1, <3>2
    <3> QED BY <2>2, <3>1, <3>2, <3>3, <3>5, <3>6
  <2> QED BY <2>4, <2>5
<1>22. Known(n2, v, t2, js)
  <2> SUFFICES ASSUME NEW i \in 1 .. Len(js)
               PROVE  /\ js[i].id \in Ids(n2)
                      /\ js[i].id.generation <= v.generations[js[i].id.slot]
                      /\ Matches(v, js[i].id) =>
                            /\ t2.due[js[i].id.slot] <= js[i].due
                            /\ t2.fire[js[i].id.slot] = js[i].fire_at
                            /\ js[i].caught_up => js[i].id.slot \in t2.soft
    BY DEF Known
  <2>1. CASE i \in 1 .. Len(is)
    <3>1. js[i] = is[i]
      BY <1>19, <2>1
    <3>2. Matches(w, is[i].id) =>
             /\ t.due[is[i].id.slot] <= is[i].due
             /\ t.fire[is[i].id.slot] = is[i].fire_at
             /\ is[i].caught_up => is[i].id.slot \in t.soft
      BY <1>2, <2>1 DEF Known
    <3>3. is[i].id.slot \in 1 .. n2
      BY <1>21, <2>1 DEF Ids
    <3> QED BY <1>8, <1>21, <2>1, <3>1, <3>2, <3>3
  <2>2. CASE i = Len(is) + 1
    <3>1. js[i] = e /\ e.id.slot = s /\ e.id.generation = gen
      BY <1>18, <1>19, <2>2
    <3>2. gen <= v.generations[s] /\ t2.due[s] <= due
      BY <1>4, <1>7, <1>8, <1>16
    <3> QED BY <1>8, <1>18, <3>1, <3>2
  <2> QED BY <1>19, <2>1, <2>2
<1>23. Unique(js)
  <2> SUFFICES ASSUME NEW i \in 1 .. Len(js), NEW j \in 1 .. Len(js), js[i].id = js[j].id
               PROVE  i = j
    BY DEF Unique
  <2>1. CASE i \in 1 .. Len(is) /\ j \in 1 .. Len(is)
    BY <1>0, <1>19, <2>1 DEF Unique
  <2>2. CASE ~(i \in 1 .. Len(is) /\ j \in 1 .. Len(is))
    BY <1>19, <1>21, <2>2
  <2> QED BY <2>1, <2>2
<1>24. Outcome(v, js)
  <2> SUFFICES ASSUME NEW i \in 1 .. Len(js)
               PROVE  js[i].fires + js[i].cancels + (IF Matches(v, js[i].id) THEN 1 ELSE 0) = 1
    BY DEF Outcome
  <2>1. CASE i \in 1 .. Len(is)
    <3>1. js[i] = is[i] /\ (Matches(v, is[i].id) <=> Matches(w, is[i].id))
      BY <1>19, <1>21, <2>1
    <3>2. is[i].fires + is[i].cancels + (IF Matches(w, is[i].id) THEN 1 ELSE 0) = 1
      BY <1>0, <2>1 DEF Outcome
    <3> QED BY <3>1, <3>2
  <2>2. CASE i = Len(is) + 1
    <3>1. js[i] = e
      BY <1>19, <2>2
    <3> QED BY <1>18, <1>20, <3>1
  <2> QED BY <1>19, <2>1, <2>2
<1>25. Settled(n2, P, t2, v, js)
  BY <1>2, <1>7, <1>9, <1>10, <1>17, <1>22 DEF Settled
<1>26. Inv(at, v, js)
  BY <1>0, <1>3, <1>16, <1>19, <1>23, <1>24, <1>25 DEF Inv
<1>27. r.wheel = v
  BY <1>7 DEF v
<1> QED BY <1>26, <1>27 DEF js

-----------------------------------------------------------------------------
\* The theorems.

\* The inductive invariant.
IInv == Inv(now, wheel, issued) /\ AtMostATickEarly

\* The inductive invariant of the specification: every slot is in exactly one
\* place, and queued where the cursor of its level comes by in time for it.
THEOREM Invariance == Spec => []IInv
<1>1. Init => IInv
  <2> SUFFICES ASSUME Init PROVE IInv
    OBVIOUS
  <2>1. Inv(now, wheel, issued)
    BY InvInit DEF Init
  <2>2. JustFired = {}
    BY DEF Init, JustFired
  <2> QED BY <2>1, <2>2 DEF IInv, AtMostATickEarly
<1>2. IInv /\ [Next]_vars => IInv'
  <2> SUFFICES ASSUME IInv, [Next]_vars PROVE IInv'
    OBVIOUS
  <2>0. Inv(now, wheel, issued) /\ now \in Nat /\ issued \in Seq(Issue)
        /\ DOMAIN issued = 1 .. Len(issued) /\ TICK \in Nat \ {0}
    BY Shape DEF IInv, Inv
  <2>Q. ASSUME fired' = <<>> PROVE AtMostATickEarly'
    <3>1. JustFired' = {}
      BY <2>Q DEF JustFired
    <3> QED BY <3>1 DEF AtMostATickEarly
  <2>1. ASSUME NEW d \in Delays, PublicTimerAdd(now + d) PROVE IInv'
    <3> DEFINE F == (now + d + TICK - 1) \div TICK
               f == AlignUpToTick(now + d)
               r == Add(wheel, now, f)
               e == [id |-> r.id, fire_at |-> f, due |-> Max2(f, now) \div TICK,
                     caught_up |-> wheel.last_tick = now \div TICK, fires |-> 0, cancels |-> 0]
    <3>1. F \in Nat
      <4>1. d \in Nat
        BY WheelShape
      <4>2. now + d + TICK - 1 \in Nat
        BY <2>0, <4>1
      <4> QED BY <2>0, <4>2, DivBounds
    <3>2. f = F * TICK
      BY DEF AlignUpToTick
    <3>3. wheel' = r.wheel /\ issued' = Append(issued, e) /\ fired' = <<>> /\ now' = now
      BY <2>1 DEF PublicTimerAdd, CaughtUp
    <3>4. r = Add(wheel, now, f) /\ e = [id |-> r.id, fire_at |-> f, due |-> Max2(f, now) \div TICK,
                caught_up |-> wheel.last_tick = now \div TICK, fires |-> 0, cancels |-> 0]
      OBVIOUS
    <3> HIDE DEF F, f, r, e
    <3>5. Inv(now, r.wheel, Append(issued, e))
      BY <2>0, <3>1, <3>2, <3>4, InvAdd
    <3> QED BY <2>Q, <3>3, <3>5 DEF IInv
  <2>2. ASSUME NEW i \in DOMAIN issued, PublicTimerCancel(i) PROVE IInv'
    <3>1. /\ wheel' = Cancel(wheel, issued[i].id) /\ fired' = <<>> /\ now' = now
          /\ issued' = IF Matches(wheel, issued[i].id)
                       THEN [issued EXCEPT ![i].cancels = @ + 1] ELSE issued
      BY <2>2 DEF PublicTimerCancel
    <3>2. i \in 1 .. Len(issued)
      BY <2>0
    <3>3. Inv(now, Cancel(wheel, issued[i].id),
              IF Matches(wheel, issued[i].id)
              THEN [issued EXCEPT ![i].cancels = @ + 1] ELSE issued)
      BY <2>0, <3>2, InvCancel
    <3> QED BY <2>Q, <3>1, <3>3 DEF IInv
  <2>3. ASSUME AdvanceTimerWheel PROVE IInv'
    <3> DEFINE v == Advance(wheel, now)
               js == [i \in DOMAIN issued |->
                        [issued[i] EXCEPT !.fires = @ + Count(v.fired, issued[i].id)]]
    <3>1. wheel' = [v EXCEPT !.fired = <<>>] /\ fired' = v.fired /\ issued' = js /\ now' = now
      BY <2>3 DEF AdvanceTimerWheel, Count
    <3>2. v = Advance(wheel, now)
          /\ js = [i \in DOMAIN issued |->
                     [issued[i] EXCEPT !.fires = @ + Count(v.fired, issued[i].id)]]
      OBVIOUS
    <3> HIDE DEF v, js
    <3>3. /\ Inv(now, [v EXCEPT !.fired = <<>>], js)
          /\ DOMAIN js = 1 .. Len(issued)
          /\ \A i \in 1 .. Len(issued) :
                (\E k \in DOMAIN v.fired : v.fired[k] = js[i].id) /\ js[i].caught_up
                   => now + TICK >= js[i].fire_at
      BY <2>0, <3>2, InvAdvance, ZenonT(40)
    <3>4. AtMostATickEarly'
      BY <3>1, <3>3 DEF AtMostATickEarly, JustFired
    <3> QED BY <3>1, <3>3, <3>4 DEF IInv
  <2>4. ASSUME NEW gap \in Gaps, ClockRuns(gap) PROVE IInv'
    <3>1. gap \in Nat
      BY WheelShape
    <3>2. now' = now + gap /\ fired' = <<>> /\ wheel' = wheel /\ issued' = issued
      BY <2>4 DEF ClockRuns
    <3>3. Inv(now + gap, wheel, issued)
      BY <2>0, <3>1, InvClock
    <3> QED BY <2>Q, <3>2, <3>3 DEF IInv
  <2>5. CASE UNCHANGED vars
    BY <2>5 DEF IInv, vars, AtMostATickEarly, JustFired
  <2> QED BY <2>1, <2>2, <2>3, <2>4, <2>5 DEF Next
<1> QED BY <1>1, <1>2, PTL DEF Spec

\* Slot accounting of add, advance and cascade: an occupied slot is queued in
\* exactly one bucket, an empty one is on the free list exactly once.
THEOREM SlotsAreAccounted == Spec => []SlotAccounting
<1>1. IInv => SlotAccounting
  <2> SUFFICES ASSUME IInv, NEW s \in DOMAIN wheel.slots
               PROVE  LET free == {i \in DOMAIN wheel.free_list : wheel.free_list[i] = s}
                      IN  IF wheel.slots[s].live
                          THEN Cardinality(QueuedAt(s)) = 1 /\ free = {}
                          ELSE QueuedAt(s) = {} /\ Cardinality(free) = 1
    BY DEF SlotAccounting
  <2> DEFINE free == {i \in DOMAIN wheel.free_list : wheel.free_list[i] = s}
             B == wheel.buckets
  <2>1. PICK n, P, t : Settled(n, P, t, wheel, issued)
    BY DEF IInv, Inv
  <2>2. /\ n \in Nat /\ wheel \in WheelOf(n)
        /\ Acc(n, wheel.slots, wheel.free_list, wheel.buckets, {})
    BY <2>1 DEF Settled, Sound
  <2>3. /\ s \in 1 .. n /\ DOMAIN wheel.free_list = 1 .. Len(wheel.free_list)
        /\ \A l \in Lv, b \in Bk : DOMAIN B[l][b] = 1 .. Len(B[l][b])
    BY <2>2 DEF WheelOf
  <2>4. /\ QueuedLive(wheel.slots, B, {}) /\ QueuedOnce(B) /\ LiveQueued(n, wheel.slots, B, {})
        /\ FreeOnce(wheel.slots, wheel.free_list) /\ DeadFree(n, wheel.slots, wheel.free_list)
    BY <2>2 DEF Acc
  <2>5. \A z : z \in QueuedAt(s) <=>
           \E l \in Lv, b \in Bk : \E i \in 1 .. Len(B[l][b]) : z = <<l, b, i>> /\ B[l][b][i] = s
    <3>1. \A z : z \in QueuedAt(s) <=>
             \E l \in Lv, b \in Bk : \E i \in DOMAIN B[l][b] : z = <<l, b, i>> /\ B[l][b][i] = s
      <4> DEFINE D(l, b) == {j \in DOMAIN B[l][b] : B[l][b][j] = s}
                 At(l, b) == {<<l, b, i>> : i \in D(l, b)}
      <4>1. QueuedAt(s) = UNION {At(l, b) : l \in Lv, b \in Bk}
        BY DEF QueuedAt, Lv, Bk
      <4>2. \A l \in Lv, b \in Bk : \A z : z \in At(l, b) <=>
               \E i \in DOMAIN B[l][b] : z = <<l, b, i>> /\ B[l][b][i] = s
        BY Zenon
      <4> HIDE DEF At
      <4> DEFINE S == {At(l, b) : l \in Lv, b \in Bk}
      <4>3. \A A : A \in S <=> \E l \in Lv, b \in Bk : A = At(l, b)
        OBVIOUS
      <4> HIDE DEF S
      <4>4. \A z : z \in UNION S <=> \E A \in S : z \in A
        OBVIOUS
      <4>5. QueuedAt(s) = UNION S
        BY <4>1 DEF S
      <4>6. ASSUME NEW z, z \in QueuedAt(s)
            PROVE  \E l \in Lv, b \in Bk : \E i \in DOMAIN B[l][b] : z = <<l, b, i>> /\ B[l][b][i] = s
        <5>1. PICK A \in S : z \in A
          BY <4>4, <4>5, <4>6
        <5>2. PICK l \in Lv, b \in Bk : A = At(l, b)
          BY <4>3
        <5>3. PICK i \in DOMAIN B[l][b] : z = <<l, b, i>> /\ B[l][b][i] = s
          BY <4>2, <5>1, <5>2
        <5> QED BY <5>3
      <4>7. ASSUME NEW z, NEW l \in Lv, NEW b \in Bk, NEW i \in DOMAIN B[l][b],
                   z = <<l, b, i>>, B[l][b][i] = s
            PROVE  z \in QueuedAt(s)
        <5>1. z \in At(l, b)
          BY <4>2, <4>7
        <5>2. At(l, b) \in S
          BY <4>3
        <5> QED BY <4>4, <4>5, <5>1, <5>2
      <4> QED BY <4>6, <4>7
    <3> QED BY <2>3, <3>1
  <2>6. CASE wheel.slots[s].live
    <3>1. PICK l \in Lv, b \in Bk : \E i \in 1 .. Len(B[l][b]) : B[l][b][i] = s
      BY <2>3, <2>4, <2>6 DEF LiveQueued, Queued
    <3>2. PICK i \in 1 .. Len(B[l][b]) : B[l][b][i] = s
      BY <3>1
    <3>3. QueuedAt(s) = {<<l, b, i>>}
      <4>1. <<l, b, i>> \in QueuedAt(s)
        BY <2>5, <3>2
      <4>2. ASSUME NEW z \in QueuedAt(s) PROVE z = <<l, b, i>>
        <5>1. PICK k \in Lv, c \in Bk : \E j \in 1 .. Len(B[k][c]) : z = <<k, c, j>> /\ B[k][c][j] = s
          BY <2>5
        <5>2. PICK j \in 1 .. Len(B[k][c]) : z = <<k, c, j>> /\ B[k][c][j] = s
          BY <5>1
        <5>3. k = l /\ c = b /\ j = i
          BY <2>4, <3>2, <5>2, SMTT(30) DEF QueuedOnce
        <5> QED BY <5>2, <5>3
      <4> QED BY <4>1, <4>2
    <3>4. Cardinality(QueuedAt(s)) = 1
      BY <3>3, FS_Singleton
    <3>5. free = {}
      BY <2>3, <2>4, <2>6 DEF FreeOnce
    <3> QED BY <2>6, <3>4, <3>5
  <2>7. CASE ~wheel.slots[s].live
    <3>1. QueuedAt(s) = {}
      BY <2>4, <2>5, <2>7 DEF QueuedLive
    <3>2. PICK i \in 1 .. Len(wheel.free_list) : wheel.free_list[i] = s
      BY <2>3, <2>4, <2>7 DEF DeadFree
    <3>3. free = {i}
      BY <2>3, <2>4, <3>2 DEF FreeOnce
    <3>4. Cardinality(free) = 1
      BY <3>3, FS_Singleton
    <3> QED BY <2>7, <3>1, <3>4
  <2> QED BY <2>6, <2>7
<1> QED BY <1>1, Invariance, PTL

\* Every timer ever added is still pending, was delivered once or was cancelled
\* once: an id kept after its slot was reused names no other timer.
THEOREM TimersHaveOneOutcome == Spec => []OneOutcome
<1>1. IInv => OneOutcome
  <2> SUFFICES ASSUME IInv PROVE OneOutcome
    OBVIOUS
  <2>1. DOMAIN issued = 1 .. Len(issued) /\ Outcome(wheel, issued)
    BY DEF IInv, Inv
  <2> QED BY <2>1 DEF OneOutcome, Outcome
<1> QED BY <1>1, Invariance, PTL

\* The wheel's time is inside the turn that the cursor of every level is in.
LEMMA LevelsReach ==
    ASSUME NEW n \in Nat, NEW w \in WheelOf(n), NEW P, Clock(w, P), Linked(P)
    PROVE  \A l \in Lv : w.last_tick < (P[l] + 1) * Span[l]
<1> DEFINE T == w.last_tick
           G == {l \in Lv : T < (P[l] + 1) * Span[l]}
           m == LEVELS - 1
<1>0. m \in Nat /\ Lv = 0 .. m /\ T \in Nat /\ P \in [Lv -> Nat] /\ BUCKETS \in Nat
  <2>1. m \in Nat /\ Lv = 0 .. m
    BY Shape DEF Lv
  <2>2. T \in Nat /\ P \in [Lv -> Nat] /\ BUCKETS \in Nat
    BY Shape DEF WheelOf, Clock
  <2> QED BY <2>1, <2>2
<1>1. 0 \in G
  <2>1. P[0] = T /\ Span[0] = 1 /\ 0 \in Lv
    BY Shape DEF Clock
  <2> QED BY <1>0, <2>1
<1>2. ASSUME NEW k \in 1 .. m, k - 1 \in G PROVE k \in G
  <2> DEFINE p == P[k]
             q == P[k - 1]
             u == Span[k - 1]
  <2>1. k \in Lv /\ k # 0 /\ k - 1 \in Lv
    BY <1>0
  <2>2. Span[k] = BUCKETS * u /\ u \in Nat /\ p \in Nat /\ q \in Nat
    BY <1>0, <2>1, Shape
  <2>3. q < (p + 1) * BUCKETS
    BY <2>1 DEF Linked, LinkAt
  <2>4. T < (q + 1) * u
    BY <1>2
  <2> HIDE DEF p, q, u
  <2> DEFINE x == q + 1
             y == (p + 1) * BUCKETS
  <2>5. x \in Nat /\ y \in Nat /\ x <= y
    BY <1>0, <2>2, <2>3
  <2>6. y * u = (p + 1) * (BUCKETS * u)
    BY <1>0, <2>2
  <2> HIDE DEF x, y
  <2>7. x * u <= y * u /\ x * u \in Nat /\ y * u \in Nat
    BY <2>2, <2>5, Product
  <2>8. T < y * u
    BY <1>0, <2>4, <2>7 DEF x
  <2>9. T < (P[k] + 1) * Span[k]
    BY <2>2, <2>6, <2>8 DEF p
  <2> QED BY <2>1, <2>9
<1> HIDE DEF G, m
<1>3. \A k \in 0 .. m : k \in G
  BY <1>0, <1>1, <1>2, UpTo
<1> QED BY <1>0, <1>3 DEF G, T

\* No timer is late by the wheel's own time, at whatever level it was hashed,
\* however often it was re-hashed and however far ahead it was added.
THEOREM TimersAreNeverOverdue == Spec => []NeverOverdue
<1>1. IInv => NeverOverdue
  <2> SUFFICES ASSUME IInv, NEW j \in DOMAIN issued, Matches(wheel, issued[j].id)
               PROVE  wheel.last_tick <= issued[j].due
    BY DEF NeverOverdue
  <2> DEFINE s == issued[j].id.slot
             T == wheel.last_tick
             B == wheel.buckets
  <2>1. PICK n, P, t : Settled(n, P, t, wheel, issued)
    BY DEF IInv, Inv
  <2>2. /\ n \in Nat /\ wheel \in WheelOf(n) /\ t \in Terms(n) /\ DueLater(n, t)
        /\ Acc(n, wheel.slots, wheel.free_list, wheel.buckets, {})
        /\ Clock(wheel, P) /\ Sched(B, P, t) /\ Linked(P) /\ Known(n, wheel, t, issued)
    BY <2>1 DEF Settled, Sound
  <2>3. j \in 1 .. Len(issued) /\ issued[j] \in Issue
    BY DEF IInv, Inv
  <2>4. s \in 1 .. n /\ t.due[s] <= issued[j].due /\ issued[j].due \in Nat
    BY <2>2, <2>3 DEF Known, Ids, Issue
  <2>5. wheel.slots[s].live
    BY DEF Matches
  <2>6. PICK l \in Lv, b \in Bk : \E i \in 1 .. Len(B[l][b]) : B[l][b][i] = s
    BY <2>2, <2>4, <2>5 DEF Acc, LiveQueued, Queued
  <2>7. Entry(l, b, s, P, t)
    BY <2>2, <2>6 DEF Sched
  <2>8. PICK m \in Nat : P[l] < m /\ RightVisit(l, s, m, t)
    BY <2>7 DEF Entry
  <2>9. /\ T \in Nat /\ P[l] \in Nat /\ P[0] = T /\ Span[l] \in Nat
        /\ t.fire[s] \div TICK <= t.due[s] /\ t.due[s] \in Nat /\ t.fire[s] \in Nat
    BY <2>2, <2>4, <2>6, Shape DEF WheelOf, Clock, DueLater, Terms
  <2>10. CASE l = 0
    <3>1. T < m /\ m <= t.due[s] + 1
      BY <2>8, <2>9, <2>10 DEF RightVisit
    <3> QED BY <2>4, <2>9, <3>1
  <2>11. CASE l # 0
    <3> DEFINE y == P[l] + 1
               u == Span[l]
               f == t.fire[s] \div TICK
    <3>1. m * u <= f
      BY <2>8, <2>11 DEF RightVisit
    <3>2. T < y * u
      BY <2>2, <2>6, LevelsReach
    <3>3. y \in Nat /\ y <= m /\ u \in Nat
      BY <2>8, <2>9
    <3>4. f \in Nat /\ f <= t.due[s]
      BY <2>9, Shape, DivBounds
    <3> HIDE DEF y, u, f
    <3>5. y * u <= m * u /\ y * u \in Nat /\ m * u \in Nat
      BY <3>3, Product
    <3> QED BY <2>4, <2>9, <3>1, <3>2, <3>4, <3>5
  <2> QED BY <2>10, <2>11
<1> QED BY <1>1, Invariance, PTL

\* A timer added while the wheel was level with the clock is in no batch that
\* comes more than a tick before its rounded-up deadline.
THEOREM TimersAreHardlyEarly == Spec => []AtMostATickEarly
<1>1. IInv => AtMostATickEarly
  BY DEF IInv
<1> QED BY <1>1, Invariance, PTL

=============================================================================
