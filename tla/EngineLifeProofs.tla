-------------------------- MODULE EngineLifeProofs --------------------------
(***************************************************************************)
(* Proofs, for any number of engines, threads, ports and drivers, of what  *)
(* the run of EngineLife checks on a small instance: no mbuf outlives its  *)
(* pool, and no thread is left with a pointer to counters that are gone.   *)
(***************************************************************************)
EXTENDS EngineLife, SequenceTheorems, TLAPS

Distinct(s) == \A i, j \in DOMAIN s : s[i] = s[j] => i = j
In(a, s)    == \E i \in DOMAIN s : s[i] = a

\* Where a is still to come, b comes after it.
Precedes(a, b, s) == \A i \in DOMAIN s : s[i] = a => \E j \in DOMAIN s : i < j /\ s[j] = b

\* The step of Drop that clears an owner.
ClearedBy(o) == IF o = "recv" THEN "flow" ELSE o
Kinds        == {"rx", "tx_data"}

\* What is said about the steps that a call still has to take, and which the
\* call keeps from step to step.
Ordered(s) ==
    /\ Distinct(s)
    /\ \A o \in Owners, k \in Kinds : Precedes(ClearedBy(o), k, s)
    /\ Precedes("unbind", "counters", s)

Steps == {"checks", "rx", "tx_hdr", "tx_data", "bind", "configure", "rxq", "txq", "start",
          "llq", "mac", "scratch", "events", "flow", "ring", "injector", "port", "unbind",
          "counters", "inject"}

-----------------------------------------------------------------------------
\* The lists of steps.

IsJoin(s, a, b) == s = a \o b

LEMMA Joined ==
    ASSUME NEW a \in Seq(Steps), NEW b \in Seq(Steps), NEW s, IsJoin(s, a, b)
    PROVE  /\ s \in Seq(Steps) /\ Len(s) = Len(a) + Len(b) /\ DOMAIN s = 1 .. Len(a) + Len(b)
           /\ \A i \in 1 .. Len(a) : s[i] = a[i]
           /\ \A i \in 1 .. Len(b) : s[Len(a) + i] = b[i]
<1> DEFINE m == Len(a)
           n == Len(b)
<1> HIDE DEF m, n
<1> SUFFICES /\ s \in Seq(Steps) /\ Len(s) = m + n /\ DOMAIN s = 1 .. m + n
             /\ \A i \in 1 .. m : s[i] = a[i]
             /\ \A i \in 1 .. n : s[m + i] = b[i]
  BY DEF m, n
<1>1. m \in Nat /\ n \in Nat
  BY LenProperties DEF m, n
<1>2. /\ s \in Seq(Steps) /\ Len(s) = m + n
      /\ \A i \in 1 .. m + n : s[i] = IF i <= m THEN a[i] ELSE b[i - m]
  BY ConcatProperties DEF IsJoin, m, n
<1>3. DOMAIN s = 1 .. m + n
  BY <1>2, LenProperties
<1>4. \A i \in 1 .. m : s[i] = a[i]
  BY <1>1, <1>2
<1>5. ASSUME NEW i \in 1 .. n PROVE s[m + i] = b[i]
  <2>1. m + i \in 1 .. m + n /\ ~(m + i <= m) /\ (m + i) - m = i
    BY <1>1
  <2> QED BY <1>2, <2>1
<1> QED BY <1>2, <1>3, <1>4, <1>5

LEMMA NewList ==
    ASSUME NEW p
    PROVE  LET s == StepsFor(p)
           IN  /\ s \in Seq(Steps) /\ s # <<>> /\ Distinct(s)
               /\ In("rx", s) /\ In("tx_data", s) /\ In("bind", s)
<1> DEFINE s == StepsFor(p)
<1> SUFFICES /\ s \in Seq(Steps) /\ s # <<>> /\ Distinct(s)
             /\ In("rx", s) /\ In("tx_data", s) /\ In("bind", s)
  OBVIOUS
<1>1. /\ NewSteps \in Seq(Steps) /\ Len(NewSteps) = 5
      /\ NewSteps[1] = "checks" /\ NewSteps[2] = "rx" /\ NewSteps[3] = "tx_hdr"
      /\ NewSteps[4] = "tx_data" /\ NewSteps[5] = "bind"
  BY DEF NewSteps, Steps
<1>p. /\ PortSteps \in Seq(Steps) /\ Len(PortSteps) = 6
      /\ PortSteps[1] = "configure" /\ PortSteps[2] = "rxq" /\ PortSteps[3] = "txq"
      /\ PortSteps[4] = "start" /\ PortSteps[5] = "llq" /\ PortSteps[6] = "mac"
  BY DEF PortSteps, Steps
<1>2. /\ s \in Seq(Steps) /\ s # <<>> /\ Len(s) \in {5, 11} /\ DOMAIN s = 1 .. Len(s)
      /\ s[1] = "checks" /\ s[2] = "rx" /\ s[3] = "tx_hdr" /\ s[4] = "tx_data" /\ s[5] = "bind"
      /\ Len(s) = 11 => /\ s[6] = "configure" /\ s[7] = "rxq" /\ s[8] = "txq"
                        /\ s[9] = "start" /\ s[10] = "llq" /\ s[11] = "mac"
  <2>1. CASE p = MAX
    <3>1. s = NewSteps \o <<>>
      BY <2>1 DEF StepsFor
    <3>2. s = NewSteps
      BY <1>1, <3>1
    <3> HIDE DEF s
    <3>3. s \in Seq(Steps) /\ Len(s) = 5 /\ DOMAIN s = 1 .. Len(s)
      BY <1>1, <3>2, LenProperties
    <3>4. s # <<>>
      BY <3>3
    <3> QED BY <1>1, <3>2, <3>3, <3>4
  <2>2. CASE p # MAX
    <3>1. s = NewSteps \o PortSteps
      BY <2>2 DEF StepsFor
    <3> HIDE DEF s
    <3>2. /\ s \in Seq(Steps) /\ Len(s) = 11 /\ DOMAIN s = 1 .. Len(s)
          /\ \A i \in 1 .. 5 : s[i] = NewSteps[i]
          /\ \A i \in 1 .. 6 : s[5 + i] = PortSteps[i]
      <4>1. 5 + 6 = 11
        OBVIOUS
      <4>2. NewSteps \in Seq(Steps) /\ Len(NewSteps) = 5 /\ PortSteps \in Seq(Steps) /\ Len(PortSteps) = 6
        BY <1>1, <1>p
      <4>3. IsJoin(s, NewSteps, PortSteps)
        BY <3>1 DEF IsJoin
      <4>4. NewSteps \in Seq(Steps) /\ PortSteps \in Seq(Steps)
        BY <4>2
      <4>5. /\ s \in Seq(Steps) /\ Len(s) = Len(NewSteps) + Len(PortSteps)
            /\ DOMAIN s = 1 .. Len(NewSteps) + Len(PortSteps)
            /\ \A i \in 1 .. Len(NewSteps) : s[i] = NewSteps[i]
            /\ \A i \in 1 .. Len(PortSteps) : s[Len(NewSteps) + i] = PortSteps[i]
        BY <4>3, <4>4, Joined, ZenonT(40)
      <4> QED BY <4>1, <4>2, <4>5
    <3>3. /\ s[1] = "checks" /\ s[2] = "rx" /\ s[3] = "tx_hdr" /\ s[4] = "tx_data"
          /\ s[5] = "bind" /\ s[6] = "configure" /\ s[7] = "rxq" /\ s[8] = "txq"
          /\ s[9] = "start" /\ s[10] = "llq" /\ s[11] = "mac"
      <4>1. s[5 + 1] = "configure" /\ s[5 + 2] = "rxq" /\ s[5 + 3] = "txq"
            /\ s[5 + 4] = "start" /\ s[5 + 5] = "llq" /\ s[5 + 6] = "mac"
        BY <1>p, <3>2
      <4> QED BY <1>1, <3>2, <4>1
    <3>4. s # <<>>
      <4>1. Len(s) # 0
        BY <3>2
      <4> QED BY <4>1, EmptySeq
    <3> QED BY <3>2, <3>3, <3>4
  <2> QED BY <2>1, <2>2
<1> HIDE DEF s
<1>3. Distinct(s)
  <2> SUFFICES ASSUME NEW i \in DOMAIN s, NEW j \in DOMAIN s, s[i] = s[j] PROVE i = j
    BY DEF Distinct
  <2>1. CASE Len(s) = 5
    <3>1. i \in {1, 2, 3, 4, 5} /\ j \in {1, 2, 3, 4, 5}
      BY <1>2, <2>1
    <3> QED BY <1>2, <3>1
  <2>2. CASE Len(s) = 11
    <3>1. /\ i \in {1, 2, 3, 4, 5, 6, 7, 8, 9, 10, 11}
          /\ j \in {1, 2, 3, 4, 5, 6, 7, 8, 9, 10, 11}
      BY <1>2, <2>2
    <3> QED BY <1>2, <2>2, <3>1
  <2> QED BY <1>2, <2>1, <2>2
<1>4. In("rx", s) /\ In("tx_data", s) /\ In("bind", s)
  <2>1. 2 \in DOMAIN s /\ 4 \in DOMAIN s /\ 5 \in DOMAIN s
    BY <1>2
  <2> QED BY <1>2, <2>1 DEF In
<1> QED BY <1>2, <1>3, <1>4

LEMMA DropList ==
    ASSUME NEW p
    PROVE  LET s == DropSteps(p)
           IN  /\ s \in Seq(Steps) /\ s # <<>> /\ Ordered(s)
               /\ \A o \in Owners : In(ClearedBy(o), s)
               /\ In("unbind", s)
<1> DEFINE s == DropSteps(p)
<1> SUFFICES /\ s \in Seq(Steps) /\ s # <<>> /\ Ordered(s)
             /\ \A o \in Owners : In(ClearedBy(o), s)
             /\ In("unbind", s)
  OBVIOUS
<1> DEFINE A == <<"scratch", "events", "flow", "ring", "injector">>
           B == <<"unbind", "counters", "rx", "tx_hdr", "tx_data", "inject">>
           P == IF p = MAX THEN <<>> ELSE <<"port">>
\* d is the number of steps for the port.
           d == IF p = MAX THEN 0 ELSE 1
<1>1. s = A \o P \o B
  BY DEF DropSteps
<1>a. /\ A \in Seq(Steps) /\ Len(A) = 5 /\ A[1] = "scratch" /\ A[2] = "events"
      /\ A[3] = "flow" /\ A[4] = "ring" /\ A[5] = "injector"
  BY DEF Steps
<1>b. /\ B \in Seq(Steps) /\ Len(B) = 6 /\ B[1] = "unbind" /\ B[2] = "counters"
      /\ B[3] = "rx" /\ B[4] = "tx_hdr" /\ B[5] = "tx_data" /\ B[6] = "inject"
  BY DEF Steps
<1>p. P \in Seq(Steps) /\ Len(P) = d /\ (d = 1 => P[1] = "port") /\ d \in {0, 1}
  <2>1. CASE p = MAX
    <3>1. P = <<>> /\ d = 0
      BY <2>1
    <3> QED BY <3>1
  <2>2. CASE p # MAX
    <3>1. P = <<"port">> /\ d = 1
      BY <2>2
    <3>2. <<"port">> \in Seq(Steps) /\ Len(<<"port">>) = 1 /\ <<"port">>[1] = "port"
      BY DEF Steps
    <3> QED BY <3>1, <3>2
  <2> QED BY <2>1, <2>2
<1> HIDE DEF s, A, B, P, d
<1>2. /\ d \in {0, 1}
      /\ s \in Seq(Steps) /\ s # <<>> /\ Len(s) = 11 + d /\ DOMAIN s = 1 .. 11 + d
      /\ s[1] = "scratch" /\ s[2] = "events" /\ s[3] = "flow" /\ s[4] = "ring"
      /\ s[5] = "injector" /\ (d = 1 => s[6] = "port")
      /\ s[6 + d] = "unbind" /\ s[7 + d] = "counters" /\ s[8 + d] = "rx"
      /\ s[9 + d] = "tx_hdr" /\ s[10 + d] = "tx_data" /\ s[11 + d] = "inject"
  <2> DEFINE C == A \o P
  <2>1. /\ C \in Seq(Steps) /\ Len(C) = 5 + d
        /\ \A i \in 1 .. 5 : C[i] = A[i]
        /\ \A i \in 1 .. d : C[5 + i] = P[i]
    <3>1. A \in Seq(Steps) /\ Len(A) = 5 /\ P \in Seq(Steps) /\ Len(P) = d
      BY <1>a, <1>p
    <3>2. IsJoin(C, A, P)
      BY DEF IsJoin
    <3> HIDE DEF C
    <3>3. /\ C \in Seq(Steps) /\ Len(C) = Len(A) + Len(P) /\ DOMAIN C = 1 .. Len(A) + Len(P)
          /\ \A i \in 1 .. Len(A) : C[i] = A[i]
          /\ \A i \in 1 .. Len(P) : C[Len(A) + i] = P[i]
      <4>1. A \in Seq(Steps) /\ P \in Seq(Steps)
        BY <3>1
      <4> QED BY <3>2, <4>1, Joined, ZenonT(40)
    <3> QED BY <3>1, <3>3
  <2> HIDE DEF C
  <2>2. s = C \o B
    BY <1>1 DEF C
  <2>3. /\ s \in Seq(Steps) /\ Len(s) = 11 + d /\ DOMAIN s = 1 .. 11 + d
        /\ \A i \in 1 .. 5 + d : s[i] = C[i]
        /\ \A i \in 1 .. 6 : s[5 + d + i] = B[i]
    <3>1. d \in Nat /\ 5 + d + 6 = 11 + d
      BY <1>p
    <3>2. C \in Seq(Steps) /\ Len(C) = 5 + d /\ B \in Seq(Steps) /\ Len(B) = 6
      BY <1>b, <2>1
    <3>3. IsJoin(s, C, B)
      BY <2>2 DEF IsJoin
    <3>4. /\ s \in Seq(Steps) /\ Len(s) = Len(C) + Len(B) /\ DOMAIN s = 1 .. Len(C) + Len(B)
          /\ \A i \in 1 .. Len(C) : s[i] = C[i]
          /\ \A i \in 1 .. Len(B) : s[Len(C) + i] = B[i]
      <4>1. C \in Seq(Steps) /\ B \in Seq(Steps)
        BY <3>2
      <4> QED BY <3>3, <4>1, Joined, ZenonT(40)
    <3> QED BY <3>1, <3>2, <3>4
  <2>4. /\ s[1] = "scratch" /\ s[2] = "events" /\ s[3] = "flow" /\ s[4] = "ring"
        /\ s[5] = "injector"
    BY <1>a, <1>p, <2>1, <2>3
  <2>5. d = 1 => s[6] = "port"
    <3> SUFFICES ASSUME d = 1 PROVE s[6] = "port"
      OBVIOUS
    <3>1. s[6] = C[6] /\ C[5 + 1] = P[1] /\ 5 + 1 = 6
      BY <2>1, <2>3
    <3> QED BY <1>p, <3>1
  <2>6. /\ s[5 + d + 1] = "unbind" /\ s[5 + d + 2] = "counters" /\ s[5 + d + 3] = "rx"
        /\ s[5 + d + 4] = "tx_hdr" /\ s[5 + d + 5] = "tx_data" /\ s[5 + d + 6] = "inject"
    BY <1>b, <2>3
  <2>7. /\ 5 + d + 1 = 6 + d /\ 5 + d + 2 = 7 + d /\ 5 + d + 3 = 8 + d
        /\ 5 + d + 4 = 9 + d /\ 5 + d + 5 = 10 + d /\ 5 + d + 6 = 11 + d
    BY <1>p
  <2>8. s # <<>>
    BY <1>p, <2>3
  <2> QED BY <1>p, <2>3, <2>4, <2>5, <2>6, <2>7, <2>8
<1>3. /\ DOMAIN s = {1, 2, 3, 4, 5, 6 + d, 7 + d, 8 + d, 9 + d, 10 + d, 11 + d}
                        \cup (IF d = 1 THEN {6} ELSE {})
  BY <1>2
<1>4. Distinct(s)
  <2> SUFFICES ASSUME NEW i \in DOMAIN s, NEW j \in DOMAIN s, s[i] = s[j] PROVE i = j
    BY DEF Distinct
  <2>1. CASE d = 0
    <3>1. /\ i \in {1, 2, 3, 4, 5, 6, 7, 8, 9, 10, 11}
          /\ j \in {1, 2, 3, 4, 5, 6, 7, 8, 9, 10, 11}
      BY <1>2, <2>1
    <3> QED BY <1>2, <2>1, <3>1
  <2>2. CASE d = 1
    <3>1. /\ i \in {1, 2, 3, 4, 5, 6, 7, 8, 9, 10, 11, 12}
          /\ j \in {1, 2, 3, 4, 5, 6, 7, 8, 9, 10, 11, 12}
      BY <1>2, <2>2
    <3> QED BY <1>2, <2>2, <3>1
  <2> QED BY <1>2, <2>1, <2>2
<1>5. ASSUME NEW o \in Owners
      PROVE  \E i \in 1 .. 5 : i \in DOMAIN s /\ s[i] = ClearedBy(o)
  <2>1. 1 \in DOMAIN s /\ 2 \in DOMAIN s /\ 3 \in DOMAIN s /\ 4 \in DOMAIN s /\ 5 \in DOMAIN s
    BY <1>2
  <2>2. ClearedBy(o) \in {s[1], s[2], s[3], s[4], s[5]}
    BY <1>2 DEF Owners, RxOwners, ClearedBy
  <2> QED BY <2>1, <2>2
<1>6. ASSUME NEW o \in Owners, NEW k \in Kinds PROVE Precedes(ClearedBy(o), k, s)
  <2>1. PICK i \in 1 .. 5 : i \in DOMAIN s /\ s[i] = ClearedBy(o)
    BY <1>5
  <2>2. PICK j \in {8 + d, 10 + d} : j \in DOMAIN s /\ s[j] = k
    BY <1>2 DEF Kinds
  <2>3. i < j
    BY <1>2
  <2> QED BY <1>4, <2>1, <2>2, <2>3 DEF Distinct, Precedes
<1>7. Precedes("unbind", "counters", s) /\ In("unbind", s)
  <2>1. 6 + d \in DOMAIN s /\ 7 + d \in DOMAIN s /\ 6 + d < 7 + d
    BY <1>2
  <2> QED BY <1>2, <1>4, <2>1 DEF Distinct, Precedes, In
<1> QED BY <1>2, <1>4, <1>5, <1>6, <1>7 DEF Ordered, In

\* One step less.
LEMMA TailKeeps ==
    ASSUME NEW s \in Seq(Steps), s # <<>>
    PROVE  LET t == Tail(s)
           IN  /\ t \in Seq(Steps) /\ Head(s) \in Steps /\ In(Head(s), s)
               /\ (Distinct(s) => Distinct(t) /\ ~In(Head(s), t))
               /\ \A a : In(a, t) => In(a, s)
               /\ \A a : In(a, s) => a = Head(s) \/ In(a, t)
               /\ \A a, b : Precedes(a, b, s) => Precedes(a, b, t)
               /\ (t = <<>> <=> Len(s) = 1)
<1> DEFINE t == Tail(s)
<1>1. /\ Len(s) \in Nat /\ Len(s) >= 1 /\ DOMAIN s = 1 .. Len(s) /\ t \in Seq(Steps)
      /\ Len(t) = Len(s) - 1 /\ DOMAIN t = 1 .. Len(s) - 1
      /\ Head(s) = s[1] /\ 1 \in DOMAIN s /\ \A i \in DOMAIN t : t[i] = s[i + 1]
      /\ (t = <<>> <=> Len(s) = 1)
  <2>1. /\ Len(s) \in Nat /\ Len(s) # 0 /\ DOMAIN s = 1 .. Len(s)
    BY LenProperties, EmptySeq
  <2>2. /\ t \in Seq(Steps) /\ Len(t) = Len(s) - 1
        /\ \A i \in 1 .. Len(t) : t[i] = s[i + 1]
    BY HeadTailProperties
  <2> HIDE DEF t
  <2>3. DOMAIN t = 1 .. Len(t)
    BY <2>2, LenProperties
  <2>4. t = <<>> <=> Len(t) = 0
    BY <2>2, EmptySeq
  <2> QED BY <2>1, <2>2, <2>3, <2>4
<1> SUFFICES /\ t \in Seq(Steps) /\ Head(s) \in Steps /\ In(Head(s), s)
             /\ (Distinct(s) => Distinct(t) /\ ~In(Head(s), t))
             /\ \A a : In(a, t) => In(a, s)
             /\ \A a : In(a, s) => a = Head(s) \/ In(a, t)
             /\ \A a, b : Precedes(a, b, s) => Precedes(a, b, t)
             /\ (t = <<>> <=> Len(s) = 1)
  OBVIOUS
<1> HIDE DEF t
<1>2. \A i \in DOMAIN t : i + 1 \in DOMAIN s /\ i + 1 # 1 /\ i \in Int
  BY <1>1
<1>3. ASSUME NEW i \in DOMAIN s, i # 1 PROVE i - 1 \in DOMAIN t /\ t[i - 1] = s[i]
  <2>1. i - 1 \in DOMAIN t /\ (i - 1) + 1 = i
    BY <1>1, <1>3
  <2> QED BY <1>1, <2>1
<1>4. ASSUME Distinct(s) PROVE Distinct(t) /\ ~In(Head(s), t)
  <2>1. ASSUME NEW i \in DOMAIN t, NEW j \in DOMAIN t, t[i] = t[j] PROVE i = j
    <3>1. i + 1 = j + 1
      BY <1>1, <1>2, <1>4, <2>1 DEF Distinct
    <3> QED BY <1>2, <3>1
  <2>2. ASSUME NEW i \in DOMAIN t, t[i] = Head(s) PROVE FALSE
    BY <1>1, <1>2, <1>4, <2>2 DEF Distinct
  <2> QED BY <2>1, <2>2 DEF Distinct, In
<1>5. \A a : In(a, t) => In(a, s)
  BY <1>1, <1>2 DEF In
<1>6. \A a : In(a, s) => a = Head(s) \/ In(a, t)
  BY <1>1, <1>3 DEF In
<1>7. ASSUME NEW a, NEW b, Precedes(a, b, s) PROVE Precedes(a, b, t)
  <2> SUFFICES ASSUME NEW i \in DOMAIN t, t[i] = a PROVE \E j \in DOMAIN t : i < j /\ t[j] = b
    BY DEF Precedes
  <2>1. PICK j \in DOMAIN s : i + 1 < j /\ s[j] = b
    BY <1>1, <1>2, <1>7 DEF Precedes
  <2>2. j # 1 /\ i < j - 1
    BY <1>1, <2>1
  <2> QED BY <1>3, <2>1, <2>2
<1>8. Head(s) \in Steps /\ In(Head(s), s)
  BY <1>1 DEF In
<1> QED BY <1>1, <1>4, <1>5, <1>6, <1>7, <1>8

-----------------------------------------------------------------------------
\* The invariant.

EngType ==
    [life : {"unborn", "new", "live", "drop", "dead"}, thread : Threads \cup {None},
     lcore : Lcores \cup {None}, port : Ports \cup {MAX}, todo : Seq(Steps),
     caps : Caps \cup {NoCaps}, latch : {Latches(b) : b \in SUBSET Bits}, missing : SUBSET Bits,
     ids : [DOMAIN Names -> BOOLEAN], xstat : [DOMAIN Names -> DOMAIN Names \cup {0}]]

TypeOK ==
    /\ eng \in [Engines -> EngType]
    /\ ptr \in [Threads -> Engines \cup {None}]
    /\ held \in [Engines -> SUBSET Owners]

\* The pools of mbufs exist from their step of Engine::new to their step of
\* Drop, and what an engine holds is cleared by a step that is still to come.
LifeOK(e) ==
    /\ eng[e].life \in {"unborn", "new", "dead"} => held[e] = {}
    /\ eng[e].life = "new" =>
         /\ eng[e].thread \in Threads /\ eng[e].todo # <<>> /\ Distinct(eng[e].todo)
         /\ \A k \in Kinds : In(k, eng[e].todo) \/ Pool(e, k) \in pools
    /\ eng[e].life = "live" =>
         eng[e].thread \in Threads /\ \A k \in Kinds : Pool(e, k) \in pools
    /\ eng[e].life = "drop" =>
         /\ eng[e].thread \in Threads /\ eng[e].todo # <<>> /\ Ordered(eng[e].todo)
         /\ \A o \in held[e] : In(ClearedBy(o), eng[e].todo)
         /\ \A k \in Kinds : In(k, eng[e].todo) => Pool(e, k) \in pools

\* A thread's pointer is to an engine of that thread that is past the step that
\* binds it and not past the one that unbinds it.
PtrOK(t) ==
    ptr[t] # None =>
      /\ eng[ptr[t]].thread = t
      /\ \/ eng[ptr[t]].life = "new" /\ ~In("bind", eng[ptr[t]].todo)
         \/ eng[ptr[t]].life = "live"
         \/ eng[ptr[t]].life = "drop" /\ In("unbind", eng[ptr[t]].todo)

IInv == TypeOK /\ (\A e \in Engines : LifeOK(e)) /\ (\A t \in Threads : PtrOK(t))

-----------------------------------------------------------------------------
LEMMA UnbornType == Unborn \in EngType /\ Unborn.life = "unborn"
<1>1. /\ Latches({}) \in {Latches(b) : b \in SUBSET Bits} /\ <<>> \in Seq(Steps)
      /\ [i \in DOMAIN Names |-> FALSE] \in [DOMAIN Names -> BOOLEAN]
      /\ [i \in DOMAIN Names |-> 0] \in [DOMAIN Names -> DOMAIN Names \cup {0}]
  OBVIOUS
<1> QED BY <1>1 DEF Unborn, EngType

LEMMA DeadType ==
    ASSUME NEW r \in EngType
    PROVE  Dead(r) \in EngType /\ Dead(r).life = "dead" /\ Dead(r).lcore = r.lcore
<1> DEFINE u == Unborn
<1> HIDE DEF u
<1>1. u \in EngType
  BY UnbornType DEF u
<1>2. Dead(r) = [u EXCEPT !.life = "dead", !.thread = r.thread, !.lcore = r.lcore]
  BY DEF Dead, u
<1> QED BY <1>1, <1>2 DEF EngType

\* An engine that a step leaves alone, of which it takes no pool.
LEMMA Frame ==
    ASSUME NEW f \in Engines, LifeOK(f), eng'[f] = eng[f], held'[f] = held[f],
           \A k \in Kinds : Pool(f, k) \in pools => Pool(f, k) \in pools'
    PROVE  LifeOK(f)'
<1>1. \A k : Pool(f, k)' = Pool(f, k)
  BY DEF Pool
<1> QED BY <1>1 DEF LifeOK

\* A pointer that a step leaves alone, as well as the engine it is to.
LEMMA PtrFrame ==
    ASSUME NEW t \in Threads, PtrOK(t), ptr'[t] = ptr[t],
           ptr[t] # None => eng'[ptr[t]] = eng[ptr[t]]
    PROVE  PtrOK(t)'
BY DEF PtrOK

LEMMA RefreshPtr ==
    ASSUME NEW t \in Threads, ptr'[t] = None
    PROVE  PtrOK(t)'
BY DEF PtrOK

\* A step that changes neither the engines nor the pointers, and takes no pool.
LEMMA Quiet ==
    ASSUME IInv, eng' = eng, ptr' = ptr, held' = held, pools \subseteq pools'
    PROVE  IInv'
<1>1. \A e \in Engines : LifeOK(e)'
  BY Frame DEF IInv
<1>2. \A t \in Threads : PtrOK(t)'
  BY PtrFrame DEF IInv
<1> QED BY <1>1, <1>2 DEF IInv, TypeOK

LEMMA HeldInv ==
    ASSUME IInv, NEW e \in Engines, NEW h \in SUBSET Owners, eng[e].life = "live",
           held' = [held EXCEPT ![e] = h], eng' = eng, ptr' = ptr, pools' = pools
    PROVE  IInv'
<1>1. /\ held' \in [Engines -> SUBSET Owners] /\ held'[e] = h
      /\ \A f \in Engines : f # e => held'[f] = held[f]
  BY DEF IInv, TypeOK
<1>2. \A f \in Engines : f # e => LifeOK(f)'
  BY <1>1, Frame DEF IInv
<1>3. LifeOK(e)'
  <2>1. \A k : Pool(e, k)' = Pool(e, k)
    BY DEF Pool
  <2> QED BY <2>1 DEF IInv, LifeOK
<1>4. \A t \in Threads : PtrOK(t)'
  BY PtrFrame DEF IInv
<1> QED BY <1>1, <1>2, <1>3, <1>4 DEF IInv, TypeOK

\* A step that gives engine e the record r.
LEMMA EngIs ==
    ASSUME TypeOK, NEW e \in Engines, NEW r \in EngType, eng' = [eng EXCEPT ![e] = r]
    PROVE  /\ eng' \in [Engines -> EngType] /\ eng'[e] = r
           /\ \A f \in Engines : f # e => eng'[f] = eng[f]
BY DEF TypeOK

\* The pointers, when only those of e's thread are touched and those to e are
\* still right.
LEMMA PtrsInv ==
    ASSUME IInv, NEW e \in Engines, ptr' \in [Threads -> Engines \cup {None}],
           \A f \in Engines : f # e => eng'[f] = eng[f],
           \A t \in Threads : ptr'[t] # ptr[t] => ptr'[t] = None \/ ptr'[t] = e,
           \A t \in Threads : ptr'[t] = e => PtrOK(t)'
    PROVE  \A t \in Threads : PtrOK(t)'
<1> SUFFICES ASSUME NEW t \in Threads PROVE PtrOK(t)'
  OBVIOUS
<1>1. CASE ptr'[t] = e
  BY <1>1
<1>2. CASE ptr'[t] = None
  BY <1>2, RefreshPtr
<1>3. CASE ptr'[t] # e /\ ptr'[t] # None
  <2>1. ptr'[t] = ptr[t] /\ ptr[t] \in Engines /\ ptr[t] # e
    BY <1>3
  <2> QED BY <2>1, PtrFrame DEF IInv
<1> QED BY <1>1, <1>2, <1>3

-----------------------------------------------------------------------------
\* The actions.

LEMMA CreateInv ==
    ASSUME IInv, NEW t \in Threads, NEW e \in Engines, NEW l \in Lcores,
           NEW p \in Ports \cup {MAX}, NEW c \in Caps, EngineCreate(t, e, l, p, c)
    PROVE  IInv'
<1> DEFINE s == StepsFor(p)
           r == [eng[e] EXCEPT !.life = "new", !.thread = t, !.lcore = l,
                               !.port = p, !.todo = s,
                               !.caps = IF p = MAX THEN NoCaps ELSE c]
<1>1. /\ eng[e].life = "unborn" /\ eng' = [eng EXCEPT ![e] = r]
      /\ pools' = pools /\ ptr' = ptr /\ held' = held
  BY DEF EngineCreate
<1>2. /\ s \in Seq(Steps) /\ s # <<>> /\ Distinct(s)
      /\ In("rx", s) /\ In("tx_data", s) /\ In("bind", s)
  BY NewList
<1>3. eng[e] \in EngType /\ TypeOK
  BY DEF IInv, TypeOK
<1> HIDE DEF s
<1>4. r \in EngType /\ r.life = "new" /\ r.thread = t /\ r.todo = s
  BY <1>2, <1>3 DEF EngType
<1> HIDE DEF r
<1>5. /\ eng' \in [Engines -> EngType] /\ eng'[e] = r
      /\ \A f \in Engines : f # e => eng'[f] = eng[f]
  BY <1>1, <1>3, <1>4, EngIs
<1>6. \A f \in Engines : f # e => LifeOK(f)'
  BY <1>1, <1>5, Frame DEF IInv
<1>7. LifeOK(e)'
  <2>1. held'[e] = {}
    BY <1>1 DEF IInv, LifeOK
  <2> QED BY <1>2, <1>4, <1>5, <2>1 DEF LifeOK, Kinds
<1>8. \A u \in Threads : ptr[u] # None => ptr[u] # e
  BY <1>1 DEF IInv, PtrOK
<1>9. \A u \in Threads : PtrOK(u)'
  <2> SUFFICES ASSUME NEW u \in Threads PROVE PtrOK(u)'
    OBVIOUS
  <2>1. ptr[u] # None => ptr[u] \in Engines
    BY DEF IInv, TypeOK
  <2> QED BY <1>1, <1>5, <1>8, <2>1, PtrFrame DEF IInv
<1> QED BY <1>1, <1>5, <1>6, <1>7, <1>9 DEF IInv, TypeOK

LEMMA CompletedIs ==
    ASSUME NEW r \in EngType, r.todo # <<>>
    PROVE  LET q == Completed(r)
           IN  /\ q \in EngType /\ q.thread = r.thread /\ q.lcore = r.lcore
               /\ q.todo = Tail(r.todo)
               /\ q.life = IF Tail(r.todo) = <<>> THEN "live" ELSE r.life
<1> DEFINE q == Completed(r)
<1> SUFFICES /\ q \in EngType /\ q.thread = r.thread /\ q.lcore = r.lcore
             /\ q.todo = Tail(r.todo)
             /\ q.life = IF Tail(r.todo) = <<>> THEN "live" ELSE r.life
  OBVIOUS
<1>1. r.todo \in Seq(Steps)
  BY DEF EngType
<1>2. /\ Tail(r.todo) \in Seq(Steps) /\ (Tail(r.todo) = <<>> <=> Len(r.todo) = 1)
      /\ Len(r.todo) \in Nat
  BY <1>1, TailKeeps, LenProperties
<1>3. CASE Len(r.todo) > 1
  <2>1. q = [r EXCEPT !.todo = Tail(r.todo)]
    BY <1>3 DEF Completed
  <2>2. Tail(r.todo) # <<>>
    <3>1. \A n \in Nat : n > 1 => n # 1
      OBVIOUS
    <3>2. Len(r.todo) # 1
      BY <1>2, <1>3, <3>1
    <3> QED BY <1>2, <3>2
  <2> HIDE DEF q
  <2> DEFINE t == Tail(r.todo)
  <2>3. t \in Seq(Steps) /\ t # <<>> /\ q = [r EXCEPT !.todo = t]
    BY <1>2, <2>1, <2>2
  <2> HIDE DEF t
  <2>4. q \in EngType /\ q.thread = r.thread /\ q.lcore = r.lcore /\ q.todo = t /\ q.life = r.life
    BY <2>3 DEF EngType
  <2> QED BY <2>3, <2>4 DEF t
<1>4. CASE ~(Len(r.todo) > 1)
  <2> DEFINE z == <<>>
             d == [i \in DOMAIN Names |-> Names[i] \in r.caps.xstats]
  <2>1. q = [r EXCEPT !.todo = z, !.life = "live", !.ids = d]
    BY <1>4 DEF Completed
  <2>2. z \in Seq(Steps) /\ d \in [DOMAIN Names -> BOOLEAN]
    OBVIOUS
  <2>3. Tail(r.todo) = z
    <3>1. Len(r.todo) # 0
      BY <1>1, EmptySeq
    <3> QED BY <1>2, <1>4, <3>1
  <2> HIDE DEF q, z, d
  <2>4. q \in EngType /\ q.thread = r.thread /\ q.lcore = r.lcore /\ q.todo = z /\ q.life = "live"
    BY <2>1, <2>2 DEF EngType
  <2> QED BY <2>3, <2>4 DEF z
<1> QED BY <1>2, <1>3, <1>4

LEMMA NewStepInv ==
    ASSUME IInv, NEW e \in Engines, NewStep(e)
    PROVE  IInv'
<1> DEFINE s == eng[e].todo
           step == Head(s)
           b == AndOffload(Bits, eng[e].caps.offloads)
           r == IF step = "configure"
                THEN [eng[e] EXCEPT !.latch = Latches(b.bits), !.missing = b.missing]
                ELSE eng[e]
           q == Completed(r)
<1>1. /\ eng[e].life = "new" /\ eng' = [eng EXCEPT ![e] = q]
      /\ pools' = IF step \in PoolKinds THEN pools \cup {Pool(e, step)} ELSE pools
      /\ ptr' = IF step = "bind" THEN [ptr EXCEPT ![eng[e].thread] = e] ELSE ptr
      /\ held' = held
  BY DEF NewStep
<1>2. eng[e] \in EngType /\ TypeOK /\ LifeOK(e)
  BY DEF IInv, TypeOK
<1>3. /\ s \in Seq(Steps) /\ s # <<>> /\ Distinct(s) /\ eng[e].thread \in Threads /\ held[e] = {}
      /\ \A k \in Kinds : In(k, s) \/ Pool(e, k) \in pools
  BY <1>1, <1>2 DEF LifeOK, EngType
<1>4. /\ r \in EngType /\ r.todo = s /\ r.thread = eng[e].thread /\ r.lcore = eng[e].lcore
      /\ r.life = "new"
  <2>1. b.bits \in SUBSET Bits /\ b.missing \in SUBSET Bits
    BY DEF AndOffload
  <2>2. Latches(b.bits) \in {Latches(x) : x \in SUBSET Bits}
    BY <2>1
  <2> DEFINE L == Latches(b.bits)
             M == b.missing
  <2> HIDE DEF b, L, M, s
  <2>3. L \in {Latches(x) : x \in SUBSET Bits} /\ M \in SUBSET Bits
    BY <2>1, <2>2 DEF L, M
  <2>4. r = IF step = "configure" THEN [eng[e] EXCEPT !.latch = L, !.missing = M] ELSE eng[e]
    BY DEF L, M
  <2>5. eng[e].todo = s
    BY DEF s
  <2> HIDE DEF r, step
  <2>6. CASE step = "configure"
    BY <1>1, <1>2, <2>3, <2>4, <2>5, <2>6 DEF EngType
  <2>7. CASE step # "configure"
    BY <1>1, <1>2, <2>4, <2>5, <2>7
  <2> QED BY <2>6, <2>7
<1> HIDE DEF r
<1> DEFINE t == Tail(s)
<1>5. /\ q \in EngType /\ q.thread = eng[e].thread /\ q.lcore = eng[e].lcore /\ q.todo = t
      /\ q.life = IF t = <<>> THEN "live" ELSE "new"
  <2>1. r.todo # <<>>
    BY <1>3, <1>4
  <2> DEFINE c == Completed(r)
  <2>2. /\ c \in EngType /\ c.thread = r.thread /\ c.lcore = r.lcore /\ c.todo = Tail(r.todo)
        /\ c.life = IF Tail(r.todo) = <<>> THEN "live" ELSE r.life
    BY <1>4, <2>1, CompletedIs
  <2> QED BY <1>4, <2>2
<1> HIDE DEF q
<1>6. /\ t \in Seq(Steps) /\ Distinct(t) /\ ~In(step, t)
      /\ (\A a : In(a, t) => In(a, s)) /\ (\A a : In(a, s) => a = step \/ In(a, t))
  BY <1>3, TailKeeps
<1> HIDE DEF t, step, s
<1>7. /\ eng' \in [Engines -> EngType] /\ eng'[e] = q
      /\ \A f \in Engines : f # e => eng'[f] = eng[f]
  BY <1>1, <1>2, <1>5, EngIs
<1>8. pools \subseteq pools' /\ (step \in Kinds => Pool(e, step) \in pools')
  BY <1>1 DEF Kinds, PoolKinds
<1>9. \A f \in Engines : f # e => LifeOK(f)'
  BY <1>1, <1>7, <1>8, Frame DEF IInv
<1>10. LifeOK(e)'
  <2>1. \A k : Pool(e, k)' = Pool(e, k)
    BY <1>5, <1>7 DEF Pool
  <2>2. \A k \in Kinds : In(k, t) \/ Pool(e, k)' \in pools'
    BY <1>3, <1>6, <1>8, <2>1
  <2>3. CASE t = <<>>
    <3>1. \A k \in Kinds : ~In(k, t)
      BY <2>3 DEF In
    <3>2. eng'[e].life = "live" /\ eng'[e].thread \in Threads
      BY <1>3, <1>5, <1>7, <2>3
    <3> QED BY <2>2, <3>1, <3>2 DEF LifeOK
  <2>4. CASE t # <<>>
    <3>1. /\ eng'[e].life = "new" /\ eng'[e].thread \in Threads /\ eng'[e].todo = t
          /\ held'[e] = {}
      BY <1>1, <1>3, <1>5, <1>7, <2>4
    <3> QED BY <1>6, <2>2, <2>4, <3>1 DEF LifeOK
  <2> QED BY <2>3, <2>4
<1>11. /\ ptr' \in [Threads -> Engines \cup {None}]
       /\ \A u \in Threads : ptr'[u] # ptr[u] => ptr'[u] = e
       /\ \A u \in Threads :
             ptr'[u] = e => ptr[u] = e \/ (u = eng[e].thread /\ step = "bind")
  BY <1>1, <1>2, <1>3 DEF TypeOK
<1>12. ASSUME NEW u \in Threads, ptr'[u] = e PROVE PtrOK(u)'
  <2>1. e # None => u = eng[e].thread /\ ~In("bind", t)
    <3>1. CASE ptr[u] = e
      BY <1>1, <1>6, <3>1 DEF IInv, PtrOK, s
    <3>2. CASE u = eng[e].thread /\ step = "bind"
      BY <1>6, <3>2
    <3> QED BY <1>11, <1>12, <3>1, <3>2
  <2>2. e # None => eng'[e].thread = u /\ ~In("bind", eng'[e].todo)
    BY <1>5, <1>7, <2>1
  <2>3. eng'[e].life \in {"new", "live"}
    BY <1>5, <1>7
  <2> QED BY <1>12, <2>2, <2>3 DEF PtrOK
<1>13. \A u \in Threads : PtrOK(u)'
  BY <1>7, <1>11, <1>12, PtrsInv
<1> QED BY <1>1, <1>2, <1>7, <1>9, <1>10, <1>11, <1>13 DEF IInv, TypeOK

LEMMA NewFailsInv ==
    ASSUME IInv, NEW e \in Engines, NewFails(e)
    PROVE  IInv'
<1> DEFINE q == Dead(eng[e])
<1>1. /\ eng[e].life = "new" /\ eng' = [eng EXCEPT ![e] = q] /\ held' = held
      /\ pools' = {p \in pools : p.eng # e}
      /\ ptr' = IF Bound(e) THEN [ptr EXCEPT ![eng[e].thread] = None] ELSE ptr
  BY DEF NewFails, ClearOnError
<1>2. eng[e] \in EngType /\ TypeOK /\ LifeOK(e)
  BY DEF IInv, TypeOK
<1>3. held[e] = {} /\ eng[e].thread \in Threads
  BY <1>1, <1>2 DEF LifeOK
<1>4. q \in EngType /\ q.life = "dead"
  BY <1>2, DeadType
<1> HIDE DEF q
<1>5. /\ eng' \in [Engines -> EngType] /\ eng'[e] = q
      /\ \A f \in Engines : f # e => eng'[f] = eng[f]
  BY <1>1, <1>2, <1>4, EngIs
<1>6. \A f \in Engines : f # e => LifeOK(f)'
  <2> SUFFICES ASSUME NEW f \in Engines, f # e PROVE LifeOK(f)'
    OBVIOUS
  <2>1. \A k : Pool(f, k) \in pools => Pool(f, k) \in pools'
    BY <1>1 DEF Pool
  <2> QED BY <1>1, <1>5, <2>1, Frame DEF IInv
<1>7. LifeOK(e)'
  BY <1>1, <1>3, <1>4, <1>5 DEF LifeOK
<1>8. /\ ptr' \in [Threads -> Engines \cup {None}]
      /\ \A u \in Threads : ptr'[u] # ptr[u] => ptr'[u] = None
      /\ Bound(e) => ptr'[eng[e].thread] = None
  BY <1>1, <1>2, <1>3 DEF TypeOK
<1>9. ASSUME NEW u \in Threads, ptr'[u] = e PROVE PtrOK(u)'
  <2>1. CASE e = None
    BY <1>9, <2>1 DEF PtrOK
  <2>2. CASE e # None
    <3>1. ptr[u] = e
      BY <1>8, <1>9, <2>2
    <3>2. eng[e].thread = u /\ ~In("bind", eng[e].todo)
      BY <1>1, <2>2, <3>1 DEF IInv, PtrOK
    <3>3. Bound(e)
      BY <3>2 DEF Bound, In
    <3> QED BY <1>8, <1>9, <2>2, <3>2, <3>3
  <2> QED BY <2>1, <2>2
<1>10. \A u \in Threads : PtrOK(u)'
  BY <1>5, <1>8, <1>9, PtrsInv
<1> QED BY <1>1, <1>2, <1>5, <1>6, <1>7, <1>8, <1>10 DEF IInv, TypeOK

LEMMA DestroyInv ==
    ASSUME IInv, NEW e \in Engines, EngineDestroy(e)
    PROVE  IInv'
<1> DEFINE s == DropSteps(eng[e].port)
           q == [eng[e] EXCEPT !.life = "drop", !.todo = s]
<1>1. /\ eng[e].life = "live" /\ eng' = [eng EXCEPT ![e] = q]
      /\ held' = held /\ pools' = pools /\ ptr' = ptr
  BY DEF EngineDestroy, Idle
<1>2. eng[e] \in EngType /\ TypeOK /\ LifeOK(e) /\ held[e] \subseteq Owners
  BY DEF IInv, TypeOK
<1>3. /\ s \in Seq(Steps) /\ s # <<>> /\ Ordered(s)
      /\ \A o \in Owners : In(ClearedBy(o), s)
      /\ In("unbind", s)
  BY DropList
<1> HIDE DEF s
<1>4. /\ q \in EngType /\ q.life = "drop" /\ q.todo = s /\ q.thread = eng[e].thread
      /\ q.lcore = eng[e].lcore
  BY <1>2, <1>3 DEF EngType
<1> HIDE DEF q
<1>5. /\ eng' \in [Engines -> EngType] /\ eng'[e] = q
      /\ \A f \in Engines : f # e => eng'[f] = eng[f]
  BY <1>1, <1>2, <1>4, EngIs
<1>6. \A f \in Engines : f # e => LifeOK(f)'
  BY <1>1, <1>5, Frame DEF IInv
<1>7. LifeOK(e)'
  <2>1. \A k : Pool(e, k)' = Pool(e, k)
    BY <1>4, <1>5 DEF Pool
  <2>2. eng[e].thread \in Threads /\ \A k \in Kinds : Pool(e, k) \in pools
    BY <1>1, <1>2 DEF LifeOK
  <2> QED BY <1>1, <1>2, <1>3, <1>4, <1>5, <2>1, <2>2 DEF LifeOK
<1>8. ASSUME NEW u \in Threads, ptr'[u] = e PROVE PtrOK(u)'
  BY <1>1, <1>3, <1>4, <1>5, <1>8 DEF IInv, PtrOK
<1>9. \A u \in Threads : PtrOK(u)'
  BY <1>1, <1>2, <1>5, <1>8, PtrsInv DEF TypeOK
<1> QED BY <1>1, <1>2, <1>5, <1>6, <1>7, <1>9 DEF IInv, TypeOK

LEMMA DropStepInv ==
    ASSUME IInv, NEW e \in Engines, DropStep(e)
    PROVE  IInv'
<1> DEFINE s == eng[e].todo
           step == Head(s)
           t == Tail(s)
           q == IF t = <<>> THEN Dead(eng[e]) ELSE [eng[e] EXCEPT !.todo = t]
           h == held[e] \ Released(step)
<1>1. /\ eng[e].life = "drop" /\ eng' = [eng EXCEPT ![e] = q]
      /\ held' = [held EXCEPT ![e] = h]
      /\ ptr' = IF step = "unbind" THEN [ptr EXCEPT ![eng[e].thread] = None] ELSE ptr
      /\ pools' = {p \in pools : ~(p.eng = e /\ p.kind = step)}
  BY DEF DropStep
<1>2. eng[e] \in EngType /\ TypeOK /\ LifeOK(e) /\ held[e] \subseteq Owners
  BY DEF IInv, TypeOK
<1>3. /\ s \in Seq(Steps) /\ s # <<>> /\ Ordered(s) /\ Distinct(s) /\ eng[e].thread \in Threads
      /\ \A o \in held[e] : In(ClearedBy(o), s)
      /\ \A k \in Kinds : In(k, s) => Pool(e, k) \in pools
  BY <1>1, <1>2 DEF LifeOK, EngType, Ordered
<1>4. /\ t \in Seq(Steps) /\ Distinct(t) /\ ~In(step, t)
      /\ (\A a : In(a, t) => In(a, s)) /\ (\A a : In(a, s) => a = step \/ In(a, t))
      /\ \A a, b : Precedes(a, b, s) => Precedes(a, b, t)
  BY <1>3, TailKeeps
<1>5. Ordered(t)
  BY <1>3, <1>4 DEF Ordered
<1>6. \A o \in h : In(ClearedBy(o), t)
  <2> SUFFICES ASSUME NEW o \in held[e], o \notin Released(step) PROVE In(ClearedBy(o), t)
    OBVIOUS
  <2>1. ClearedBy(o) # step
    BY <1>2 DEF ClearedBy, Released, Owners, RxOwners
  <2> QED BY <1>3, <1>4, <2>1
<1>7. /\ q \in EngType /\ q.lcore = eng[e].lcore
      /\ (t = <<>> => q.life = "dead")
      /\ (t # <<>> => q.life = "drop" /\ q.todo = t /\ q.thread = eng[e].thread)
  <2> HIDE DEF t
  <2>1. CASE t = <<>>
    <3>1. q = Dead(eng[e])
      BY <2>1
    <3> HIDE DEF q
    <3> QED BY <1>2, <2>1, <3>1, DeadType
  <2>2. CASE t # <<>>
    <3>1. q = [eng[e] EXCEPT !.todo = t]
      BY <2>2
    <3> HIDE DEF q
    <3> QED BY <1>1, <1>2, <1>4, <2>2, <3>1 DEF EngType
  <2> QED BY <2>1, <2>2
<1> HIDE DEF q, h, t, step, s
<1>8. /\ eng' \in [Engines -> EngType] /\ eng'[e] = q
      /\ \A f \in Engines : f # e => eng'[f] = eng[f]
  BY <1>1, <1>2, <1>7, EngIs
<1>9. /\ held' \in [Engines -> SUBSET Owners] /\ held'[e] = h
      /\ \A f \in Engines : f # e => held'[f] = held[f]
  BY <1>1, <1>2 DEF TypeOK, h
<1>10. \A f \in Engines : f # e => LifeOK(f)'
  <2> SUFFICES ASSUME NEW f \in Engines, f # e PROVE LifeOK(f)'
    OBVIOUS
  <2>1. \A k : Pool(f, k) \in pools => Pool(f, k) \in pools'
    BY <1>1 DEF Pool
  <2> QED BY <1>8, <1>9, <2>1, Frame DEF IInv
<1>11. LifeOK(e)'
  <2>1. CASE t = <<>>
    <3>1. \A a : ~In(a, t)
      BY <2>1 DEF In
    <3>2. held'[e] = {} /\ eng'[e].life = "dead"
      BY <1>6, <1>7, <1>8, <1>9, <2>1, <3>1
    <3> QED BY <3>2 DEF LifeOK
  <2>2. CASE t # <<>>
    <3>1. eng'[e].life = "drop" /\ eng'[e].todo = t /\ eng'[e].thread \in Threads
      BY <1>3, <1>7, <1>8, <2>2
    <3>2. ASSUME NEW k \in Kinds, In(k, t) PROVE Pool(e, k)' \in pools'
      <4>1. Pool(e, k)' = Pool(e, k)
        BY <1>7, <1>8 DEF Pool
      <4>2. k # step /\ Pool(e, k) \in pools
        BY <1>3, <1>4, <3>2
      <4>3. Pool(e, k).kind = k
        BY DEF Pool
      <4> QED BY <1>1, <4>1, <4>2, <4>3
    <3> QED BY <1>5, <1>6, <1>9, <2>2, <3>1, <3>2 DEF LifeOK
  <2> QED BY <2>1, <2>2
<1>12. /\ ptr' \in [Threads -> Engines \cup {None}]
       /\ \A u \in Threads : ptr'[u] # ptr[u] => ptr'[u] = None
       /\ step = "unbind" => ptr'[eng[e].thread] = None
  BY <1>1, <1>2, <1>3 DEF TypeOK
<1>13. ASSUME NEW u \in Threads, ptr'[u] = e PROVE PtrOK(u)'
  <2>1. CASE e = None
    BY <1>13, <2>1 DEF PtrOK
  <2>2. CASE e # None
    <3>1. ptr[u] = e
      BY <1>12, <1>13, <2>2
    <3>2. eng[e].thread = u /\ In("unbind", s)
      BY <1>1, <2>2, <3>1 DEF IInv, PtrOK, s
    <3>3. In("unbind", t)
      BY <1>4, <1>12, <1>13, <2>2, <3>2
    <3>4. t # <<>>
      BY <3>3 DEF In
    <3>5. eng'[e].life = "drop" /\ eng'[e].todo = t /\ eng'[e].thread = u
      BY <1>7, <1>8, <3>2, <3>4
    <3> QED BY <1>13, <3>3, <3>5 DEF PtrOK
  <2> QED BY <2>1, <2>2
<1>14. \A u \in Threads : PtrOK(u)'
  BY <1>8, <1>12, <1>13, PtrsInv
<1> QED BY <1>2, <1>8, <1>9, <1>10, <1>11, <1>12, <1>14 DEF IInv, TypeOK

LEMMA ScrapeInv ==
    ASSUME IInv, NEW e \in Engines, NEW ok, ScrapeXstats(e, ok)
    PROVE  IInv'
<1> DEFINE x == IF ok THEN Spread(eng[e].ids) ELSE [eng[e].xstat EXCEPT ![1] = 0]
           q == [eng[e] EXCEPT !.xstat = x]
<1>1. /\ eng[e].life = "live" /\ eng' = [eng EXCEPT ![e] = q]
      /\ held' = held /\ pools' = pools /\ ptr' = ptr
  BY DEF ScrapeXstats, Idle
<1>2. eng[e] \in EngType /\ TypeOK /\ LifeOK(e)
  BY DEF IInv, TypeOK
<1>3. x \in [DOMAIN Names -> DOMAIN Names \cup {0}]
  <2>1. eng[e].xstat \in [DOMAIN Names -> DOMAIN Names \cup {0}]
    BY <1>2 DEF EngType
  <2>2. Spread(eng[e].ids) \in [DOMAIN Names -> DOMAIN Names \cup {0}]
    <3> DEFINE got == QueryIndex(eng[e].ids)
               v(i) == IF \E k \in DOMAIN got : got[k] = i
                       THEN got[CHOOSE k \in DOMAIN got : got[k] = i] ELSE 0
    <3>1. Spread(eng[e].ids) = [i \in DOMAIN Names |-> v(i)]
      BY DEF Spread
    <3> HIDE DEF got
    <3>2. \A i \in DOMAIN Names : v(i) \in {i, 0}
      OBVIOUS
    <3> HIDE DEF v
    <3> QED BY <3>1, <3>2
  <2> QED BY <2>1, <2>2
<1> HIDE DEF x
<1>4. /\ q \in EngType /\ q.life = "live" /\ q.todo = eng[e].todo /\ q.thread = eng[e].thread
      /\ q.lcore = eng[e].lcore
  BY <1>1, <1>2, <1>3 DEF EngType
<1> HIDE DEF q
<1>5. /\ eng' \in [Engines -> EngType] /\ eng'[e] = q
      /\ \A f \in Engines : f # e => eng'[f] = eng[f]
  BY <1>1, <1>2, <1>4, EngIs
<1>6. \A f \in Engines : f # e => LifeOK(f)'
  BY <1>1, <1>5, Frame DEF IInv
<1>7. LifeOK(e)'
  <2>1. \A k : Pool(e, k)' = Pool(e, k)
    BY <1>4, <1>5 DEF Pool
  <2> QED BY <1>1, <1>2, <1>4, <1>5, <2>1 DEF LifeOK
<1>8. ASSUME NEW u \in Threads, ptr'[u] = e PROVE PtrOK(u)'
  BY <1>1, <1>4, <1>5, <1>8 DEF IInv, PtrOK
<1>9. \A u \in Threads : PtrOK(u)'
  BY <1>1, <1>2, <1>5, <1>8, PtrsInv DEF TypeOK
<1> QED BY <1>1, <1>2, <1>5, <1>6, <1>7, <1>9 DEF IInv, TypeOK

-----------------------------------------------------------------------------
LEMMA InitInv == Init => IInv
<1> SUFFICES ASSUME Init PROVE IInv
  OBVIOUS
<1>1. /\ eng = [e \in Engines |-> Unborn] /\ ptr = [t \in Threads |-> None]
      /\ held = [e \in Engines |-> {}]
  BY DEF Init
<1> DEFINE u == Unborn
<1>2. u \in EngType /\ u.life = "unborn"
  BY UnbornType
<1>3. \A e \in Engines : eng[e] = u
  BY <1>1
<1> HIDE DEF u
<1>4. TypeOK
  BY <1>1, <1>2 DEF TypeOK, u
<1>5. \A e \in Engines : LifeOK(e)
  BY <1>1, <1>2, <1>3 DEF LifeOK
<1>6. \A t \in Threads : PtrOK(t)
  BY <1>1 DEF PtrOK
<1> QED BY <1>4, <1>5, <1>6 DEF IInv

LEMMA NextInv ==
    ASSUME IInv, [Next]_vars
    PROVE  IInv'
<1>1. ASSUME NEW t \in Threads, NEW ok \in BOOLEAN, NEW log, EalInit(t, ok, log) PROVE IInv'
  BY <1>1, Quiet DEF EalInit
<1>2. ASSUME NEW t \in Threads, NEW e \in Engines, NEW l \in Lcores, NEW p \in Ports \cup {MAX},
             NEW c \in Caps, EngineCreate(t, e, l, p, c)
      PROVE  IInv'
  BY <1>2, CreateInv
<1>3. ASSUME NEW e \in Engines, TestInjectPool(e) PROVE IInv'
  BY <1>3, Quiet DEF TestInjectPool
<1>4. ASSUME NEW e \in Engines, TestClearPinned(e) PROVE IInv'
  <2> DEFINE h == held[e] \ {"scratch", "events", "recv"}
  <2>1. /\ eng[e].life = "live" /\ held' = [held EXCEPT ![e] = h]
        /\ eng' = eng /\ ptr' = ptr /\ pools' = pools
    BY <1>4 DEF TestClearPinned, Idle
  <2>2. h \in SUBSET Owners
    BY DEF IInv, TypeOK
  <2> HIDE DEF h
  <2> QED BY <2>1, <2>2, HeldInv
<1>5. ASSUME NEW e \in Engines, NEW o \in Owners, Own(e, o) PROVE IInv'
  <2> DEFINE h == held[e] \cup {o}
  <2>1. /\ eng[e].life = "live" /\ held' = [held EXCEPT ![e] = h]
        /\ eng' = eng /\ ptr' = ptr /\ pools' = pools
    BY <1>5 DEF Own, Idle
  <2>2. h \in SUBSET Owners
    BY DEF IInv, TypeOK
  <2> HIDE DEF h
  <2> QED BY <2>1, <2>2, HeldInv
<1>6. ASSUME NEW e \in Engines, NEW o \in Owners, Release(e, o) PROVE IInv'
  <2> DEFINE h == held[e] \ {o}
  <2>1. /\ eng[e].life = "live" /\ held' = [held EXCEPT ![e] = h]
        /\ eng' = eng /\ ptr' = ptr /\ pools' = pools
    BY <1>6 DEF Release, Idle
  <2>2. h \in SUBSET Owners
    BY DEF IInv, TypeOK
  <2> HIDE DEF h
  <2> QED BY <2>1, <2>2, HeldInv
<1>7. CASE UNCHANGED vars
  BY <1>7, Quiet DEF vars
<1>8. CASE Over
  BY <1>8, Quiet DEF Over, vars
<1> QED BY <1>1, <1>2, <1>3, <1>4, <1>5, <1>6, <1>7, <1>8, NewStepInv, NewFailsInv,
           DestroyInv, DropStepInv, ScrapeInv
        DEF Next

\* For any engines on any threads, whatever step of Engine::new fails: the
\* invariant that the results below are read off.
THEOREM Invariance == Spec => []IInv
BY InitInv, NextInv, PTL DEF Spec

\* No mbuf outlives its pool: whatever an engine still holds - in its event
\* scratch, event queue, connections, TX ring or fault injector - is cleared
\* by a step of Drop that comes before the one that frees the pool.
THEOREM MbufsDieBeforePools == Spec => []PoolsOutliveMbufs
<1>1. IInv => PoolsOutliveMbufs
  <2> SUFFICES ASSUME IInv, NEW e \in Engines, NEW o \in held[e]
               PROVE  Pool(e, PoolOf(o)) \in pools
    BY DEF PoolsOutliveMbufs
  <2>1. eng[e] \in EngType /\ LifeOK(e) /\ o \in Owners
    BY DEF IInv, TypeOK
  <2>2. eng[e].life \in {"unborn", "new", "live", "drop", "dead"} /\ PoolOf(o) \in Kinds
    BY <2>1 DEF EngType, PoolOf, Kinds
  <2>3. CASE eng[e].life = "live"
    BY <2>1, <2>2, <2>3 DEF LifeOK
  <2>4. CASE eng[e].life = "drop"
    <3>1. /\ In(ClearedBy(o), eng[e].todo) /\ Ordered(eng[e].todo)
          /\ \A k \in Kinds : In(k, eng[e].todo) => Pool(e, k) \in pools
      BY <2>1, <2>4 DEF LifeOK
    <3>2. In(PoolOf(o), eng[e].todo)
      BY <2>1, <2>2, <3>1 DEF Ordered, Precedes, In
    <3> QED BY <2>2, <3>1, <3>2
  <2>5. CASE eng[e].life \in {"unborn", "new", "dead"}
    BY <2>1, <2>5 DEF LifeOK
  <2> QED BY <2>2, <2>3, <2>4, <2>5
<1> QED BY <1>1, Invariance, PTL

\* No thread is left with a pointer to counters that are gone:
\* THREAD_COUNTERS_PTR is null or is to an engine of that thread that is being
\* built, is live, or is not yet past its counters in Drop.
THEOREM CountersPointersAreSound == Spec => []CountersPtrSound
<1>1. IInv => CountersPtrSound
  <2> SUFFICES ASSUME IInv, NEW t \in Threads, ptr[t] # None
               PROVE  \/ eng[ptr[t]].life \in {"new", "live"}
                      \/ /\ eng[ptr[t]].life = "drop"
                         /\ ToSet(eng[ptr[t]].todo) \cap {"counters"} # {}
    BY DEF CountersPtrSound
  <2>1. ptr[t] \in Engines /\ PtrOK(t) /\ LifeOK(ptr[t])
    BY DEF IInv, TypeOK
  <2>2. CASE eng[ptr[t]].life \in {"new", "live"}
    BY <2>2
  <2>3. CASE eng[ptr[t]].life = "drop" /\ In("unbind", eng[ptr[t]].todo)
    <3>1. Precedes("unbind", "counters", eng[ptr[t]].todo)
      BY <2>1, <2>3 DEF LifeOK, Ordered
    <3>2. In("counters", eng[ptr[t]].todo)
      BY <2>3, <3>1 DEF Precedes, In
    <3> QED BY <2>3, <3>2 DEF In, ToSet
  <2> QED BY <2>1, <2>2, <2>3 DEF PtrOK
<1> QED BY <1>1, Invariance, PTL
=============================================================================
