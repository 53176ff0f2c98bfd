------------------------- MODULE LinuxClientProofs -------------------------
(***************************************************************************)
(* The Linux client, proved to implement PingService for buffers of any    *)
(* size, any number of messages and any number of resets; and that nothing *)
(* runs again after the emergency shutdown.                                *)
(***************************************************************************)
EXTENDS LinuxClient, TLAPS

\* How far main is decides what there is: the buffers, the interrupts, the task and its callback.
BootOrder ==
    /\ main \in {"rx"} => ready = {}
    /\ main \in {"tx"} => ready = {"rx"}
    /\ main \notin {"rx", "tx", "failed"} => ready = {"rx", "tx"}
    /\ irq => main \notin {"rx", "tx", "irq", "failed"}
    /\ main \in {"devices", "started"} => callbacks = {LC_TYPE_ACT}
    /\ callbacks \subseteq {LC_TYPE_ACT}

\* lcTask holds a message only when it runs, and calls lc_ping for an act message only.
Taking ==
    /\ task # "read" => main = "started" /\ msg \in Message
    /\ task = "ping" => msg.type = LC_TYPE_ACT

LcInv == TypeOK /\ BootOrder /\ Taking

\* What the service sees.
pending == IF "rx" \in ready THEN Held \o rx ELSE <<>>
replies == IF "tx" \in ready THEN tx ELSE <<>>

-----------------------------------------------------------------------------
LEMMA InitLcInv == Init => LcInv
<1> SUFFICES ASSUME Init PROVE LcInv
  OBVIOUS
<1>1. created \in BOOLEAN /\ irq \in BOOLEAN
  BY Zenon DEF Init
<1>2. TypeOK
  <2>1. <<>> \in Seq(Message) /\ Len(<<>>) <= LC_BUFFER_SIZE
    BY LinuxClientAssumption
  <2> QED
    BY <1>1, <2>1, LinuxClientAssumption DEF Init, TypeOK
<1> QED
  BY <1>2 DEF LcInv, Init, BootOrder, Taking

LEMMA StepLcInv == LcInv /\ [Next]_vars => LcInv'
<1> SUFFICES ASSUME LcInv, [Next]_vars PROVE LcInv'
  OBVIOUS
<1>t. TRUE \in BOOLEAN /\ FALSE \in BOOLEAN
  BY Zenon
<1>e. <<>> \in Seq(Message) /\ Len(<<>>) <= LC_BUFFER_SIZE
  BY LinuxClientAssumption
<1> USE DEF LcInv, TypeOK, BootOrder, Taking
<1>1. CASE InitRx
  <2>1. rx' \in Seq(Message) /\ Len(rx') <= LC_BUFFER_SIZE
    BY <1>e, <1>1 DEF InitRx
  <2> QED
    BY <1>1, <2>1 DEF InitRx, client, env
<1>2. CASE InitTx
  <2>1. tx' \in Seq(Message) /\ Len(tx') <= LC_BUFFER_SIZE
    BY <1>e, <1>2 DEF InitTx
  <2> QED
    BY <1>2, <2>1 DEF InitTx, client, env
<1>3. CASE EnableIrq
  BY <1>t, <1>3 DEF EnableIrq, client, env
<1>4. CASE CreateTask
  BY <1>t, <1>4 DEF CreateTask, env
<1>5. CASE lc_registerCallback
  <2>1. callbacks' = {LC_TYPE_ACT}
    BY <1>5, Zenon DEF lc_registerCallback
  <2>2. LC_TYPE_ACT \in 0 .. LC_COUNT - 1
    BY DEF LC_TYPE_ACT, LC_COUNT
  <2> QED
    BY <1>5, <2>1, <2>2 DEF lc_registerCallback, env
<1>6. CASE StartScheduler
  BY <1>6 DEF StartScheduler, client, env
<1>7. CASE Read
  <2>1. Head(rx) \in Message /\ Tail(rx) \in Seq(Message) /\ Len(Tail(rx)) <= LC_BUFFER_SIZE
    BY <1>7, LinuxClientAssumption DEF Read
  <2> QED
    BY <1>7, <2>1 DEF Read, Scheduled, env
<1>8. CASE Dispatch
  <2>1. task' = "ping" => msg.type = LC_TYPE_ACT
    BY <1>8 DEF Dispatch
  <2> QED
    BY <1>8, <2>1 DEF Dispatch, Scheduled, env
<1>9. CASE lc_ping
  <2>1. tx' \in Seq(Message) /\ Len(tx') <= LC_BUFFER_SIZE
    <3>1. msg \in Message
      BY <1>9 DEF lc_ping
    <3> QED
      BY <1>9, <3>1, LinuxClientAssumption DEF lc_ping
  <2> QED
    BY <1>9, <2>1 DEF lc_ping, Scheduled, env
<1>10. CASE cpu2cpu_int3_isr
  BY <1>10 DEF cpu2cpu_int3_isr, client, env
<1>11. CASE cpu2cpu_int0_isr
  <2>1. resets' \in 0 .. MaxResets
    BY <1>11, LinuxClientAssumption DEF cpu2cpu_int0_isr
  <2> QED
    BY <1>t, <1>11, <2>1 DEF cpu2cpu_int0_isr, Booted
<1>12. CASE HostWrite
  <2>1. PICK t \in Types : rx' = Append(rx, [type |-> t, id |-> sent + 1])
    BY <1>12 DEF HostWrite
  <2>2. sent' = sent + 1 /\ sent + 1 \in 1 .. MaxMessages /\ sent' \in 0 .. MaxMessages
    BY <1>12, LinuxClientAssumption DEF HostWrite
  <2>3. [type |-> t, id |-> sent + 1] \in Message
    BY <2>2 DEF Message
  <2>4. rx' \in Seq(Message) /\ Len(rx') <= LC_BUFFER_SIZE
    BY <1>12, <2>1, <2>3, LinuxClientAssumption DEF HostWrite
  <2> QED
    BY <1>12, <2>2, <2>4 DEF HostWrite, client
<1>13. CASE HostRead
  <2>1. tx' \in Seq(Message) /\ Len(tx') <= LC_BUFFER_SIZE
    BY <1>13, LinuxClientAssumption DEF HostRead
  <2> QED
    BY <1>13, <2>1 DEF HostRead, client, env
<1>14. CASE UNCHANGED vars
  BY <1>14 DEF vars
<1> QED
  BY <1>1, <1>2, <1>3, <1>4, <1>5, <1>6, <1>7, <1>8, <1>9, <1>10, <1>11, <1>12, <1>13, <1>14
  DEF Next, lc_init, lcTask

-----------------------------------------------------------------------------
(* Every step is one of the service, or none *)

LEMMA ServiceStep ==
    ASSUME \/ Service!Ask \/ Service!Reply \/ Service!Ignore \/ Service!Collect
           \/ Service!Stop \/ Service!Restart
    PROVE  [Service!Next]_(Service!vars)
BY DEF Service!Next

\* A step that shows none of it.
LEMMA Stutter ==
    ASSUME pending' = pending, replies' = replies, cpu' = cpu
    PROVE  [Service!Next]_(Service!vars)
BY DEF Service!vars, pending, replies

LEMMA Concat ==
    ASSUME NEW S, NEW h \in Seq(S), NEW q \in Seq(S)
    PROVE  /\ h \o q \in Seq(S) /\ Len(h \o q) = Len(h) + Len(q) /\ Len(h) \in Nat /\ Len(q) \in Nat
           /\ \A k \in 1 .. Len(h) : (h \o q)[k] = h[k]
           /\ \A k \in 1 .. Len(q) : (h \o q)[Len(h) + k] = q[k]
<1>1. h \o q \in Seq(S)
  OBVIOUS
<1>2. Len(h \o q) = Len(h) + Len(q) /\ Len(h) \in Nat /\ Len(q) \in Nat
  OBVIOUS
<1>3. \A k \in 1 .. Len(h) : (h \o q)[k] = h[k]
  OBVIOUS
<1>4. \A k \in 1 .. Len(q) : (h \o q)[Len(h) + k] = q[k]
  OBVIOUS
<1> QED
  BY <1>1, <1>2, <1>3, <1>4

\* The head of a sequence, and the rest of it, by their elements.
LEMMA HeadAndTail ==
    ASSUME NEW S, NEW s \in Seq(S), NEW q \in Seq(S), NEW x \in S,
           Len(s) = Len(q) + 1, s[1] = x, \A k \in 1 .. Len(q) : s[1 + k] = q[k]
    PROVE  s # <<>> /\ Head(s) = x /\ Tail(s) = q
<1>1. Len(q) \in Nat /\ Len(s) > 0
  OBVIOUS
<1>2. s # <<>> /\ Head(s) = x
  BY <1>1
<1>3. Tail(s) \in Seq(S) /\ Len(Tail(s)) = Len(q)
  BY <1>1, <1>2
<1>4. \A k \in 1 .. Len(q) : Tail(s)[k] = q[k]
  BY <1>1, <1>2
<1> QED
  BY <1>2, <1>3, <1>4

LEMMA OneBefore ==
    ASSUME NEW S, NEW q \in Seq(S), NEW x \in S
    PROVE  /\ <<x>> \o q # <<>> /\ Head(<<x>> \o q) = x /\ Tail(<<x>> \o q) = q
           /\ <<x>> \o q \in Seq(S)
<1> DEFINE h == <<x>>
           s == h \o q
<1>1. h \in Seq(S) /\ Len(h) = 1 /\ h[1] = x
  OBVIOUS
<1> HIDE DEF h
<1>2. /\ s \in Seq(S) /\ Len(s) = Len(h) + Len(q) /\ Len(q) \in Nat
      /\ \A k \in 1 .. Len(h) : s[k] = h[k]
      /\ \A k \in 1 .. Len(q) : s[Len(h) + k] = q[k]
  BY <1>1, Concat
<1> HIDE DEF s
<1>3. Len(s) = Len(q) + 1 /\ s[1] = x /\ \A k \in 1 .. Len(q) : s[1 + k] = q[k]
  BY <1>1, <1>2
<1>4. s # <<>> /\ Head(s) = x /\ Tail(s) = q
  BY <1>2, <1>3, HeadAndTail
<1> QED
  BY <1>2, <1>4 DEF h, s

LEMMA HeadFirst ==
    ASSUME NEW S, NEW q \in Seq(S), q # <<>>
    PROVE  <<Head(q)>> \o Tail(q) = q
<1>1. /\ Head(q) \in S /\ Tail(q) \in Seq(S) /\ Len(Tail(q)) = Len(q) - 1 /\ Len(q) > 0 /\ Len(q) \in Nat
      /\ q[1] = Head(q) /\ \A k \in 1 .. Len(Tail(q)) : Tail(q)[k] = q[1 + k]
  OBVIOUS
<1> DEFINE s == <<Head(q)>> \o Tail(q)
<1>2. s # <<>> /\ Head(s) = Head(q) /\ Tail(s) = Tail(q) /\ s \in Seq(S)
  BY <1>1, OneBefore
<1> HIDE DEF s
<1>3. /\ s[1] = Head(s) /\ Len(s) = Len(Tail(s)) + 1
      /\ \A k \in 1 .. Len(Tail(s)) : Tail(s)[k] = s[1 + k]
  BY <1>2
<1>4. Len(s) = Len(q) /\ \A k \in 1 .. Len(q) : s[k] = q[k]
  <2>1. Len(s) = Len(q)
    <3>1. Len(s) = Len(Tail(q)) + 1
      BY <1>2, <1>3
    <3>2. \A m, n \in Nat : m = n - 1 => m + 1 = n
      OBVIOUS
    <3>3. Len(Tail(q)) \in Nat
      BY <1>1
    <3> QED
      BY <1>1, <3>1, <3>2, <3>3
  <2>2. ASSUME NEW k \in 1 .. Len(q) PROVE s[k] = q[k]
    <3>1. CASE k = 1
      BY <1>1, <1>2, <1>3, <3>1
    <3>2. CASE k # 1
      <4>1. k - 1 \in 1 .. Len(Tail(q)) /\ 1 + (k - 1) = k
        BY <1>1, <3>2
      <4> QED
        BY <1>1, <1>2, <1>3, <4>1
    <3> QED
      BY <3>1, <3>2
  <2> QED
    BY <2>1, <2>2
<1>5. s = q
  BY <1>2, <1>4
<1> QED
  BY <1>5 DEF s

LEMMA AppendMoves ==
    ASSUME NEW S, NEW s \in Seq(S), NEW q \in Seq(S), NEW x \in S
    PROVE  s \o Append(q, x) = Append(s \o q, x)
OBVIOUS

LEMMA BootStep ==
    ASSUME LcInv, lc_init \/ StartScheduler
    PROVE  [Service!Next]_(Service!vars)
<1>1. cpu = "run" /\ cpu' = cpu /\ UNCHANGED <<task, msg>>
  BY DEF lc_init, InitRx, InitTx, EnableIrq, CreateTask, lc_registerCallback, StartScheduler, client
<1>2. CASE InitRx
  <2>1. "rx" \notin ready /\ task = "read" /\ "tx" \notin ready
    BY <1>2 DEF InitRx, LcInv, BootOrder, Taking
  <2>2. pending = <<>> /\ pending' = <<>> /\ replies' = replies
    <3>1. CASE rx' = <<>> /\ ready' = {"rx"}
      <4>1. Held' = <<>> /\ Held' \o rx' = <<>>
        BY <1>1, <2>1, <3>1 DEF Held
      <4> QED
        BY <1>2, <2>1, <3>1, <4>1 DEF InitRx, pending, replies
    <3>2. CASE UNCHANGED <<rx, ready>>
      BY <1>2, <2>1, <3>2 DEF InitRx, pending, replies
    <3> QED
      BY <1>2, <3>1, <3>2 DEF InitRx
  <2> QED
    BY <1>1, <2>2, Stutter
<1>3. CASE InitTx
  <2>1. ready = {"rx"} /\ task = "read"
    BY <1>3 DEF InitTx, LcInv, BootOrder, Taking
  <2>2. replies = <<>> /\ replies' = <<>> /\ pending' = pending
    BY <1>1, <1>3, <2>1 DEF InitTx, pending, replies, Held
  <2> QED
    BY <1>1, <2>2, Stutter
<1>4. CASE EnableIrq \/ CreateTask \/ lc_registerCallback \/ StartScheduler
  <2>1. pending' = pending /\ replies' = replies
    BY <1>4 DEF EnableIrq, CreateTask, lc_registerCallback, StartScheduler, client, pending, replies, Held
  <2> QED
    BY <1>1, <2>1, Stutter
<1> QED
  BY <1>2, <1>3, <1>4 DEF lc_init

\* lcTask: a read only takes the message in its hand; it is handled with the reply, or when it has
\* no callback.
LEMMA TaskStep ==
    ASSUME LcInv, lcTask
    PROVE  [Service!Next]_(Service!vars)
<1>1. cpu = "run" /\ cpu' = cpu /\ main = "started" /\ ready' = ready
  BY DEF lcTask, Read, Dispatch, lc_ping, Scheduled
<1>2. ready = {"rx", "tx"} /\ callbacks = {LC_TYPE_ACT}
  BY <1>1 DEF LcInv, BootOrder
<1>3. pending = Held \o rx /\ pending' = Held' \o rx' /\ replies = tx /\ replies' = tx'
  BY <1>1, <1>2 DEF pending, replies
<1>4. rx \in Seq(Message) /\ tx \in Seq(Message) /\ Len(tx) <= LC_BUFFER_SIZE
  BY DEF LcInv, TypeOK
<1>5. CASE Read
  <2>1. Held = <<>> /\ Held' = <<Head(rx)>> /\ rx' = Tail(rx) /\ rx # <<>> /\ tx' = tx
    BY <1>5 DEF Read, Held
  <2>2. Held' \o rx' = rx /\ Held \o rx = rx
    BY <1>4, <2>1, HeadFirst
  <2> QED
    BY <1>1, <1>3, <2>1, <2>2, Stutter
<1>6. ASSUME Dispatch \/ lc_ping
      PROVE  /\ pending # <<>> /\ Head(pending) = msg /\ Tail(pending) = rx /\ msg \in Message /\ rx' = rx
  <2>1. task \in {"dispatch", "ping"} /\ msg \in Message /\ rx' = rx
    BY <1>6 DEF Dispatch, lc_ping, LcInv, Taking
  <2>2. pending = <<msg>> \o rx
    BY <1>3, <2>1 DEF Held
  <2> QED
    BY <1>4, <2>1, <2>2, OneBefore
<1>7. CASE Dispatch
  <2>1. UNCHANGED <<tx, msg>> /\ task = "dispatch"
    BY <1>7 DEF Dispatch
  <2>2. CASE task' = "ping"
    <3>1. Held' = Held
      BY <2>1, <2>2 DEF Held
    <3> QED
      BY <1>1, <1>3, <1>6, <1>7, <2>1, <3>1, Stutter
  <2>3. CASE task' = "read" /\ msg.type # LC_TYPE_ACT
    <3>1. Held' = <<>> /\ Held' \o rx' = rx
      BY <1>4, <1>6, <1>7, <2>3 DEF Held
    <3>2. Service!Ignore
      BY <1>1, <1>3, <1>6, <1>7, <2>1, <2>3, <3>1 DEF Service!Ignore, pending, replies
    <3> QED
      BY <3>2, ServiceStep
  <2> QED
    BY <1>2, <1>7, <2>2, <2>3 DEF Dispatch, LC_TYPE_ACT, LC_COUNT
<1>8. CASE lc_ping
  <2>1. task' = "read" /\ msg.type = LC_TYPE_ACT
    BY <1>8 DEF lc_ping, LcInv, Taking
  <2>2. Held' = <<>> /\ Held' \o rx' = rx
    BY <1>4, <1>6, <1>8, <2>1 DEF Held
  <2>3. CASE Len(tx) < LC_BUFFER_SIZE /\ tx' = Append(tx, msg)
    <3>1. Service!Reply
      BY <1>1, <1>3, <1>6, <1>8, <2>1, <2>2, <2>3 DEF Service!Reply, pending, replies
    <3> QED
      BY <3>1, ServiceStep
  <2>4. CASE ~(Len(tx) < LC_BUFFER_SIZE) /\ tx' = tx
    <3>1. Len(tx) = LC_BUFFER_SIZE
      BY <1>4, <2>4, LinuxClientAssumption
    <3>2. Service!Ignore
      BY <1>1, <1>3, <1>6, <1>8, <2>2, <2>4, <3>1 DEF Service!Ignore, pending, replies
    <3> QED
      BY <3>2, ServiceStep
  <2> QED
    BY <1>8, <2>3, <2>4 DEF lc_ping
<1> QED
  BY <1>5, <1>7, <1>8 DEF lcTask

\* The interrupts end the service, or start it anew; the other core asks and collects.
LEMMA OutsideStep ==
    ASSUME LcInv, cpu2cpu_int3_isr \/ cpu2cpu_int0_isr \/ HostWrite \/ HostRead
    PROVE  [Service!Next]_(Service!vars)
<1>1. CASE cpu2cpu_int3_isr
  <2>1. pending' = pending /\ replies' = replies /\ cpu' = "shutdown"
    BY <1>1 DEF cpu2cpu_int3_isr, client, pending, replies, Held
  <2>2. Service!Stop
    BY <2>1 DEF Service!Stop, pending, replies
  <2> QED
    BY <2>2, ServiceStep
<1>2. CASE cpu2cpu_int0_isr
  <2>1. pending' = <<>> /\ replies' = <<>> /\ cpu' = cpu
    BY <1>2 DEF cpu2cpu_int0_isr, Booted, pending, replies
  <2>2. Service!Restart
    BY <2>1 DEF Service!Restart, pending, replies
  <2> QED
    BY <2>2, ServiceStep
<1>3. CASE HostWrite
  <2>1. PICK t \in Types : rx' = Append(rx, [type |-> t, id |-> sent + 1])
    BY <1>3 DEF HostWrite
  <2> DEFINE m == [type |-> t, id |-> sent + 1]
  <2>2. m \in Message
    <3>1. sent + 1 \in 1 .. MaxMessages
      BY <1>3, LinuxClientAssumption DEF HostWrite, LcInv, TypeOK
    <3> QED
      BY <3>1 DEF Message
  <2>3. Held' = Held /\ ready' = ready /\ replies' = replies /\ cpu' = cpu
    BY <1>3 DEF HostWrite, Held, client, replies
  <2>4. rx' = Append(rx, m)
    BY <2>1
  <2> HIDE DEF m
  <2>5. CASE "rx" \in ready
    <3>1. rx \in Seq(Message) /\ Held \in Seq(Message)
      BY DEF LcInv, TypeOK, Taking, Held
    <3>2. pending' = Append(pending, m)
      BY <2>2, <2>3, <2>4, <2>5, <3>1, AppendMoves DEF pending
    <3>3. Service!Ask
      BY <2>2, <2>3, <3>2 DEF Service!Ask, pending, replies
    <3> QED
      BY <3>3, ServiceStep
  <2>6. CASE "rx" \notin ready
    <3>1. pending' = pending
      BY <2>3, <2>6 DEF pending
    <3> QED
      BY <2>3, <3>1, Stutter
  <2> QED
    BY <2>5, <2>6
<1>4. CASE HostRead
  <2>1. pending' = pending /\ cpu' = cpu /\ ready' = ready /\ tx # <<>> /\ tx' = Tail(tx)
    BY <1>4 DEF HostRead, client, pending, Held
  <2>2. CASE "tx" \in ready
    <3>1. Service!Collect
      BY <2>1, <2>2 DEF Service!Collect, pending, replies
    <3> QED
      BY <3>1, ServiceStep
  <2>3. CASE "tx" \notin ready
    <3>1. replies' = replies
      BY <2>1, <2>3 DEF replies
    <3> QED
      BY <2>1, <3>1, Stutter
  <2> QED
    BY <2>2, <2>3
<1> QED
  BY <1>1, <1>2, <1>3, <1>4

LEMMA StepServes == LcInv /\ [Next]_vars => [Service!Next]_(Service!vars)
<1> SUFFICES ASSUME LcInv, [Next]_vars PROVE [Service!Next]_(Service!vars)
  OBVIOUS
<1>1. CASE Next
  BY <1>1, BootStep, TaskStep, OutsideStep DEF Next
<1>2. CASE UNCHANGED vars
  <2>1. pending' = pending /\ replies' = replies /\ cpu' = cpu
    BY <1>2 DEF vars, pending, replies, Held
  <2> QED
    BY <2>1, Stutter
<1> QED
  BY <1>1, <1>2

-----------------------------------------------------------------------------
(* Theorems *)

\* The inductive invariant: types, what exists at which step of main, and what lcTask holds.
THEOREM LcInductive == Spec => []LcInv
<1> QED
  BY InitLcInv, StepLcInv, PTL DEF Spec

\* linux_client.c implements the ping service: an act message is sent back once, in order, unless the
\* buffer to the other core is full or a reset takes it; every other message is dropped.
THEOREM ClientServes == Spec => ServesPings
<1>1. Init => Service!Init
  BY DEF Init, Service!Init
<1>2. LcInv /\ [Next]_vars => [Service!Next]_(Service!vars)
  BY StepServes
<1> QED
  BY <1>1, <1>2, LcInductive, PTL DEF Spec, ServesPings, Service!Spec

\* linux_client.c:105: after the emergency shutdown this core does nothing more, and the reset
\* interrupt is not taken; only the other core writes to rx and reads from tx.
THEOREM ShutdownHolds == Spec => ShutdownIsFinal
<1>1. LcInv /\ [Next]_vars =>
        [cpu = "shutdown" =>
           /\ UNCHANGED <<main, ready, client, cpu, resets>>
           /\ rx' = rx \/ Len(rx') = Len(rx) + 1
           /\ tx' = tx \/ tx' = Tail(tx)]_vars
  <2> SUFFICES ASSUME LcInv, [Next]_vars, cpu = "shutdown"
               PROVE  /\ UNCHANGED <<main, ready, client, cpu, resets>>
                      /\ rx' = rx \/ Len(rx') = Len(rx) + 1
                      /\ tx' = tx \/ tx' = Tail(tx)
    OBVIOUS
  <2>1. HostWrite \/ HostRead \/ UNCHANGED vars
    BY DEF Next, lc_init, InitRx, InitTx, EnableIrq, CreateTask, lc_registerCallback, StartScheduler,
           lcTask, Read, Dispatch, lc_ping, Scheduled, cpu2cpu_int3_isr, cpu2cpu_int0_isr
  <2>2. CASE HostWrite
    <3>1. \E m \in [type : Types, id : Nat] : rx' = Append(rx, m)
      BY <2>2 DEF HostWrite, LcInv, TypeOK
    <3>2. Len(rx') = Len(rx) + 1
      BY <3>1 DEF LcInv, TypeOK
    <3> QED
      BY <2>2, <3>2 DEF HostWrite, client
  <2>3. CASE HostRead
    BY <2>3 DEF HostRead, client, env
  <2>4. CASE UNCHANGED vars
    BY <2>4 DEF vars, client
  <2> QED
    BY <2>1, <2>2, <2>3, <2>4
<1> QED
  BY <1>1, LcInductive, PTL DEF Spec, ShutdownIsFinal
=============================================================================
