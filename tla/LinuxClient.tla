---------------------------- MODULE LinuxClient ----------------------------
(***************************************************************************)
(* The Linux client of vf610/linux_client.c.  Two buffers in memory shared *)
(* with the core that runs Linux carry messages of 32 bytes: rx to this    *)
(* core, tx back.  lc_init, called by main before the scheduler starts,    *)
(* sets the buffers up, enables the two cpu2cpu interrupts, creates lcTask *)
(* and registers lc_ping as callback of LC_TYPE_ACT.  lcTask reads rx and  *)
(* calls the callback of the message's type.  Interrupt 3 is an emergency  *)
(* shutdown, interrupt 0 resets the core.                                  *)
(*                                                                         *)
(* A message is its type and the order it was sent in.  The buffers are    *)
(* external (buffer.h): here a buffer is a sequence, buffer_init empties   *)
(* it, a write to a full one fails.                                        *)
(***************************************************************************)
EXTENDS Integers, Sequences

CONSTANTS
  LC_BUFFER_SIZE,  \* entries of a buffer
  MaxMessages,     \* bound: messages the other core sends
  MaxResets        \* bound: times it resets this core

ASSUME LinuxClientAssumption ==
  /\ LC_BUFFER_SIZE \in Nat \ {0}
  /\ MaxMessages \in Nat /\ MaxResets \in Nat

LC_TYPE_ACT == 0
LC_TYPE_STARTUP == 1
LC_TYPE_PID == 2
LC_COUNT == 3

Types == 0 .. LC_COUNT \* the types the client knows and one it does not
Message == [type : Types, id : 1 .. MaxMessages]
None == [type |-> LC_COUNT, id |-> 0]

VARIABLES
  main,       \* what main does next: a step of lc_init, devices, started, failed
  rx, tx,     \* the buffers
  ready,      \* the buffers that are initialised
  callbacks,  \* the types with a callback
  created,    \* lcTask exists
  task,       \* lcTask: read, dispatch, ping
  msg,        \* its message
  irq,        \* the cpu2cpu interrupts are enabled
  cpu,        \* run, or shutdown: in cpu2cpu_int3_isr
  sent,       \* messages the other core has sent
  resets      \* resets so far

vars == <<main, rx, tx, ready, callbacks, created, task, msg, irq, cpu, sent, resets>>

TypeOK ==
  /\ main \in {"rx", "tx", "irq", "create", "register", "devices", "started", "failed"}
  /\ rx \in Seq(Message) /\ Len(rx) <= LC_BUFFER_SIZE
  /\ tx \in Seq(Message) /\ Len(tx) <= LC_BUFFER_SIZE
  /\ ready \subseteq {"rx", "tx"}
  /\ created \in BOOLEAN /\ irq \in BOOLEAN
  /\ callbacks \subseteq 0 .. LC_COUNT - 1
  /\ task \in {"read", "dispatch", "ping"}
  /\ msg \in Message \cup {None}
  /\ cpu \in {"run", "shutdown"}
  /\ sent \in 0 .. MaxMessages
  /\ resets \in 0 .. MaxResets

\* The state the startup code leaves, once and after every reset.
Init ==
  /\ main = "rx" /\ ready = {} /\ irq = FALSE /\ cpu = "run"
  /\ callbacks = {} /\ created = FALSE /\ task = "read" /\ msg = None
  /\ rx = <<>> /\ tx = <<>> /\ sent = 0 /\ resets = 0

Booted ==
  /\ main' = "rx" /\ ready' = {} /\ irq' = FALSE /\ cpu' = "run"
  /\ callbacks' = {} /\ created' = FALSE /\ task' = "read" /\ msg' = None

client == <<callbacks, created, task, msg>>
env == <<sent, resets>>

-----------------------------------------------------------------------------
(* lc_init, in main *)

\* buffer_init of rx, then of tx; main goes on without a client if one fails.
InitRx ==
  /\ cpu = "run" /\ main = "rx"
  /\ \/ main' = "tx" /\ rx' = <<>> /\ ready' = {"rx"}
     \/ main' = "failed" /\ UNCHANGED <<rx, ready>>
  /\ UNCHANGED <<tx, client, irq, cpu, env>>

InitTx ==
  /\ cpu = "run" /\ main = "tx"
  /\ \/ main' = "irq" /\ tx' = <<>> /\ ready' = {"rx", "tx"}
     \/ main' = "failed" /\ UNCHANGED <<tx, ready>>
  /\ UNCHANGED <<rx, client, irq, cpu, env>>

EnableIrq ==
  /\ cpu = "run" /\ main = "irq"
  /\ irq' = TRUE
  /\ main' = "create"
  /\ UNCHANGED <<rx, tx, ready, client, cpu, env>>

CreateTask ==
  /\ cpu = "run" /\ main = "create"
  /\ created' = TRUE
  /\ main' = "register"
  /\ UNCHANGED <<rx, tx, ready, callbacks, task, msg, irq, cpu, env>>

lc_registerCallback ==
  /\ cpu = "run" /\ main = "register"
  /\ callbacks' = callbacks \cup {LC_TYPE_ACT}
  /\ main' = "devices"
  /\ UNCHANGED <<rx, tx, ready, created, task, msg, irq, cpu, env>>

StartScheduler ==
  /\ cpu = "run" /\ main = "devices"
  /\ main' = "started"
  /\ UNCHANGED <<rx, tx, ready, client, irq, cpu, env>>

lc_init == InitRx \/ InitTx \/ EnableIrq \/ CreateTask \/ lc_registerCallback

-----------------------------------------------------------------------------
(* lcTask *)

\* (mutant) the scheduler runs when lcTask is created
Scheduled_early == cpu = "run" /\ created

Scheduled == cpu = "run" /\ created /\ main = "started"

\* buffer_read: blocks while rx is empty.
Read ==
  /\ Scheduled /\ task = "read" /\ rx # <<>>
  /\ msg' = Head(rx)
  /\ rx' = Tail(rx)
  /\ task' = "dispatch"
  /\ UNCHANGED <<main, tx, ready, callbacks, created, irq, cpu, env>>

\* The callback of the type, if it has one.
Dispatch ==
  /\ Scheduled /\ task = "dispatch"
  /\ task' = IF msg.type < LC_COUNT /\ msg.type \in callbacks THEN "ping" ELSE "read"
  /\ UNCHANGED <<main, rx, tx, ready, callbacks, created, msg, irq, cpu, env>>

\* (mutant) a reply the full buffer refuses is sent again until it goes
lc_ping_retry ==
  /\ Scheduled /\ task = "ping"
  /\ Len(tx) < LC_BUFFER_SIZE
  /\ tx' = Append(tx, msg)
  /\ task' = "read"
  /\ UNCHANGED <<main, rx, ready, callbacks, created, msg, irq, cpu, env>>

\* The message goes back as it came; that it could not is only printed.
lc_ping ==
  /\ Scheduled /\ task = "ping"
  /\ tx' = IF Len(tx) < LC_BUFFER_SIZE THEN Append(tx, msg) ELSE tx
  /\ task' = "read"
  /\ UNCHANGED <<main, rx, ready, callbacks, created, msg, irq, cpu, env>>

lcTask == Read \/ Dispatch \/ lc_ping

-----------------------------------------------------------------------------
(* The interrupts, and the other core *)

\* lc_shutdown and for(;;): no task and no interrupt runs again.
cpu2cpu_int3_isr ==
  /\ cpu = "run" /\ irq
  /\ cpu' = "shutdown"
  /\ UNCHANGED <<main, rx, tx, ready, client, irq, env>>

\* (mutant) the reset interrupt is taken in the emergency shutdown, too
cpu2cpu_int0_isr_always ==
  /\ irq /\ resets < MaxResets
  /\ Booted
  /\ resets' = resets + 1
  /\ UNCHANGED <<rx, tx, sent>>

\* lc_shutdown and a reset: the core boots again, the shared memory stays.
cpu2cpu_int0_isr ==
  /\ cpu = "run" /\ irq /\ resets < MaxResets
  /\ Booted
  /\ resets' = resets + 1
  /\ UNCHANGED <<rx, tx, sent>>

\* The other core writes where there is room, also while this one boots.
HostWrite ==
  /\ sent < MaxMessages /\ Len(rx) < LC_BUFFER_SIZE
  /\ \E t \in Types : rx' = Append(rx, [type |-> t, id |-> sent + 1])
  /\ sent' = sent + 1
  /\ UNCHANGED <<main, tx, ready, client, irq, cpu, resets>>

HostRead ==
  /\ tx # <<>>
  /\ tx' = Tail(tx)
  /\ UNCHANGED <<main, rx, ready, client, irq, cpu, env>>

-----------------------------------------------------------------------------
Next ==
  \/ lc_init \/ StartScheduler \/ lcTask
  \/ cpu2cpu_int3_isr \/ cpu2cpu_int0_isr
  \/ HostWrite \/ HostRead

Spec == Init /\ [][Next]_vars

\* main runs to the scheduler and lcTask is scheduled: nothing of a higher
\* priority computes forever.  Nothing is asked of the other core.
Fairness == WF_vars(lc_init \/ StartScheduler) /\ WF_vars(lcTask)

FairSpec == Spec /\ Fairness

-----------------------------------------------------------------------------
(* Properties *)

\* The message lcTask has taken and not dealt with yet.
Held == IF task \in {"dispatch", "ping"} THEN <<msg>> ELSE <<>>

Service == INSTANCE PingService WITH
  Request <- Message,
  Answerable <- {m \in Message : m.type = LC_TYPE_ACT},
  Limit <- LC_BUFFER_SIZE,
  pending <- IF "rx" \in ready THEN Held \o rx ELSE <<>>,
  replies <- IF "tx" \in ready THEN tx ELSE <<>>,
  serving <- cpu # "shutdown"

\* The client implements the service: an act message is sent back once, in
\* order, unless tx is full or the core is reset.  In particular none is read
\* before lc_ping is registered, although the task and the interrupts are there
\* earlier (linux_client.c:54-64).
ServesPings == Service!Spec

\* Emergency shutdown (linux_client.c:105): from the interrupt on the client
\* reads, sends and restarts nothing, and the reset interrupt is not taken.
ShutdownIsFinal ==
  [][cpu = "shutdown" =>
       /\ UNCHANGED <<main, ready, client, cpu, resets>>
       /\ rx' = rx \/ Len(rx') = Len(rx) + 1
       /\ tx' = tx \/ tx' = Tail(tx)]_vars

\* Every message is taken from rx in the end, whatever its type, even if the
\* other core never reads a reply, unless the core is reset or shut down.
MessagesTaken ==
  \A i \in 1 .. MaxMessages :
    (main = "started" /\ \E k \in DOMAIN rx : rx[k].id = i)
      ~> (Held = <<>> /\ \A k \in DOMAIN rx : rx[k].id # i)
           \/ main # "started" \/ cpu = "shutdown"
=============================================================================
