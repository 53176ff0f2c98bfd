------------------------------ MODULE CanTest ------------------------------
(***************************************************************************)
(* The CAN test of c28x/can_test.c, in the four forms Kconfig knows.  In    *)
(* the echo test an interrupt calls can_test_msg_received, which queues a  *)
(* frame for the task to print and sends it back; in the receive test the  *)
(* driver queues the frames (external: it drops what has no room, too); in *)
(* the send test the task sends.  In all three another interrupt calls     *)
(* can_test_error, which collects error flags, and can_task takes them     *)
(* with the interrupts disabled.  The fourth toggles a pin and reads it    *)
(* back over the transceiver.                                              *)
(*                                                                         *)
(* A frame is the order it was received or sent in.  An error is a pair of *)
(* a CAN_ERR bit and a bit of data that belongs to it.                     *)
(***************************************************************************)
EXTENDS Integers, Sequences, FiniteSets

CONSTANTS
  QueueLength,  \* of the messages received: CONFIG_CAN_TEST_ECHO_QUEUE_LENGTH, or the driver's
  TxLength,     \* frames the controller holds for sending
  Errors,       \* the errors of this bus: pairs of a CAN_ERR and a data bit
  MaxFrames,    \* bound: frames received, or sent
  MaxErrors     \* bound: error interrupts

ASSUME CanTestAssumption ==
  /\ QueueLength \in Nat \ {0} /\ TxLength \in Nat \ {0}
  /\ Errors \subseteq (0 .. 6) \X Nat
  /\ MaxFrames \in Nat /\ MaxErrors \in Nat

VARIABLES
  test,         \* the form: echo, recv, send, toggle
  received,     \* frames received so far
  queue,        \* can_test_messages
  printed,      \* history: the frames printed
  dropped,      \* history: the frames the full queue refused
  accepted,     \* frames can_send took in the send test
  tx,           \* frames waiting to be sent, oldest first
  echoed,       \* history: the frames sent
  can_err, can_err_data, \* the flags collected
  tmp,          \* the flags the task copied
  raised,       \* history: the errors since the task last cleared the flags
  taken,        \* history: the errors the task cleared last
  errorCount,   \* error interrupts so far
  task,         \* can_task: init, setup, work, check, dint, copy, clear, eint, print
  interrupts,   \* they are enabled
  stopped       \* a CONFIG_ASSERT failed

frames == <<received, queue, printed, dropped, accepted, tx, echoed>>
flags == <<can_err, can_err_data, tmp, raised, taken, errorCount>>
vars == <<test, frames, flags, task, interrupts, stopped>>

Frame == 1 .. MaxFrames
Bits(errs) == [err |-> {e[1] : e \in errs}, data |-> {e[2] : e \in errs}]

TypeOK ==
  /\ test \in {"echo", "recv", "send", "toggle"}
  /\ received \in 0 .. MaxFrames /\ accepted \in 0 .. MaxFrames
  /\ queue \in Seq(Frame) /\ Len(queue) <= QueueLength
  /\ printed \in Seq(Frame) /\ dropped \subseteq Frame
  /\ tx \in Seq(Frame) /\ Len(tx) <= TxLength
  /\ echoed \in Seq(Frame)
  /\ can_err \subseteq 0 .. 6 /\ can_err_data \subseteq Nat
  /\ raised \subseteq Errors /\ taken \subseteq Errors
  /\ errorCount \in 0 .. MaxErrors
  /\ task \in {"init", "setup", "work", "check", "dint", "copy", "clear", "eint", "print"}
  /\ interrupts \in BOOLEAN /\ stopped \in BOOLEAN

Init ==
  /\ test \in {"echo", "recv", "send", "toggle"}
  /\ received = 0 /\ queue = <<>> /\ printed = <<>> /\ dropped = {}
  /\ accepted = 0 /\ tx = <<>> /\ echoed = <<>>
  /\ can_err = {} /\ can_err_data = {} /\ tmp = Bits({})
  /\ raised = {} /\ taken = {} /\ errorCount = 0
  /\ task = "init" /\ interrupts = TRUE /\ stopped = FALSE

-----------------------------------------------------------------------------
(* The interrupts *)

\* (mutant) the newest frame is queued first
Enqueue_front(f) ==
  IF Len(queue) < QueueLength
    THEN queue' = <<f>> \o queue /\ UNCHANGED dropped
    ELSE dropped' = dropped \cup {f} /\ UNCHANGED queue

\* xQueueSendToBackFromISR: its result is not looked at.
Enqueue(f) ==
  IF Len(queue) < QueueLength
    THEN queue' = Append(queue, f) /\ UNCHANGED dropped
    ELSE dropped' = dropped \cup {f} /\ UNCHANGED queue

\* (mutant) a frame that cannot be queued is not sent back
Echo_ifQueued(f) ==
  IF Len(tx) < TxLength
    THEN /\ tx' = IF Len(queue) < QueueLength THEN Append(tx, f) ELSE tx
         /\ UNCHANGED stopped
    ELSE stopped' = TRUE /\ UNCHANGED tx

\* can_sendISR: CONFIG_ASSERT(ret == 0).
Echo(f) ==
  IF Len(tx) < TxLength
    THEN tx' = Append(tx, f) /\ UNCHANGED stopped
    ELSE stopped' = TRUE /\ UNCHANGED tx

\* A frame that passes a filter: from setup on, when the callback is set or the filter
\* registered.
Arrives(form) ==
  /\ test = form /\ task \notin {"init", "setup"}
  /\ ~stopped /\ interrupts /\ received < MaxFrames
  /\ received' = received + 1
  /\ Enqueue(received + 1)
  /\ UNCHANGED <<test, printed, accepted, echoed, flags, task, interrupts>>

can_test_msg_received == Arrives("echo") /\ Echo(received + 1)

\* The driver keeps the frames of a filter that has no callback.
DriverReceives == Arrives("recv") /\ UNCHANGED <<tx, stopped>>

\* From can_init on, which is given the callback.
can_test_error ==
  /\ test # "toggle" /\ task # "init" /\ ~stopped /\ interrupts /\ errorCount < MaxErrors
  /\ \E e \in Errors :
       /\ can_err' = can_err \cup {e[1]}
       /\ can_err_data' = can_err_data \cup {e[2]}
       /\ raised' = raised \cup {e}
  /\ errorCount' = errorCount + 1
  /\ UNCHANGED <<test, frames, tmp, taken, task, interrupts, stopped>>

\* The controller gets the bus.
Transmit ==
  /\ tx # <<>>
  /\ tx' = Tail(tx)
  /\ echoed' = Append(echoed, Head(tx))
  /\ UNCHANGED <<test, received, queue, printed, dropped, accepted, flags, task, interrupts, stopped>>

-----------------------------------------------------------------------------
(* can_task *)

Step(from, to) == ~stopped /\ task = from /\ task' = to

\* can_init, then can_up and the filters: each is asserted.  The toggle test asserts its pins.
Setup ==
  /\ \/ Step("init", IF test = "toggle" THEN "work" ELSE "setup") /\ UNCHANGED stopped
     \/ Step("setup", "work") /\ UNCHANGED stopped
     \/ ~stopped /\ task \in {"init", "setup"} /\ stopped' = TRUE /\ UNCHANGED task
  /\ UNCHANGED <<test, frames, flags, interrupts>>

\* xQueueReceive of the echo test, can_recv of the receive test.
Receive ==
  /\ Step("work", "check") /\ queue # <<>>
  /\ printed' = Append(printed, Head(queue))
  /\ queue' = Tail(queue)
  /\ UNCHANGED <<test, received, dropped, accepted, tx, echoed, flags, interrupts, stopped>>

\* (mutant) the errors are looked at after a frame only
TimeOut_again ==
  /\ Step("work", "work") /\ queue = <<>> /\ test \in {"echo", "recv"}
  /\ UNCHANGED <<test, frames, flags, interrupts, stopped>>

\* Nothing received for a second.
TimeOut ==
  /\ Step("work", "check") /\ queue = <<>> /\ test \in {"echo", "recv"}
  /\ UNCHANGED <<test, frames, flags, interrupts, stopped>>

\* can_send takes the frame or gives up after a second, which is printed.  (External: it may
\* give up at any time.)
Send ==
  /\ test = "send" /\ Step("work", "check")
  /\ \/ /\ accepted < MaxFrames /\ Len(tx) < TxLength
        /\ accepted' = accepted + 1 /\ tx' = Append(tx, accepted + 1)
     \/ UNCHANGED <<accepted, tx>>
  /\ UNCHANGED <<test, received, queue, printed, dropped, echoed, flags, interrupts, stopped>>

\* The level read back is asserted; the transceiver may be absent.
Toggle ==
  /\ test = "toggle" /\ task = "work" /\ ~stopped
  /\ stopped' \in BOOLEAN
  /\ UNCHANGED <<test, frames, flags, task, interrupts>>

Check ==
  /\ \/ can_err # {} /\ Step("check", "dint")
     \/ can_err = {} /\ Step("check", "work")
  /\ UNCHANGED <<test, frames, flags, interrupts, stopped>>

\* (mutant) the interrupts stay enabled
Dint_none ==
  /\ Step("dint", "copy")
  /\ UNCHANGED <<test, frames, flags, interrupts, stopped>>

Dint ==
  /\ Step("dint", "copy")
  /\ interrupts' = FALSE
  /\ UNCHANGED <<test, frames, flags, stopped>>

Copy ==
  /\ Step("copy", "clear")
  /\ tmp' = [err |-> can_err, data |-> can_err_data]
  /\ UNCHANGED <<test, frames, can_err, can_err_data, raised, taken, errorCount,
                 interrupts, stopped>>

Clear ==
  /\ Step("clear", "eint")
  /\ can_err' = {} /\ can_err_data' = {}
  /\ taken' = raised /\ raised' = {}
  /\ UNCHANGED <<test, frames, tmp, errorCount, interrupts, stopped>>

Eint ==
  /\ Step("eint", "print")
  /\ interrupts' = TRUE
  /\ UNCHANGED <<test, frames, flags, stopped>>

print_can_error ==
  /\ Step("print", "work")
  /\ UNCHANGED <<test, frames, flags, interrupts, stopped>>

can_task ==
  \/ Setup \/ Receive \/ TimeOut \/ Send \/ Toggle \/ Check
  \/ Dint \/ Copy \/ Clear \/ Eint \/ print_can_error

-----------------------------------------------------------------------------
Next == can_test_msg_received \/ DriverReceives \/ can_test_error \/ Transmit \/ can_task

Spec == Init /\ [][Next]_vars

\* The calls of can_task return, in a second at the latest.
FairSpec == Spec /\ WF_vars(can_task)

-----------------------------------------------------------------------------
(* Properties *)

\* What a report prints is every flag of every error since the last one, and
\* none else: no error that comes while the task takes the flags is lost, or
\* has its data printed apart from it.
ReportComplete == task = "print" => tmp = Bits(taken)

\* The frames printed and queued are those received, in the order they came,
\* but for the ones the full queue refused.
PrintedInOrder ==
  LET seen == printed \o queue IN
    /\ \A i, j \in DOMAIN seen : i < j => seen[i] < seen[j]
    /\ {seen[i] : i \in DOMAIN seen} = (1 .. received) \ dropped

\* Every frame is sent back once, in order, also those the queue refused, until
\* the controller has no room for one; in the send test, every frame can_send took goes out
\* once, and in the other two nothing does.
EchoedInOrder ==
  LET back == echoed \o tx IN
    /\ \A i \in DOMAIN back : back[i] = i
    /\ Len(back) = IF test # "echo" THEN accepted
                   ELSE IF stopped /\ received > 0 THEN received - 1 ELSE received

\* Every error is reported, also if no frame ever comes again.
ErrorsReported == \A e \in Errors : e \in raised ~> (e \notin raised \/ stopped)
=============================================================================
