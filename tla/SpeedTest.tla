----------------------------- MODULE SpeedTest -----------------------------
(***************************************************************************)
(* The latency test of vf610/speedtest.c.  A PWM output is wired to an     *)
(* input pin; its interrupt stamps the time and wakes the test task by the *)
(* mechanism under test, the task stamps the time it runs at.  The task    *)
(* steps through the mechanisms and repeats them ITERATION times.          *)
(*                                                                         *)
(* A time stamp is modelled by the iteration it was taken in, counted from *)
(* 1, and 0 stands for a counterValue that was never written.              *)
(***************************************************************************)
EXTENDS Integers

CONSTANTS
  ITERATION,
  QueueLength, \* of the timer daemon: more pending calls fail
  MayUnplug    \* the wire may be pulled off

ASSUME SpeedTestAssumption ==
  /\ ITERATION \in Nat \ {0} /\ QueueLength \in Nat \ {0}
  /\ MayUnplug \in BOOLEAN

\* enum tests
SEMAPHORE == 0
EVENT == 1
NOTIFICATION == 2
TASK_SUSPEND == 3
END == 4

Tests == SEMAPHORE .. END - 1

VARIABLES
  acutalTest, iteration, counterValue,
  values,       \* values[k]: counterValue as it was recorded in iteration k
  overrun,      \* values was written past its end
  pc,           \* speedtest_task: start, wait, suspended, woken, halt
  pin,          \* the interrupt of the pin is enabled and the PWM runs
  signalled,    \* history: an edge since startTest has woken, or will wake, the task
  late,         \* history: an edge followed such an edge in the same test
  semaphore,    \* the binary semaphore is full
  setBits,      \* xEventGroupSetBitsFromISR calls the timer daemon has to run
  event,        \* bit 0 of the event group
  notified,     \* a notification of the task is pending
  plugged,      \* the wire is in place
  stop          \* the assertion that ended the test

vars == <<acutalTest, iteration, counterValue, values, overrun, pc, pin, signalled, late,
          semaphore, setBits, event, notified, plugged, stop>>

Stamps == [0 .. 2 -> Nat]

TypeOK ==
  /\ acutalTest \in SEMAPHORE .. END
  /\ iteration \in 0 .. ITERATION + 1
  /\ counterValue \in [Tests -> Stamps]
  /\ values \in [0 .. ITERATION - 1 -> [Tests -> Stamps]]
  /\ overrun \in BOOLEAN
  /\ pc \in {"start", "wait", "suspended", "woken", "halt"}
  /\ pin \in BOOLEAN
  /\ signalled \in BOOLEAN /\ late \in BOOLEAN
  /\ semaphore \in BOOLEAN
  /\ setBits \in 0 .. QueueLength
  /\ event \in BOOLEAN
  /\ notified \in BOOLEAN
  /\ plugged \in BOOLEAN
  /\ stop \in {"none", "timeout", "interrupt", "zero", "done"}

\* speedtest_init: nothing is signalled, the interrupt is off.
Init ==
  /\ acutalTest = SEMAPHORE
  /\ iteration = 0
  /\ counterValue = [t \in Tests |-> [j \in 0 .. 2 |-> 0]]
  /\ values = [k \in 0 .. ITERATION - 1 |-> [t \in Tests |-> [j \in 0 .. 2 |-> 0]]]
  /\ overrun = FALSE
  /\ pc = "start"
  /\ pin = FALSE
  /\ signalled = FALSE /\ late = FALSE
  /\ semaphore = FALSE
  /\ setBits = 0
  /\ event = FALSE
  /\ notified = FALSE
  /\ plugged = TRUE
  /\ stop = "none"

Running == stop = "none"

\* CONFIG_ASSERT: interrupts off, forever.
Assert(why) == stop' = why /\ pc' = "halt"

Stamp(t, j) == counterValue' = [counterValue EXCEPT ![t][j] = iteration + 1]

-----------------------------------------------------------------------------
(* interruptHandler, and the timer daemon that sets event bits for it. *)

\* An edge signals the test under way, unless it is a resume of a task that has
\* not suspended itself yet: FreeRTOS forgets that one.
Signals == acutalTest = TASK_SUSPEND => pc = "suspended"

\* (mutant) the interrupt disables itself
interrupt_once ==
  /\ Running /\ pin /\ plugged /\ acutalTest # END
  /\ Stamp(acutalTest, 1)
  /\ semaphore' = (semaphore \/ acutalTest = SEMAPHORE)
  /\ setBits' = IF acutalTest = EVENT THEN 1 ELSE setBits
  /\ notified' = (notified \/ acutalTest = NOTIFICATION)
  /\ pc' = IF acutalTest = TASK_SUSPEND /\ pc = "suspended" THEN "woken" ELSE pc
  /\ pin' = FALSE
  /\ signalled' = (signalled \/ Signals)
  /\ late' = (late \/ signalled)
  /\ UNCHANGED <<acutalTest, iteration, values, overrun, event, plugged, stop>>

interruptHandler ==
  /\ Running /\ pin /\ plugged
  /\ IF acutalTest = END
       THEN /\ Assert("interrupt")
            /\ UNCHANGED <<counterValue, semaphore, setBits, notified>>
       ELSE /\ Stamp(acutalTest, 1)
            /\ semaphore' = (semaphore \/ acutalTest = SEMAPHORE)
            /\ setBits' = IF acutalTest = EVENT /\ setBits < QueueLength
                            THEN setBits + 1 ELSE setBits
            /\ notified' = (notified \/ acutalTest = NOTIFICATION)
            /\ pc' = IF acutalTest = TASK_SUSPEND /\ pc = "suspended"
                       THEN "woken" ELSE pc
            /\ UNCHANGED stop
  /\ signalled' = (signalled \/ Signals)
  /\ late' = (late \/ signalled)
  /\ UNCHANGED <<acutalTest, iteration, values, overrun, pin, event, plugged>>

SetBits ==
  /\ Running /\ setBits > 0
  /\ setBits' = setBits - 1
  /\ event' = TRUE
  /\ UNCHANGED <<acutalTest, iteration, counterValue, values, overrun, pc, pin,
                 semaphore, notified, plugged, stop, signalled, late>>

-----------------------------------------------------------------------------
(* speedtest_task *)

\* (mutant) the token the task waited for stays
consume_nothing == UNCHANGED <<semaphore, event, notified>>

\* The wait takes what woke it.
Consume ==
  /\ semaphore' = (semaphore /\ acutalTest # SEMAPHORE)
  /\ event' = (event /\ acutalTest # EVENT)
  /\ notified' = (notified /\ acutalTest # NOTIFICATION)

startTest ==
  /\ Running /\ pc = "start" /\ acutalTest # END
  /\ pin' = TRUE
  /\ signalled' = FALSE
  /\ pc' = "wait"
  /\ UNCHANGED <<acutalTest, iteration, counterValue, values, overrun, semaphore,
                 setBits, event, notified, plugged, stop, late>>

Token ==
  CASE acutalTest = SEMAPHORE -> semaphore
    [] acutalTest = EVENT -> event
    [] acutalTest = NOTIFICATION -> notified
    [] OTHER -> FALSE

\* The take, wait or notification wait succeeds.
WaitEnds ==
  /\ Running /\ pc = "wait" /\ Token
  /\ Consume
  /\ Stamp(acutalTest, 2)
  /\ pc' = "woken"
  /\ UNCHANGED <<acutalTest, iteration, values, overrun, pin, setBits, plugged, stop, signalled, late>>

\* It times out after WAITTIME, two seconds: 2000 edges, unless there are none.
WaitTimesOut ==
  /\ Running /\ pc = "wait" /\ acutalTest # TASK_SUSPEND
  /\ ~plugged /\ ~Token /\ setBits = 0
  /\ Assert("timeout")
  /\ Stamp(acutalTest, 2)
  /\ UNCHANGED <<acutalTest, iteration, values, overrun, pin, semaphore,
                 setBits, event, notified, plugged, signalled, late>>

\* vTaskSuspend: an interrupt that came before resumed nothing.
Suspend ==
  /\ Running /\ pc = "wait" /\ acutalTest = TASK_SUSPEND
  /\ pc' = "suspended"
  /\ UNCHANGED <<acutalTest, iteration, counterValue, values, overrun, pin,
                 semaphore, setBits, event, notified, plugged, stop, signalled, late>>

\* (mutant) the interrupt stays on after the last test
stop_staysOn ==
  /\ Running /\ pc = "woken"
  /\ pin' = (acutalTest = TASK_SUSPEND)
  /\ acutalTest' = acutalTest + 1
  /\ pc' = "start"
  /\ UNCHANGED <<iteration, counterValue, values, overrun, semaphore, setBits,
                 event, notified, plugged, stop, signalled, late>>

\* stopTest, then the next test.  After a suspension the task stamps here.
stopTest ==
  /\ Running /\ pc = "woken"
  /\ pin' = FALSE
  /\ IF acutalTest = TASK_SUSPEND THEN Stamp(TASK_SUSPEND, 2)
                                  ELSE UNCHANGED counterValue
  /\ acutalTest' = acutalTest + 1
  /\ pc' = "start"
  /\ UNCHANGED <<iteration, values, overrun, semaphore, setBits, event, notified,
                 plugged, stop, signalled, late>>

\* case END: the results of the iteration are recorded, then acutalTest is set
\* to SEMAPHORE and incremented by the loop.  After the last iteration every
\* recorded value is asserted to have been measured.
Record ==
  /\ Running /\ pc = "start" /\ acutalTest = END
  /\ IF iteration < ITERATION
       THEN values' = [values EXCEPT ![iteration] = counterValue]
            /\ UNCHANGED overrun
       ELSE overrun' = TRUE /\ UNCHANGED values
  /\ IF iteration > ITERATION
       THEN /\ IF \A k \in 0 .. ITERATION - 1, t \in Tests, j \in 0 .. 2 :
                    values[k][t][j] # 0
                 THEN Assert("done") ELSE Assert("zero")
            /\ UNCHANGED <<acutalTest, iteration>>
       ELSE /\ iteration' = iteration + 1
            /\ acutalTest' = SEMAPHORE + 1
            /\ UNCHANGED <<pc, stop>>
  /\ UNCHANGED <<counterValue, pin, semaphore, setBits, event, notified, plugged, signalled, late>>

speedtest_task ==
  startTest \/ WaitEnds \/ WaitTimesOut \/ Suspend \/ stopTest \/ Record

-----------------------------------------------------------------------------
Unplug ==
  /\ MayUnplug /\ plugged /\ Running
  /\ plugged' = FALSE
  /\ UNCHANGED <<acutalTest, iteration, counterValue, values, overrun, pc, pin,
                 semaphore, setBits, event, notified, stop, signalled, late>>

Next == interruptHandler \/ SetBits \/ speedtest_task \/ Unplug

Spec == Init /\ [][Next]_vars

\* The PWM keeps running, and the task and the timer daemon are scheduled.
Fairness == WF_vars(interruptHandler) /\ WF_vars(SetBits) /\ WF_vars(speedtest_task)

FairSpec == Spec /\ Fairness

-----------------------------------------------------------------------------
(* Properties *)

\* speedtest.c:107 "Interrupt is Called in END State!" is never reached, not
\* even by an edge that comes between the wake-up of the task and stopTest: the
\* interrupt is off whenever acutalTest is END, where it would also write past
\* counterValue.
NoInterruptInEnd == acutalTest = END => ~pin /\ stop # "interrupt"

\* Waits that edges which come too late can end in later iterations: one for each call the
\* timer daemon still has to run and one for the bit, one for the notification; none for a
\* resume, which is forgotten.
Leftover(t) ==
  CASE t = EVENT -> QueueLength + 1
    [] t = NOTIFICATION -> 1
    [] OTHER -> 0

\* What is recorded together belongs together: the task stamped in this iteration, and so
\* did the interrupt as long as no edge has followed the one that woke the task.  After
\* such edges a wait may end before its edge, and the interrupt's stamp is then older, but
\* by no more iterations than waits can be ended like that.
StampsBelongTogether ==
  (acutalTest = END /\ pc = "start" /\ iteration <= ITERATION) =>
    \A t \in Tests \ {SEMAPHORE} :
      /\ counterValue[t][2] = iteration + 1
      /\ iteration + 1 - counterValue[t][1] <= (IF late THEN Leftover(t) ELSE 0)

\* The test ends although the interrupt may come before vTaskSuspend and be
\* lost, as the comment at speedtest.c:98 warns: the next edge resumes the task,
\* as long as the wire is in place.
TestEnds == <>(pc = "halt" \/ ~plugged)

\* speedtest.c:181 CONFIG_ASSERT(values[k][i][j] != 0): every value recorded was
\* measured.  Violated: counterValue[i][0] is never written.
EveryValueMeasured == stop # "zero"
=============================================================================
