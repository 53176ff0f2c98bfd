-------------------------------- MODULE Ppm --------------------------------
(***************************************************************************)
(* The PPM generator of vf610/ppm.c: a state machine that runs in the      *)
(* interrupt of a one-shot timer and, for the long pause at the end of a   *)
(* frame, hands the work to a task through a binary semaphore.             *)
(*                                                                         *)
(* One action per case of timerHandler and per run of ppm_task between two *)
(* places where it blocks or can be interrupted with the timer armed.      *)
(* Times are in microseconds.                                              *)
(***************************************************************************)
EXTENDS Integers

CONSTANTS
  Slots,       \* ppm_init's argument
  SlotTimes,   \* the tables slot[].time the generator is run with
  Modulus,     \* 2^w for the width w of uint32_t sum
  WakeJitter,  \* by how much vTaskDelayUntil and the scheduler miss the delay
  MaxLate,     \* an upper bound of WakeJitter
  ArmMayFail   \* TRUE where timer_oneshot may return an error

PPM_MIN_TIME == 500
PPM_MAX_TIME == 1500
TickTime == 1000

\* The time ppm_start plans for a frame.
FrameTime == (PPM_MAX_TIME * Slots) + (PPM_MIN_TIME * Slots) + PPM_MIN_TIME

ASSUME PpmAssumption ==
  /\ Slots \in Nat /\ Slots >= 3
  /\ SlotTimes \subseteq [0 .. Slots - 1 -> 0 .. PPM_MAX_TIME - PPM_MIN_TIME]
  /\ Modulus \in Nat /\ FrameTime < Modulus
  /\ MaxLate \in Nat
  /\ WakeJitter \subseteq (1 - TickTime) .. MaxLate
  /\ ArmMayFail \in BOOLEAN

VARIABLES
  slot,      \* ppm->slot[].time
  state,     \* ppm->state
  pos,       \* ppm->pos
  sum,       \* ppm->sum: what is left of the frame
  waittime,  \* ppm->waittime, in ticks
  pin,       \* level of ppm->pin
  armed,     \* time the one-shot timer was armed with, 0 when it is not
  sem,       \* the binary semaphore is full
  task,      \* where ppm_task is: at its semaphore, in its delay, about to arm
  fault,     \* a timer_oneshot that failed: none, ignored, or caught by assert
  clock,     \* (ghost) time of the last edge, from the start of the frame
  frame      \* (ghost) length of the last complete frame

vars == <<slot, state, pos, sum, waittime, pin, armed, sem, task, fault,
          clock, frame>>

States == {"STOPED", "START", "DATA", "LAST", "PAUSE"}

TypeOK ==
  /\ slot \in [0 .. Slots - 1 -> 0 .. PPM_MAX_TIME - PPM_MIN_TIME]
  /\ state \in States
  /\ pos \in 0 .. Slots
  /\ sum \in 0 .. Modulus - 1
  /\ waittime \in Nat
  /\ pin \in BOOLEAN
  /\ armed \in Nat
  /\ sem \in BOOLEAN
  /\ task \in {"take", "delay", "arm"}
  /\ fault \in {"none", "ignored", "assert"}
  /\ clock \in Nat
  /\ frame \in Nat

-----------------------------------------------------------------------------
(* Initialisation. *)

\* The table ppm_init leaves in slot[].
DefaultSlots ==
  [i \in 0 .. Slots - 1 |->
     CASE i = 0 -> 0
       [] i \in {1, 2} -> 200
       [] OTHER -> 1000]

\* ppm_init succeeded: the timer is idle, the semaphore was given and taken
\* once, the task blocks on it.  sum and waittime are written before any read.
Init ==
  /\ slot \in SlotTimes
  /\ state = "STOPED"
  /\ pos = 0
  /\ sum = 0
  /\ waittime = 0
  /\ pin = FALSE
  /\ armed = 0
  /\ sem = FALSE
  /\ task = "take"
  /\ fault = "none"
  /\ clock = 0
  /\ frame = 0

-----------------------------------------------------------------------------
(* The functions of ppm.c. *)

\* uint32_t arithmetic.
U(n) == n % Modulus

\* Arms the timer, or fails: onError is what the caller does about an error.
timer_oneshot(time, onError) ==
  \/ armed' = time /\ UNCHANGED fault
  \/ ArmMayFail /\ armed' = 0 /\ fault' = onError

\* (mutant) the pulse is not charged to the frame
startTransfer_uncharged(left, onError) ==
  /\ pin' = TRUE
  /\ sum' = left
  /\ timer_oneshot(PPM_MIN_TIME, onError)

\* What the pulse costs is taken from left, the caller's ppm->sum.
ppm_startTransfer(left, onError) ==
  /\ pin' = TRUE
  /\ sum' = U(left - PPM_MIN_TIME)
  /\ timer_oneshot(PPM_MIN_TIME, onError)

\* A new frame; past is how long the one before took.
ppm_start(past, onError) ==
  /\ state' = "START"
  /\ pos' = 0
  /\ ppm_startTransfer(FrameTime, onError)
  /\ clock' = 0
  /\ frame' = past

\* (mutant) pos is incremented before the slot is read
data_nextSlot ==
  LET t == slot[(pos + 1) % Slots] IN
  /\ state' = "DATA"
  /\ pos' = pos + 1
  /\ sum' = U(sum - (t + PPM_MIN_TIME))
  /\ pin' = FALSE
  /\ timer_oneshot(t + PPM_MIN_TIME, "assert")

ppm_data ==
  /\ state' = "DATA"
  /\ pos' = pos + 1
  /\ sum' = U(sum - (slot[pos] + PPM_MIN_TIME))
  /\ pin' = FALSE
  /\ timer_oneshot(slot[pos] + PPM_MIN_TIME, "assert")

ppm_last == ppm_startTransfer(sum, "assert")

ppm_endPause(onError) == timer_oneshot(sum, onError)

\* (mutant) the else is missing: the rest is armed although the task waits
pause_armsToo ==
  LET wait == sum \div TickTime
      rest == U(sum - wait * TickTime) IN
  /\ waittime' = wait
  /\ sum' = rest
  /\ sem' = (wait > 0)
  /\ armed' = rest
  /\ state' = "PAUSE" /\ pin' = FALSE /\ clock' = clock + armed
  /\ UNCHANGED <<pos, fault, frame>>

\* (mutant) the ticks the task waits for stay in sum
pause_keepsSum ==
  LET wait == sum \div TickTime IN
  /\ waittime' = wait
  /\ sem' = TRUE
  /\ armed' = 0
  /\ state' = "PAUSE" /\ pin' = FALSE /\ clock' = clock + armed
  /\ UNCHANGED <<pos, sum, fault, frame>>

\* (mutant) the semaphore is not given for a short wait
pause_noGive ==
  LET wait == sum \div TickTime IN
  /\ waittime' = wait
  /\ sum' = U(sum - wait * TickTime)
  /\ sem' = (wait > 2)
  /\ armed' = 0
  /\ state' = "PAUSE" /\ pin' = FALSE /\ clock' = clock + armed
  /\ UNCHANGED <<pos, fault, frame>>

\* The pause after the last pulse: whole ticks are the task's to wait for, a
\* shorter pause the timer's; with no time left the next frame starts at once.
\* The results of ppm_endPause and ppm_start are not looked at.
ppm_pause ==
  LET wait == sum \div TickTime
      now  == clock + armed IN
  /\ waittime' = wait
  /\ IF wait > 0
       THEN /\ sum' = U(sum - wait * TickTime)
            /\ sem' = TRUE
            /\ armed' = 0
            /\ state' = "PAUSE" /\ pin' = FALSE /\ clock' = now
            /\ UNCHANGED <<pos, fault, frame>>
       ELSE IF sum > 0
         THEN /\ ppm_endPause("ignored")
              /\ state' = "PAUSE" /\ pin' = FALSE /\ clock' = now
              /\ UNCHANGED <<pos, sum, sem, frame>>
         ELSE /\ ppm_start(now, "ignored")
              /\ UNCHANGED sem

-----------------------------------------------------------------------------
(* main: ppm_start(ppm), before the scheduler runs (test.c). *)

StartPpm ==
  /\ state = "STOPED"
  /\ ppm_start(frame, "ignored")
  /\ UNCHANGED <<slot, waittime, sem, task>>

-----------------------------------------------------------------------------
(* timerHandler: the timer expires. *)

Expires(s) == fault # "assert" /\ armed > 0 /\ state = s

OnStart ==
  /\ Expires("START")
  /\ ppm_data
  /\ clock' = clock + armed
  /\ UNCHANGED <<slot, waittime, sem, task, frame>>

\* (mutant) off by one: a slot more than there is
data_pastTheEnd ==
  /\ Expires("DATA")
  /\ IF pos <= Slots
       THEN state' = "START" /\ ppm_startTransfer(sum, "assert")
       ELSE state' = "LAST" /\ ppm_last
  /\ clock' = clock + armed
  /\ UNCHANGED <<slot, pos, waittime, sem, task, frame>>

OnData ==
  /\ Expires("DATA")
  /\ IF pos < Slots
       THEN state' = "START" /\ ppm_startTransfer(sum, "assert")
       ELSE state' = "LAST" /\ ppm_last
  /\ clock' = clock + armed
  /\ UNCHANGED <<slot, pos, waittime, sem, task, frame>>

OnLast ==
  /\ Expires("LAST")
  /\ ppm_pause
  /\ UNCHANGED <<slot, task>>

OnPause ==
  /\ Expires("PAUSE")
  /\ ppm_start(clock + armed, "assert")
  /\ UNCHANGED <<slot, waittime, sem, task>>

timerHandler == OnStart \/ OnData \/ OnLast \/ OnPause

-----------------------------------------------------------------------------
(* ppm_task *)

\* Past the semaphore, into vTaskDelayUntil.
TaskTake ==
  /\ fault # "assert" /\ task = "take" /\ sem
  /\ sem' = FALSE
  /\ task' = IF state # "STOPED" THEN "delay" ELSE "take"
  /\ UNCHANGED <<slot, state, pos, sum, waittime, pin, armed, fault, clock,
                 frame>>

\* The delay ends.  ppm_start's writes up to its timer_oneshot: the timer is
\* not armed, so nothing can come between them.
TaskWake ==
  /\ fault # "assert" /\ task = "delay"
  /\ \E jitter \in WakeJitter :
       LET now == clock + waittime * TickTime + jitter IN
       IF sum < TickTime
         THEN /\ state' = "START"
              /\ pos' = 0
              /\ pin' = TRUE
              /\ sum' = U(FrameTime - PPM_MIN_TIME)
              /\ task' = "arm"
              /\ clock' = 0
              /\ frame' = now
              /\ UNCHANGED <<armed, fault>>
         ELSE /\ ppm_endPause("ignored")
              /\ task' = "take"
              /\ clock' = now
              /\ UNCHANGED <<state, pos, pin, sum, frame>>
  /\ UNCHANGED <<slot, waittime, sem>>

\* The timer_oneshot at the end of the task's ppm_start; an error is dropped.
TaskArm ==
  /\ fault # "assert" /\ task = "arm"
  /\ timer_oneshot(PPM_MIN_TIME, "ignored")
  /\ task' = "take"
  /\ UNCHANGED <<slot, state, pos, sum, waittime, pin, sem, clock, frame>>

ppm_task == TaskTake \/ TaskWake \/ TaskArm

-----------------------------------------------------------------------------
Next == StartPpm \/ timerHandler \/ ppm_task

Spec == Init /\ [][Next]_vars

\* main starts the generator, an armed timer expires, and ppm_task is scheduled:
\* it has priority 3, and the tasks above it block or end (speedtest, TPS init).
Fairness == WF_vars(StartPpm) /\ WF_vars(timerHandler) /\ WF_vars(ppm_task)

FairSpec == Spec /\ Fairness

-----------------------------------------------------------------------------
(* Properties *)

One(b) == IF b THEN 1 ELSE 0

Drivers == One(armed > 0) + One(sem) + One(task # "take")

\* A frame is moved on by the timer, by the semaphore the interrupt gave, or
\* by ppm_task past that semaphore: never by two of them, which would race on
\* sum, pos and the pin, and never by none unless arming the timer failed.
OneDriver ==
  /\ Drivers <= 1
  /\ (state # "STOPED" /\ fault = "none") => Drivers = 1

\* The three places that charge time to ppm->sum and the two that spend it
\* (timer and task) agree: what has passed, what is under way and what is left
\* always make up the frame.  sum never wraps below zero.
SumAccountsForFrame ==
  fault = "none" =>
    /\ (state \in {"START", "DATA", "LAST"} /\ task # "arm") =>
         clock + armed + sum = FrameTime
    /\ task = "arm" =>
         state = "START" /\ sum = FrameTime - PPM_MIN_TIME /\ clock = 0
    /\ (state = "PAUSE" /\ armed > 0) =>
         clock + sum = FrameTime /\ armed = sum
    /\ (state = "PAUSE" /\ armed = 0) =>
         clock + waittime * TickTime + sum = FrameTime

\* CONFIG_ASSERT(ppm->pos < ppm->slots) in ppm_data holds whenever the timer
\* gets there, so slot[] is never read past its end.
DataInRange == (state = "START" /\ armed > 0) => pos < Slots

\* ppm_pause leaves less than a tick in sum, so ppm_task always starts the next
\* frame at once: its own ppm_endPause, which would wait for the rest, is dead
\* code, and a frame with a pause of a tick or more is short by that rest.
TaskAlwaysRestarts == task = "delay" => sum < TickTime

\* Where the frame stands, as edges of the signal.
EdgeOf ==
  CASE state = "STOPED" -> 0
    [] state = "START"  -> 2 * pos + 1
    [] state = "DATA"   -> 2 * pos
    [] state = "LAST"   -> 2 * Slots + 1
    [] state = "PAUSE"  -> 2 * Slots + 2

Signal ==
  INSTANCE PpmSignal WITH level <- pin, edge <- EdgeOf, Pulse <- PPM_MIN_TIME,
                          Early <- 2 * (TickTime - 1), Late <- MaxLate

\* The pin carries the signal PpmSignal describes: the pulses are of equal
\* width, pause k is the value of slot k, and a frame is at most MaxLate too
\* long and less than two ticks too short.
SignalOnPin == Signal!Spec

\* While the timer can be armed, frames never stop: the handover of the pause
\* from the interrupt to the task and back loses no wake-up.
FramesRecur == []<>(state = "START" /\ pos = 0) \/ <>(fault # "none")
-----------------------------------------------------------------------------
(* The inductive invariant the proofs of PpmProofs rest on. *)

\* What is left covers the slots still to come, however long they are.
RoomForSlots ==
  fault = "none" =>
    /\ state = "START" => pos < Slots /\ sum >= 2000 * (Slots - pos)
    /\ state = "DATA" => pos >= 1 /\ sum >= 2000 * (Slots - pos) + PPM_MIN_TIME
    /\ state = "LAST" => pos = Slots
    /\ sum <= FrameTime

\* The timer is armed with the width of the level now on the pin.
ArmedForLevel ==
  /\ (state \in {"START", "LAST"} /\ armed > 0) => armed = PPM_MIN_TIME
  /\ (state = "DATA" /\ armed > 0) => armed = slot[pos - 1] + PPM_MIN_TIME
  /\ pin <=> state \in {"START", "LAST"}

\* The task's share of the pause.
Handover ==
  /\ (sem \/ task = "delay") =>
        state = "PAUSE" /\ armed = 0 /\ sum < TickTime /\ waittime > 0
  /\ task = "arm" => state = "START" /\ pos = 0
  /\ state = "STOPED" => Drivers = 0 /\ fault = "none"
  /\ fault # "none" => Drivers = 0

IInv ==
  /\ TypeOK
  /\ OneDriver
  /\ SumAccountsForFrame
  /\ RoomForSlots
  /\ ArmedForLevel
  /\ Handover
=============================================================================
