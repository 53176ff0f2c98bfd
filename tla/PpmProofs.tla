----------------------------- MODULE PpmProofs -----------------------------
(***************************************************************************)
(* Proofs about Ppm, for every number of slots, every table of slot times, *)
(* every wake-up jitter and with or without failing timers.                *)
(***************************************************************************)
EXTENDS Ppm, TLAPS

\* uint32_t arithmetic is exact while nothing wraps.
LEMMA NoWrap ==
  ASSUME NEW n \in Int, 0 <= n, n < Modulus
  PROVE  U(n) = n
BY PpmAssumption DEF U

\* A frame of Slots slots in plain arithmetic.
LEMMA FrameTimeIs ==
  /\ FrameTime = 2000 * Slots + 500
  /\ FrameTime \in Nat
  /\ FrameTime < Modulus
BY PpmAssumption DEF FrameTime, PPM_MAX_TIME, PPM_MIN_TIME

\* The times in the table.
LEMMA SlotRange ==
  ASSUME TypeOK, NEW i \in 0 .. Slots - 1
  PROVE  slot[i] \in Int /\ 0 <= slot[i] /\ slot[i] <= 1000
<1>1. slot[i] \in 0 .. PPM_MAX_TIME - PPM_MIN_TIME
  BY DEF TypeOK
<1>2. PPM_MAX_TIME - PPM_MIN_TIME = 1000
  BY DEF PPM_MAX_TIME, PPM_MIN_TIME
<1> QED
  BY <1>1, <1>2

LEMMA InitIInv == Init => IInv
<1> SUFFICES ASSUME Init PROVE IInv
  OBVIOUS
<1>1. TypeOK
  <2>1. slot \in [0 .. Slots - 1 -> 0 .. PPM_MAX_TIME - PPM_MIN_TIME]
    BY PpmAssumption DEF Init
  <2>2. pos \in 0 .. Slots /\ sum \in 0 .. Modulus - 1
    BY FrameTimeIs, PpmAssumption DEF Init
  <2> QED
    BY <2>1, <2>2 DEF Init, TypeOK, States
<1>2. OneDriver /\ Handover
  BY DEF Init, OneDriver, Handover, Drivers, One
<1>3. SumAccountsForFrame /\ ArmedForLevel
  BY DEF Init, SumAccountsForFrame, ArmedForLevel
<1>4. RoomForSlots
  BY FrameTimeIs DEF Init, RoomForSlots
<1> QED
  BY <1>1, <1>2, <1>3, <1>4 DEF IInv

-----------------------------------------------------------------------------
(* One lemma per action. *)

\* What each outcome of timer_oneshot leaves behind.
LEMMA Oneshot ==
  ASSUME NEW t, NEW e, timer_oneshot(t, e)
  PROVE  \/ armed' = t /\ fault' = fault
         \/ armed' = 0 /\ fault' = e
BY DEF timer_oneshot

LEMMA StartPpmIInv == IInv /\ StartPpm => IInv'
<1> SUFFICES ASSUME IInv, StartPpm PROVE IInv'
  OBVIOUS
<1> USE DEF IInv, PPM_MIN_TIME
<1>1. U(FrameTime - 500) = FrameTime - 500
  BY FrameTimeIs, NoWrap, PpmAssumption
<1>2. /\ state = "STOPED" /\ state' = "START" /\ pos' = 0 /\ pin' = TRUE
      /\ sum' = FrameTime - 500 /\ clock' = 0 /\ frame' = frame
      /\ UNCHANGED <<slot, waittime, sem, task>>
      /\ \/ armed' = 500 /\ fault' = fault
         \/ armed' = 0 /\ fault' = "ignored"
  BY <1>1, Oneshot DEF StartPpm, ppm_start, ppm_startTransfer
<1>3. Drivers = 0 /\ fault = "none" /\ armed = 0 /\ ~sem /\ task = "take"
  BY <1>2 DEF Handover, Drivers, One, TypeOK
<1>4. TypeOK'
  BY <1>2, <1>3, FrameTimeIs, PpmAssumption DEF TypeOK, States
<1>5. OneDriver' /\ Handover'
  BY <1>2, <1>3 DEF OneDriver, Handover, Drivers, One
<1>6. SumAccountsForFrame' /\ RoomForSlots'
  BY <1>2, <1>3, FrameTimeIs, PpmAssumption DEF SumAccountsForFrame, RoomForSlots
<1>7. ArmedForLevel'
  BY <1>2 DEF ArmedForLevel
<1> QED
  BY <1>4, <1>5, <1>6, <1>7

\* While the timer is armed the task waits at an empty semaphore.
LEMMA TimerDrives ==
  ASSUME IInv, NEW s, Expires(s)
  PROVE  /\ state = s /\ armed > 0 /\ s # "STOPED" /\ fault = "none"
         /\ ~sem /\ task = "take"
BY DEF IInv, TypeOK, Expires, OneDriver, Handover, Drivers, One

LEMMA OnStartIInv == IInv /\ OnStart => IInv'
<1> SUFFICES ASSUME IInv, OnStart PROVE IInv'
  OBVIOUS
<1> DEFINE t == slot[pos] + 500
<1> USE DEF IInv, PPM_MIN_TIME
<1>1. /\ state = "START" /\ armed > 0 /\ fault = "none" /\ ~sem /\ task = "take"
      /\ armed = 500
  BY TimerDrives DEF OnStart, ArmedForLevel, Expires
<1>2. pos \in 0 .. Slots - 1 /\ sum >= 2000 * (Slots - pos) /\ sum <= FrameTime
  BY <1>1, PpmAssumption DEF RoomForSlots, TypeOK
<1>3. t \in Int /\ 500 <= t /\ t <= 1500
  BY <1>2, SlotRange
<1>4. U(sum - t) = sum - t
  <2> HIDE DEF t
  <2>1. sum - t \in Int /\ 0 <= sum - t /\ sum - t < Modulus
    BY <1>2, <1>3, FrameTimeIs, PpmAssumption DEF TypeOK
  <2> QED
    BY <2>1, NoWrap
<1>5. /\ state' = "DATA" /\ pos' = pos + 1 /\ sum' = sum - t /\ pin' = FALSE
      /\ clock' = clock + armed
      /\ UNCHANGED <<slot, waittime, sem, task, frame>>
      /\ \/ armed' = t /\ fault' = fault
         \/ armed' = 0 /\ fault' = "assert"
  BY <1>4, Oneshot DEF OnStart, ppm_data
<1> HIDE DEF t
<1>7. TypeOK'
  <2>1. pos' \in 0 .. Slots /\ sum' \in 0 .. Modulus - 1
    BY <1>2, <1>5, <1>3, FrameTimeIs, PpmAssumption DEF TypeOK
  <2>2. armed' \in Nat /\ clock' \in Nat
    BY <1>3, <1>5 DEF TypeOK
  <2> QED
    BY <1>5, <1>1, <2>1, <2>2 DEF TypeOK, States
<1>8. OneDriver' /\ Handover'
  BY <1>1, <1>3, <1>5 DEF OneDriver, Handover, Drivers, One
<1>9. SumAccountsForFrame'
  BY <1>1, <1>2, <1>5, <1>3, FrameTimeIs, PpmAssumption
  DEF SumAccountsForFrame, TypeOK
<1>10. RoomForSlots'
  BY <1>1, <1>2, <1>5, <1>3, FrameTimeIs, PpmAssumption
  DEF RoomForSlots, TypeOK
<1>11. ArmedForLevel'
  <2>1. slot'[pos' - 1] = slot[pos]
    BY <1>2, <1>5, PpmAssumption
  <2> QED
    BY <1>5, <2>1 DEF ArmedForLevel, t
<1> QED
  BY <1>7, <1>8, <1>9, <1>10, <1>11

LEMMA OnDataIInv == IInv /\ OnData => IInv'
<1> SUFFICES ASSUME IInv, OnData PROVE IInv'
  OBVIOUS
<1> USE DEF IInv, PPM_MIN_TIME
<1>1. state = "DATA" /\ armed > 0 /\ fault = "none" /\ ~sem /\ task = "take"
  BY TimerDrives DEF OnData
<1>2. /\ pos \in 0 .. Slots /\ sum <= FrameTime
      /\ sum >= 2000 * (Slots - pos) + 500 /\ sum >= 500
  BY <1>1, PpmAssumption DEF RoomForSlots, TypeOK
<1>3. U(sum - 500) = sum - 500
  <2>1. sum - 500 \in Int /\ 0 <= sum - 500 /\ sum - 500 < Modulus
    BY <1>2, FrameTimeIs, PpmAssumption DEF TypeOK
  <2> QED
    BY <2>1, NoWrap
<1>4. /\ IF pos < Slots THEN state' = "START" ELSE state' = "LAST"
      /\ sum' = sum - 500 /\ pin' = TRUE /\ clock' = clock + armed
      /\ UNCHANGED <<slot, pos, waittime, sem, task, frame>>
      /\ \/ armed' = 500 /\ fault' = fault
         \/ armed' = 0 /\ fault' = "assert"
  BY <1>3, Oneshot DEF OnData, ppm_startTransfer, ppm_last
<1>5. TypeOK'
  <2>1. sum' \in 0 .. Modulus - 1 /\ clock' \in Nat
    BY <1>2, <1>4, FrameTimeIs, PpmAssumption DEF TypeOK
  <2> QED
    BY <1>4, <1>1, <2>1 DEF TypeOK, States
<1>6. OneDriver' /\ Handover'
  BY <1>1, <1>4 DEF OneDriver, Handover, Drivers, One
<1>7. SumAccountsForFrame'
  BY <1>1, <1>2, <1>4, FrameTimeIs DEF SumAccountsForFrame, TypeOK
<1>8. RoomForSlots'
  BY <1>1, <1>2, <1>4, FrameTimeIs, PpmAssumption DEF RoomForSlots, TypeOK
<1>9. ArmedForLevel'
  BY <1>4 DEF ArmedForLevel
<1> QED
  BY <1>5, <1>6, <1>7, <1>8, <1>9

\* The frame that begins with ppm_start, wherever it is called.
LEMMA NewFrame ==
  ASSUME NEW past, NEW e, ppm_start(past, e)
  PROVE  /\ state' = "START" /\ pos' = 0 /\ pin' = TRUE
         /\ sum' = FrameTime - 500 /\ clock' = 0 /\ frame' = past
         /\ \/ armed' = 500 /\ fault' = fault
            \/ armed' = 0 /\ fault' = e
<1>1. U(FrameTime - 500) = FrameTime - 500
  BY FrameTimeIs, NoWrap, PpmAssumption
<1> QED
  BY <1>1, Oneshot DEF ppm_start, ppm_startTransfer, PPM_MIN_TIME

\* Starting a frame while nothing but an expired timer drives it.
LEMMA NewFrameIInv ==
  ASSUME IInv, NEW past \in Nat, NEW e \in {"ignored", "assert"},
         ppm_start(past, e), fault = "none", ~sem, task = "take",
         UNCHANGED <<slot, sem, task>>, waittime' \in Nat
  PROVE  IInv'
<1> USE DEF IInv, PPM_MIN_TIME
<1>0. /\ state' = "START" /\ pos' = 0 /\ pin' = TRUE
      /\ sum' = FrameTime - 500 /\ clock' = 0 /\ frame' = past
      /\ \/ armed' = 500 /\ fault' = fault
         \/ armed' = 0 /\ fault' = e
  BY NewFrame, Zenon
<1>1. TypeOK'
  <2>1. sum' \in 0 .. Modulus - 1
    BY <1>0, FrameTimeIs, PpmAssumption
  <2>2. pos' \in 0 .. Slots /\ armed' \in Nat
    BY <1>0, PpmAssumption
  <2> QED
    BY <1>0, <2>1, <2>2 DEF TypeOK, States
<1>2. OneDriver' /\ Handover'
  BY <1>0 DEF OneDriver, Handover, Drivers, One
<1>3. SumAccountsForFrame' /\ RoomForSlots'
  BY <1>0, FrameTimeIs, PpmAssumption DEF SumAccountsForFrame, RoomForSlots
<1>4. ArmedForLevel'
  BY <1>0 DEF ArmedForLevel
<1> QED
  BY <1>1, <1>2, <1>3, <1>4

LEMMA OnPauseIInv == IInv /\ OnPause => IInv'
<1> SUFFICES ASSUME IInv, OnPause PROVE IInv'
  OBVIOUS
<1>1. /\ fault = "none" /\ ~sem /\ task = "take"
      /\ clock + armed \in Nat /\ waittime' \in Nat
  BY TimerDrives DEF OnPause, IInv, TypeOK
<1> QED
  BY <1>1, NewFrameIInv DEF OnPause

LEMMA Ticks ==
  ASSUME NEW n \in Nat
  PROVE  /\ n \div TickTime \in Nat
         /\ n - (n \div TickTime) * TickTime \in 0 .. TickTime - 1
BY DEF TickTime

LEMMA OnLastIInv == IInv /\ OnLast => IInv'
<1> SUFFICES ASSUME IInv, OnLast PROVE IInv'
  OBVIOUS
<1> DEFINE wait == sum \div TickTime
<1> DEFINE rest == sum - wait * TickTime
<1> USE DEF IInv, PPM_MIN_TIME
<1>1. /\ state = "LAST" /\ armed > 0 /\ fault = "none" /\ ~sem /\ task = "take"
      /\ pos = Slots /\ sum <= FrameTime /\ sum \in Nat /\ clock \in Nat
      /\ armed \in Nat /\ clock + armed + sum = FrameTime
  BY TimerDrives DEF OnLast, RoomForSlots, SumAccountsForFrame, TypeOK
<1>2. ppm_pause /\ UNCHANGED <<slot, task>>
  BY DEF OnLast
<1>3. wait \in Nat /\ rest \in 0 .. TickTime - 1
  BY <1>1, Ticks
<1>4. CASE wait > 0
  <2>1. U(rest) = rest
    <3> HIDE DEF wait, rest
    <3>1. rest \in Int /\ 0 <= rest /\ rest < Modulus
      BY <1>3, FrameTimeIs, PpmAssumption DEF TickTime
    <3> QED
      BY <3>1, NoWrap
  <2>2. /\ waittime' = wait /\ sum' = rest /\ sem' = TRUE /\ armed' = 0
        /\ state' = "PAUSE" /\ pin' = FALSE /\ clock' = clock + armed
        /\ UNCHANGED <<slot, task, pos, fault, frame>>
    BY <1>2, <1>4, <2>1 DEF ppm_pause
  <2>r. wait * TickTime + rest = sum
    BY <1>1, <1>3 DEF TickTime
  <2> HIDE DEF wait, rest
  <2>3. TypeOK'
    <3>1. rest \in 0 .. 999 /\ FrameTime \in Nat /\ 999 < FrameTime
      BY <1>3, FrameTimeIs, PpmAssumption DEF TickTime
    <3>2. sum' \in 0 .. Modulus - 1
      BY <2>2, <3>1, PpmAssumption
    <3>3. clock' \in Nat
      BY <1>1, <2>2
    <3> QED
      BY <1>3, <2>2, <3>2, <3>3 DEF TypeOK, States
  <2>4. OneDriver' /\ Handover'
    BY <1>1, <1>3, <1>4, <2>2 DEF OneDriver, Handover, Drivers, One, TickTime
  <2>5. SumAccountsForFrame'
    BY <1>1, <1>3, <2>2, <2>r DEF SumAccountsForFrame, TickTime
  <2>6. RoomForSlots' /\ ArmedForLevel'
    BY <1>1, <1>3, <2>2, FrameTimeIs, PpmAssumption
    DEF RoomForSlots, ArmedForLevel, TickTime
  <2> QED
    BY <2>3, <2>4, <2>5, <2>6
<1>5. CASE wait = 0 /\ sum > 0
  <2>1. /\ waittime' = 0 /\ state' = "PAUSE" /\ pin' = FALSE
        /\ clock' = clock + armed
        /\ UNCHANGED <<slot, task, pos, sum, sem, frame>>
        /\ \/ armed' = sum /\ fault' = fault
           \/ armed' = 0 /\ fault' = "ignored"
    BY <1>2, <1>5, Oneshot DEF ppm_pause, ppm_endPause
  <2> HIDE DEF wait, rest
  <2>2. TypeOK'
    <3>1. armed' \in Nat /\ clock' \in Nat
      BY <1>1, <2>1
    <3>2. fault' \in {"none", "ignored", "assert"}
      BY <2>1 DEF TypeOK
    <3> QED
      BY <2>1, <3>1, <3>2 DEF TypeOK, States
  <2>3. OneDriver' /\ Handover'
    BY <1>1, <1>5, <2>1 DEF OneDriver, Handover, Drivers, One
  <2>4. SumAccountsForFrame'
    BY <1>1, <1>5, <2>1 DEF SumAccountsForFrame
  <2>5. RoomForSlots' /\ ArmedForLevel'
    BY <1>1, <2>1 DEF RoomForSlots, ArmedForLevel
  <2> QED
    BY <2>2, <2>3, <2>4, <2>5
<1>6. CASE wait = 0 /\ sum = 0
  <2>1. /\ ppm_start(clock + armed, "ignored") /\ clock + armed \in Nat
        /\ waittime' \in Nat /\ UNCHANGED <<slot, sem, task>>
    BY <1>1, <1>2, <1>6 DEF ppm_pause
  <2> QED
    BY <1>1, <2>1, NewFrameIInv
<1> QED
  BY <1>1, <1>3, <1>4, <1>5, <1>6

LEMMA TaskTakeIInv == IInv /\ TaskTake => IInv'
<1> SUFFICES ASSUME IInv, TaskTake PROVE IInv'
  OBVIOUS
<1> USE DEF IInv
<1>1. /\ sem /\ task = "take" /\ state = "PAUSE" /\ armed = 0
      /\ sum < TickTime /\ waittime > 0
  BY DEF TaskTake, Handover
<1>2. /\ sem' = FALSE /\ task' = "delay"
      /\ UNCHANGED <<slot, state, pos, sum, waittime, pin, armed, fault, clock,
                     frame>>
  BY <1>1 DEF TaskTake
<1>3. TypeOK'
  BY <1>2 DEF TypeOK
<1>4. OneDriver' /\ Handover'
  BY <1>1, <1>2 DEF OneDriver, Handover, Drivers, One, TypeOK
<1>5. SumAccountsForFrame' /\ RoomForSlots' /\ ArmedForLevel'
  BY <1>1, <1>2 DEF SumAccountsForFrame, RoomForSlots, ArmedForLevel
<1> QED
  BY <1>3, <1>4, <1>5

\* A task past its semaphore is the only one to drive the frame.
LEMMA TaskDrives ==
  ASSUME IInv, task # "take"
  PROVE  armed = 0 /\ ~sem /\ fault # "ignored" /\ state # "STOPED"
BY DEF IInv, TypeOK, OneDriver, Handover, Drivers, One

LEMMA TaskWakeIInv == IInv /\ TaskWake => IInv'
<1> SUFFICES ASSUME IInv, TaskWake PROVE IInv'
  OBVIOUS
<1> USE DEF IInv, PPM_MIN_TIME
<1>1. /\ task = "delay" /\ fault = "none" /\ armed = 0 /\ ~sem
      /\ sum < TickTime /\ waittime > 0 /\ waittime \in Nat /\ clock \in Nat
  BY TaskDrives DEF TaskWake, Handover, TypeOK
<1>2. PICK jitter \in WakeJitter :
        /\ state' = "START" /\ pos' = 0 /\ pin' = TRUE
        /\ sum' = U(FrameTime - 500)
        /\ task' = "arm" /\ clock' = 0
        /\ frame' = clock + waittime * TickTime + jitter
        /\ UNCHANGED <<armed, fault, slot, waittime, sem>>
  BY <1>1 DEF TaskWake
<1>3. sum' = FrameTime - 500
  BY <1>2, FrameTimeIs, NoWrap, PpmAssumption
<1>4. TypeOK'
  <2>1. jitter \in Int /\ jitter > -1000
    BY PpmAssumption DEF TickTime
  <2>2. frame' \in Nat
    BY <1>1, <1>2, <2>1 DEF TickTime
  <2>3. sum' \in 0 .. Modulus - 1 /\ pos' \in 0 .. Slots
    BY <1>2, <1>3, FrameTimeIs, PpmAssumption
  <2> QED
    BY <1>2, <2>2, <2>3 DEF TypeOK, States
<1>5. OneDriver' /\ Handover'
  BY <1>1, <1>2 DEF OneDriver, Handover, Drivers, One
<1>6. SumAccountsForFrame' /\ RoomForSlots' /\ ArmedForLevel'
  BY <1>1, <1>2, <1>3, FrameTimeIs, PpmAssumption
  DEF SumAccountsForFrame, RoomForSlots, ArmedForLevel
<1> QED
  BY <1>4, <1>5, <1>6

LEMMA TaskArmIInv == IInv /\ TaskArm => IInv'
<1> SUFFICES ASSUME IInv, TaskArm PROVE IInv'
  OBVIOUS
<1> USE DEF IInv, PPM_MIN_TIME
<1>1. /\ task = "arm" /\ fault = "none" /\ armed = 0 /\ ~sem
      /\ state = "START" /\ pos = 0 /\ sum = FrameTime - 500 /\ clock = 0
  BY TaskDrives DEF TaskArm, Handover, TypeOK, SumAccountsForFrame
<1>2. /\ task' = "take"
      /\ UNCHANGED <<slot, state, pos, sum, waittime, pin, sem, clock, frame>>
      /\ \/ armed' = 500 /\ fault' = fault
         \/ armed' = 0 /\ fault' = "ignored"
  BY Oneshot DEF TaskArm
<1>3. TypeOK'
  BY <1>2 DEF TypeOK
<1>4. OneDriver' /\ Handover'
  BY <1>1, <1>2 DEF OneDriver, Handover, Drivers, One
<1>5. SumAccountsForFrame'
  BY <1>1, <1>2, FrameTimeIs DEF SumAccountsForFrame
<1>6. RoomForSlots' /\ ArmedForLevel'
  BY <1>1, <1>2 DEF RoomForSlots, ArmedForLevel
<1> QED
  BY <1>3, <1>4, <1>5, <1>6

-----------------------------------------------------------------------------
(* The theorems *)

LEMMA StepIInv == IInv /\ [Next]_vars => IInv'
<1> SUFFICES ASSUME IInv, [Next]_vars PROVE IInv'
  OBVIOUS
<1>1. CASE StartPpm
  BY <1>1, StartPpmIInv
<1>2. CASE timerHandler
  BY <1>2, OnStartIInv, OnDataIInv, OnLastIInv, OnPauseIInv DEF timerHandler
<1>3. CASE ppm_task
  BY <1>3, TaskTakeIInv, TaskWakeIInv, TaskArmIInv DEF ppm_task
<1>4. CASE UNCHANGED vars
  BY <1>4 DEF vars, IInv, TypeOK, OneDriver, Drivers, One, SumAccountsForFrame,
              RoomForSlots, ArmedForLevel, Handover
<1> QED
  BY <1>1, <1>2, <1>3, <1>4 DEF Next

\* Every field of struct ppm keeps its type and its range, with or without
\* failing timers.
THEOREM TypeCorrect == Spec => []TypeOK
<1>1. IInv => TypeOK
  BY DEF IInv
<1> QED
  BY InitIInv, StepIInv, <1>1, PTL DEF Spec

\* The inductive invariant holds.
THEOREM Inductive == Spec => []IInv
BY InitIInv, StepIInv, PTL DEF Spec

\* Timer, semaphore and ppm_task never drive the frame at the same time, and
\* one of them does unless arming the timer failed.
THEOREM ExactlyOneDriver == Spec => []OneDriver
<1>1. IInv => OneDriver
  BY DEF IInv
<1> QED
  BY Inductive, <1>1, PTL

\* The time in ppm->sum is exactly what is left of the frame.
THEOREM FrameBudget == Spec => []SumAccountsForFrame
<1>1. IInv => SumAccountsForFrame
  BY DEF IInv
<1> QED
  BY Inductive, <1>1, PTL

\* The assertion of ppm_data on pos never fails.
THEOREM AssertHolds == Spec => []DataInRange
<1>1. IInv => DataInRange
  BY DEF IInv, DataInRange, RoomForSlots, TypeOK, OneDriver, Handover, Drivers, One
<1> QED
  BY Inductive, <1>1, PTL

\* ppm_task never reaches its ppm_endPause.
THEOREM EndPauseIsDead == Spec => []TaskAlwaysRestarts
<1>1. IInv => TaskAlwaysRestarts
  BY DEF IInv, TaskAlwaysRestarts, Handover
<1> QED
  BY Inductive, <1>1, PTL

-----------------------------------------------------------------------------
(* Ppm implements PpmSignal. *)

LEMMA SignalInit == Init => Signal!Init
<1> SUFFICES ASSUME Init PROVE Signal!Init
  OBVIOUS
<1>1. slot \in [0 .. Slots - 1 -> Nat]
  <2>1. slot \in [0 .. Slots - 1 -> 0 .. PPM_MAX_TIME - PPM_MIN_TIME]
    BY PpmAssumption DEF Init
  <2> QED
    BY <2>1
<1> QED
  BY <1>1 DEF Init, Signal!Init, EdgeOf

LEMMA SignalStep == IInv /\ IInv' /\ [Next]_vars => [Signal!Next]_Signal!vars
<1> SUFFICES ASSUME IInv, IInv', [Next]_vars PROVE [Signal!Next]_Signal!vars
  OBVIOUS
<1> USE DEF PPM_MIN_TIME
<1>t. /\ TypeOK /\ TypeOK' /\ Slots \in Nat /\ Slots >= 3
      /\ clock \in Nat /\ armed \in Nat /\ sum \in Nat /\ pos \in 0 .. Slots
      /\ waittime \in Nat
  BY PpmAssumption DEF IInv, TypeOK
<1>1. CASE StartPpm
  <2>1. /\ state = "STOPED" /\ state' = "START" /\ pos' = 0 /\ pin' = TRUE
        /\ clock' = 0 /\ UNCHANGED <<slot, frame>>
    BY <1>1 DEF StartPpm, ppm_start, ppm_startTransfer
  <2>2. EdgeOf = 0 /\ EdgeOf' = 1
    BY <2>1 DEF EdgeOf
  <2> QED
    BY <2>1, <2>2 DEF Signal!Next, Signal!Begin
<1>2. CASE OnStart
  <2>1. /\ state = "START" /\ armed = 500 /\ pos < Slots
        /\ state' = "DATA" /\ pos' = pos + 1 /\ pin' = FALSE
        /\ clock' = clock + 500 /\ UNCHANGED <<slot, frame>>
    BY <1>2, TimerDrives
    DEF OnStart, ppm_data, IInv, ArmedForLevel, RoomForSlots
  <2>2. /\ EdgeOf = 2 * pos + 1 /\ EdgeOf' = EdgeOf + 1
        /\ EdgeOf < Signal!LastEdge /\ EdgeOf % 2 = 1
    BY <1>t, <2>1 DEF EdgeOf, Signal!LastEdge
  <2> QED
    BY <2>1, <2>2 DEF Signal!Next, Signal!Fall
<1>3. CASE OnData
  <2>1. /\ state = "DATA" /\ armed = slot[pos - 1] + 500 /\ pos >= 1
        /\ IF pos < Slots THEN state' = "START" ELSE state' = "LAST"
        /\ pin' = TRUE /\ clock' = clock + (slot[pos - 1] + 500)
        /\ UNCHANGED <<slot, pos, frame>>
    BY <1>3, TimerDrives
    DEF OnData, ppm_last, ppm_startTransfer, IInv, ArmedForLevel, RoomForSlots
  <2>2. /\ EdgeOf = 2 * pos /\ EdgeOf' = EdgeOf + 1
        /\ 0 < EdgeOf /\ EdgeOf < Signal!LastEdge /\ EdgeOf % 2 = 0
        /\ EdgeOf \div 2 - 1 = pos - 1
    BY <1>t, <2>1 DEF EdgeOf, Signal!LastEdge
  <2>3. clock' = clock + 500 + slot[EdgeOf \div 2 - 1]
    <3>1. slot[pos - 1] \in Int
      BY <1>t, <2>1, SlotRange
    <3> QED
      BY <1>t, <2>1, <2>2, <3>1
  <2> QED
    BY <2>1, <2>2, <2>3 DEF Signal!Next, Signal!Rise
<1>4. CASE OnLast
  <2>1. /\ state = "LAST" /\ armed = 500 /\ pos = Slots /\ ppm_pause
        /\ clock + armed + sum = FrameTime /\ slot' = slot
    BY <1>4, TimerDrives
    DEF OnLast, IInv, ArmedForLevel, RoomForSlots, SumAccountsForFrame
  <2>2. EdgeOf = Signal!LastEdge - 1 /\ EdgeOf % 2 = 1 /\ EdgeOf \in Int
    BY <1>t, <2>1 DEF EdgeOf, Signal!LastEdge
  <2>3. CASE sum \div TickTime > 0 \/ sum > 0
    <3>1. state' = "PAUSE" /\ pin' = FALSE /\ clock' = clock + 500 /\ frame' = frame
      BY <2>1, <2>3 DEF ppm_pause
    <3>2. EdgeOf' = EdgeOf + 1 /\ EdgeOf < Signal!LastEdge
      BY <1>t, <2>1, <3>1 DEF EdgeOf, Signal!LastEdge
    <3> QED
      BY <2>1, <2>2, <3>1, <3>2 DEF Signal!Next, Signal!Fall
  <2>4. CASE ~(sum \div TickTime > 0) /\ ~(sum > 0)
    <3>1. /\ state' = "START" /\ pos' = 0 /\ pin' = TRUE /\ clock' = 0
          /\ frame' = clock + armed
      BY <2>1, <2>4 DEF ppm_pause, ppm_start, ppm_startTransfer
    <3>2. EdgeOf' = 1
      BY <3>1 DEF EdgeOf
    <3>3. clock + 500 = FrameTime /\ frame' = FrameTime
      BY <1>t, <2>1, <2>4, <3>1
    <3> QED
      BY <2>1, <2>2, <3>1, <3>2, <3>3 DEF Signal!Next, Signal!Merge
  <2> QED
    BY <2>3, <2>4
<1>5. CASE OnPause
  <2>1. /\ state = "PAUSE" /\ armed > 0 /\ armed = sum /\ clock + sum = FrameTime
        /\ state' = "START" /\ pos' = 0 /\ pin' = TRUE /\ clock' = 0
        /\ frame' = clock + armed /\ slot' = slot
    BY <1>5, TimerDrives
    DEF OnPause, ppm_start, ppm_startTransfer, IInv, SumAccountsForFrame
  <2>2. EdgeOf = Signal!LastEdge /\ EdgeOf' = 1
    BY <1>t, <2>1 DEF EdgeOf, Signal!LastEdge
  <2>3. frame' = FrameTime /\ frame' >= clock /\ frame' \in Signal!FrameLengths
    BY <1>t, <2>1, FrameTimeIs, PpmAssumption DEF Signal!FrameLengths, TickTime
  <2> QED
    BY <2>1, <2>2, <2>3 DEF Signal!Next, Signal!Sync
<1>6. CASE TaskTake
  BY <1>6 DEF TaskTake, Signal!vars, EdgeOf
<1>7. CASE TaskWake
  <2>1. /\ task = "delay" /\ state = "PAUSE" /\ sum < TickTime /\ armed = 0
        /\ waittime > 0 /\ clock + waittime * TickTime + sum = FrameTime
    BY <1>7, TaskDrives DEF TaskWake, IInv, TypeOK, Handover, SumAccountsForFrame
  <2>2. PICK jitter \in WakeJitter :
          /\ state' = "START" /\ pos' = 0 /\ pin' = TRUE /\ clock' = 0
          /\ frame' = clock + waittime * TickTime + jitter /\ slot' = slot
    BY <1>7, <2>1 DEF TaskWake
  <2>3. jitter \in Int /\ -999 <= jitter /\ jitter <= MaxLate /\ MaxLate \in Nat
    BY PpmAssumption DEF TickTime
  <2>4. frame' \in Signal!FrameLengths /\ frame' >= clock
    BY <1>t, <2>1, <2>2, <2>3, FrameTimeIs DEF Signal!FrameLengths, TickTime
  <2>5. EdgeOf = Signal!LastEdge /\ EdgeOf' = 1
    BY <1>t, <2>1, <2>2 DEF EdgeOf, Signal!LastEdge
  <2> QED
    BY <2>2, <2>4, <2>5 DEF Signal!Next, Signal!Sync
<1>8. CASE TaskArm
  BY <1>8 DEF TaskArm, Signal!vars, EdgeOf
<1>9. CASE UNCHANGED vars
  BY <1>9 DEF vars, Signal!vars, EdgeOf
<1> QED
  BY <1>1, <1>2, <1>3, <1>4, <1>5, <1>6, <1>7, <1>8, <1>9
  DEF Next, timerHandler, ppm_task

\* The pin carries the signal a receiver decodes, for every table of slots and
\* every wake-up of the task within its jitter.
THEOREM ImplementsSignal == Spec => SignalOnPin
<1>1. Spec => Signal!Init /\ [][Signal!Next]_Signal!vars
  BY Inductive, SignalInit, SignalStep, PTL DEF Spec
<1> QED
  BY <1>1 DEF SignalOnPin, Signal!Spec
=============================================================================
