-------------------------- MODULE SpeedTestProofs --------------------------
(***************************************************************************)
(* The latency test, proved for every number of iterations and every length *)
(* of the timer daemon's queue.                                             *)
(***************************************************************************)
EXTENDS SpeedTest, TLAPS

\* Where the task is when the interrupt is off, and when the tests of an iteration are done.
Control ==
    /\ pc = "start" => ~pin
    /\ acutalTest = END => pc \in {"start", "halt"} /\ ~pin
    /\ pc = "suspended" => acutalTest = TASK_SUSPEND
    /\ stop # "interrupt"

\* The test t of this iteration has been measured.
Measured(t) == counterValue[t][1] = iteration + 1 /\ counterValue[t][2] = iteration + 1

\* Without an edge that follows another there is a token only while the task waits for it, one
\* at most, and the stamps of what is done are of this iteration.
Fresh ==
    /\ semaphore => acutalTest = SEMAPHORE
    /\ setBits > 0 \/ event => acutalTest = EVENT /\ ~(setBits > 0 /\ event) /\ setBits <= 1
    /\ notified => acutalTest = NOTIFICATION
    /\ semaphore \/ setBits > 0 \/ event \/ notified =>
          signalled /\ pc \in {"wait", "halt"} /\ counterValue[acutalTest][1] = iteration + 1
    /\ pc = "woken" => signalled /\ counterValue[acutalTest][1] = iteration + 1
    /\ pc = "woken" /\ acutalTest # TASK_SUSPEND => counterValue[acutalTest][2] = iteration + 1
    /\ pc \in {"wait", "suspended"} /\ acutalTest = TASK_SUSPEND => ~signalled
    /\ pc # "halt" => \A t \in Tests \ {SEMAPHORE} : t < acutalTest => Measured(t)

\* The waits of the test t that what is pending can still end.
Kept(t) ==
    CASE t = EVENT -> setBits + (IF event THEN 1 ELSE 0)
      [] t = NOTIFICATION -> IF notified THEN 1 ELSE 0
      [] OTHER -> 0

\* In this iteration the wait of the test t is still to end.
Due(t) == acutalTest < t \/ (acutalTest = t /\ pc \in {"start", "wait", "halt"})

\* A stamp of the interrupt is of this iteration, or as many iterations old as waits have been
\* ended without an edge since: with what is pending, no more than one test leaves over.
Old(t) ==
    /\ Due(t) => \/ counterValue[t][1] = iteration + 1
                \/ iteration - counterValue[t][1] + Kept(t) <= Leftover(t)
    /\ ~Due(t) => iteration + 1 - counterValue[t][1] + Kept(t) <= Leftover(t)

\* A resume does not wait, and the task's own stamps are of this iteration.
Own ==
    /\ (pc = "woken" /\ acutalTest = TASK_SUSPEND) \/ acutalTest = END =>
          counterValue[TASK_SUSPEND][1] = iteration + 1
    /\ pc = "woken" /\ acutalTest # TASK_SUSPEND => counterValue[acutalTest][2] = iteration + 1
    /\ \A t \in Tests \ {SEMAPHORE} : t < acutalTest => counterValue[t][2] = iteration + 1

Bounded == Old(EVENT) /\ Old(NOTIFICATION) /\ Own

SInv == TypeOK /\ Control /\ Bounded /\ (~late => Fresh)

-----------------------------------------------------------------------------
\* What one test leaves over is bounded, before a step and after it.
LEMMA KeptIs ==
    ASSUME TypeOK, NEW t \in {EVENT, NOTIFICATION}
    PROVE  Kept(t) \in Nat /\ Leftover(t) \in Nat /\ Kept(t) <= Leftover(t)
<1> USE DEF SEMAPHORE, EVENT, NOTIFICATION, TASK_SUSPEND, END
<1>1. setBits \in Nat /\ setBits <= QueueLength /\ QueueLength \in Nat
  BY SpeedTestAssumption DEF TypeOK
<1>2. CASE t = EVENT
  BY <1>1, <1>2 DEF Kept, Leftover
<1>3. CASE t = NOTIFICATION
  BY <1>3 DEF Kept, Leftover
<1> QED
  BY <1>2, <1>3

LEMMA KeptIsNext ==
    ASSUME TypeOK', NEW t \in {EVENT, NOTIFICATION}
    PROVE  Kept(t)' \in Nat /\ Leftover(t)' = Leftover(t) /\ Kept(t)' <= Leftover(t)
<1> USE DEF SEMAPHORE, EVENT, NOTIFICATION, TASK_SUSPEND, END
<1>1. setBits' \in Nat /\ setBits' <= QueueLength /\ QueueLength \in Nat
  BY SpeedTestAssumption DEF TypeOK
<1>2. CASE t = EVENT
  BY <1>1, <1>2 DEF Kept, Leftover
<1>3. CASE t = NOTIFICATION
  BY <1>3 DEF Kept, Leftover
<1> QED
  BY <1>2, <1>3

LEMMA StampIsNat ==
    ASSUME TypeOK, NEW t \in {EVENT, NOTIFICATION, TASK_SUSPEND}
    PROVE  iteration \in Nat /\ counterValue[t][1] \in Nat
<1>1. iteration \in Nat /\ t \in Tests
  BY SpeedTestAssumption DEF TypeOK, Tests, SEMAPHORE, EVENT, NOTIFICATION, TASK_SUSPEND, END
<1>2. counterValue[t][1] \in Nat
  BY <1>1 DEF TypeOK, Stamps
<1> QED
  BY <1>1, <1>2

\* A step that leaves the stamp alone adds nothing to what is pending for the test, and ends
\* its wait only by taking some of it, or after an edge of this iteration.
LEMMA OldStays ==
    ASSUME TypeOK, TypeOK', NEW t \in {EVENT, NOTIFICATION}, Old(t),
           iteration' = iteration, counterValue'[t][1] = counterValue[t][1], Kept(t)' <= Kept(t),
           Due(t)' => Due(t), Due(t) /\ ~Due(t)' => Kept(t)' + 1 <= Kept(t)
    PROVE  Old(t)'
<1>1. /\ Kept(t) \in Nat /\ Kept(t)' \in Nat /\ Leftover(t) \in Nat
      /\ Leftover(t)' = Leftover(t) /\ Kept(t)' <= Leftover(t)
  BY KeptIs, KeptIsNext
<1>2. iteration \in Nat /\ counterValue[t][1] \in Nat
  BY StampIsNat
<1> QED
  BY <1>1, <1>2 DEF Old

LEMMA InitSInv == Init => SInv
<1> SUFFICES ASSUME Init PROVE SInv
  OBVIOUS
<1> USE DEF Tests, SEMAPHORE, EVENT, NOTIFICATION, TASK_SUSPEND, END
<1>1. counterValue \in [Tests -> Stamps] /\ \A t \in Tests, j \in 0..2 : counterValue[t][j] = 0
  BY DEF Init, Stamps
<1>2. values \in [0 .. ITERATION - 1 -> [Tests -> Stamps]]
  BY DEF Init, Stamps
<1>3. TypeOK
  <2>1. /\ overrun \in BOOLEAN /\ pin \in BOOLEAN /\ signalled \in BOOLEAN /\ late \in BOOLEAN
        /\ semaphore \in BOOLEAN /\ event \in BOOLEAN /\ notified \in BOOLEAN /\ plugged \in BOOLEAN
    BY Zenon DEF Init
  <2>2. setBits \in 0 .. QueueLength /\ iteration \in 0 .. ITERATION + 1 /\ acutalTest \in SEMAPHORE .. END
    BY SpeedTestAssumption DEF Init
  <2>3. pc = "start" /\ stop = "none"
    BY DEF Init
  <2> QED
    BY <1>1, <1>2, <2>1, <2>2, <2>3 DEF TypeOK
<1>4. Control
  BY DEF Init, Control
<1>5. Bounded
  <2>1. Kept(EVENT) = 0 /\ Kept(NOTIFICATION) = 0
    BY DEF Init, Kept
  <2>2. Old(EVENT) /\ Old(NOTIFICATION)
    BY <1>1, <1>3, <2>1, KeptIs DEF Init, Old, Due
  <2> QED
    BY <1>1, <2>2 DEF Init, Bounded, Own
<1>6. Fresh
  BY DEF Init, Fresh
<1> QED
  BY <1>3, <1>4, <1>5, <1>6 DEF SInv

\* A stamp changes one value of one test.
LEMMA StampIs ==
    ASSUME TypeOK, NEW t \in Tests, NEW j \in 1..2, Stamp(t, j)
    PROVE  /\ counterValue' \in [Tests -> Stamps]
           /\ counterValue'[t][j] = iteration + 1
           /\ \A u \in Tests, k \in 1..2 : u # t \/ k # j => counterValue'[u][k] = counterValue[u][k]
<1>1. iteration + 1 \in Nat /\ counterValue \in [Tests -> Stamps]
  BY SpeedTestAssumption DEF TypeOK
<1>2. [counterValue[t] EXCEPT ![j] = iteration + 1] \in Stamps
  BY <1>1 DEF Stamps
<1>3. counterValue' = [counterValue EXCEPT ![t] = [counterValue[t] EXCEPT ![j] = iteration + 1]]
  BY <1>1 DEF Stamp
<1> QED
  BY <1>1, <1>2, <1>3 DEF Stamps

\* An edge.
LEMMA EdgeKeeps == SInv /\ interruptHandler => SInv'
<1> SUFFICES ASSUME SInv, interruptHandler PROVE SInv'
  OBVIOUS
<1> USE DEF Tests, SEMAPHORE, EVENT, NOTIFICATION, TASK_SUSPEND, END
<1>1. TypeOK /\ Control /\ Bounded /\ acutalTest \in Tests /\ pin
  BY DEF SInv, interruptHandler, TypeOK, Control
<1>2. /\ Stamp(acutalTest, 1)
      /\ semaphore' = (semaphore \/ acutalTest = SEMAPHORE)
      /\ setBits' = IF acutalTest = EVENT /\ setBits < QueueLength THEN setBits + 1 ELSE setBits
      /\ notified' = (notified \/ acutalTest = NOTIFICATION)
      /\ pc' = IF acutalTest = TASK_SUSPEND /\ pc = "suspended" THEN "woken" ELSE pc
      /\ stop' = stop
  BY <1>1 DEF interruptHandler
<1>3. /\ signalled' = (signalled \/ Signals)
      /\ late' = (late \/ signalled)
      /\ UNCHANGED <<acutalTest, iteration, values, overrun, pin, event, plugged>>
  BY DEF interruptHandler
<1>4. /\ counterValue' \in [Tests -> Stamps]
      /\ counterValue'[acutalTest][1] = iteration + 1
      /\ \A u \in Tests, k \in 1..2 : u # acutalTest \/ k # 1 => counterValue'[u][k] = counterValue[u][k]
  BY <1>1, <1>2, StampIs
<1>5. /\ semaphore' <=> semaphore \/ acutalTest = SEMAPHORE
      /\ notified' <=> notified \/ acutalTest = NOTIFICATION
      /\ signalled' <=> signalled \/ Signals
      /\ late' <=> late \/ signalled
  BY <1>2, <1>3, Zenon
<1>6. TypeOK'
  <2>1. semaphore' \in BOOLEAN /\ notified' \in BOOLEAN /\ signalled' \in BOOLEAN /\ late' \in BOOLEAN
    BY <1>2, <1>3, Zenon
  <2>2. setBits' \in 0..QueueLength
    BY <1>1, <1>2, SpeedTestAssumption DEF TypeOK
  <2> QED
    BY <1>1, <1>2, <1>3, <1>4, <2>1, <2>2 DEF TypeOK
<1>7. Control'
  BY <1>1, <1>2, <1>3 DEF Control
<1>8. Bounded'
  <2>1. ASSUME NEW t \in {EVENT, NOTIFICATION} PROVE Old(t)'
    <3>1. CASE t = acutalTest
      <4>1. counterValue'[t][1] = iteration' + 1 /\ iteration' \in Nat
        BY <1>3, <1>4, <1>6, <3>1, SpeedTestAssumption DEF TypeOK
      <4> HIDE DEF EVENT, NOTIFICATION
      <4> QED
        BY <1>6, <4>1, KeptIsNext DEF Old
    <3>2. CASE t # acutalTest
      <4>1. Old(t) /\ t \in Tests /\ 1 \in 1..2
        BY <1>1 DEF Bounded
      <4>2. counterValue'[t][1] = counterValue[t][1]
        BY <1>4, <3>2, <4>1
      <4>3. Kept(t)' = Kept(t)
        <5>1. t = EVENT => setBits' = setBits /\ event' = event
          BY <1>2, <1>3, <3>2
        <5>2. t = NOTIFICATION => (notified' <=> notified)
          BY <1>5, <3>2
        <5> QED
          BY <5>1, <5>2 DEF Kept
      <4>4. Due(t)' <=> Due(t)
        BY <1>2, <1>3, <3>2 DEF Due
      <4> HIDE DEF EVENT, NOTIFICATION
      <4>5. Kept(t) \in Nat
        BY <1>1, KeptIs
      <4> QED
        BY <1>1, <1>3, <1>6, <4>1, <4>2, <4>3, <4>4, <4>5, OldStays
    <3> QED
      BY <3>1, <3>2
  <2>2. Own'
    BY <1>1, <1>2, <1>3, <1>4 DEF Bounded, Own, Control, TypeOK
  <2> QED
    BY <2>1, <2>2 DEF Bounded
<1>9. ASSUME ~late' PROVE Fresh'
  <2>1. ~late /\ ~signalled /\ Fresh
    BY <1>5, <1>9 DEF SInv
  <2>2. ~semaphore /\ ~(setBits > 0) /\ ~event /\ ~notified /\ pc \in {"wait", "suspended", "halt"}
    BY <1>1, <2>1 DEF Fresh, TypeOK, Control
  <2>3. /\ semaphore' => acutalTest' = SEMAPHORE
        /\ notified' => acutalTest' = NOTIFICATION
        /\ setBits' > 0 => acutalTest' = EVENT /\ setBits' = 1
        /\ ~event'
    BY <1>1, <1>2, <1>3, <1>5, <2>2, SpeedTestAssumption DEF TypeOK
  <2>4. acutalTest # TASK_SUSPEND => signalled' /\ pc' = pc /\ pc # "suspended"
    BY <1>1, <1>2, <1>5 DEF Signals, Control
  <2>5. acutalTest = TASK_SUSPEND => ~semaphore' /\ ~notified' /\ ~(setBits' > 0)
    BY <2>3, <1>3
  <2>6. pc' = "woken" => acutalTest = TASK_SUSPEND /\ signalled'
    BY <1>2, <1>5, <2>2 DEF Signals
  <2>7. pc' \in {"wait", "suspended"} /\ acutalTest = TASK_SUSPEND => ~signalled'
    BY <1>2, <1>5, <2>1, <2>2 DEF Signals
  <2>8. \A t \in Tests \ {SEMAPHORE} : t < acutalTest /\ Measured(t) => Measured(t)'
    BY <1>1, <1>3, <1>4 DEF Measured, TypeOK
  <2>9. pc' # "halt" => pc # "halt"
    BY <1>2
  <2> QED
    BY <1>1, <1>3, <1>4, <2>1, <2>2, <2>3, <2>4, <2>5, <2>6, <2>7, <2>8, <2>9 DEF Fresh
<1> QED
  BY <1>6, <1>7, <1>8, <1>9 DEF SInv

\* The timer daemon sets the event bit.
LEMMA SetBitsKeeps == SInv /\ SetBits => SInv'
<1> SUFFICES ASSUME SInv, SetBits PROVE SInv'
  OBVIOUS
<1>1. TypeOK /\ Control /\ Bounded
  BY DEF SInv
<1>2. TypeOK'
  BY <1>1, SpeedTestAssumption DEF SetBits, TypeOK
<1>3. Control' /\ Bounded'
  <2>1. ASSUME NEW t \in {EVENT, NOTIFICATION} PROVE Old(t)'
    <3>1. setBits \in Nat /\ setBits' + 1 = setBits /\ event' /\ (notified' <=> notified)
      BY <1>1, SpeedTestAssumption DEF SetBits, TypeOK
    <3>2. Kept(t)' <= Kept(t)
      BY <3>1 DEF Kept, EVENT, NOTIFICATION
    <3>3. Old(t) /\ (Due(t)' <=> Due(t)) /\ iteration' = iteration /\ counterValue' = counterValue
      BY <1>1 DEF SetBits, Bounded, Due
    <3> QED
      BY <1>1, <1>2, <3>2, <3>3, OldStays
  <2> QED
    BY <1>1, <2>1 DEF SetBits, Control, Bounded, Own
<1>4. ASSUME ~late' PROVE Fresh'
  <2>1. Fresh /\ setBits > 0
    BY <1>4 DEF SInv, SetBits
  <2>2. setBits' = 0 /\ event' /\ acutalTest = EVENT /\ ~semaphore /\ ~notified
    BY <1>1, <2>1 DEF SetBits, Fresh, TypeOK, EVENT, SEMAPHORE, NOTIFICATION
  <2> QED
    BY <2>1, <2>2 DEF SetBits, Fresh, Measured
<1> QED
  BY <1>2, <1>3, <1>4 DEF SInv

\* The wire is pulled off.
LEMMA UnplugKeeps == SInv /\ Unplug => SInv'
<1> SUFFICES ASSUME SInv, Unplug PROVE SInv'
  OBVIOUS
<1>1. TypeOK'
  BY DEF Unplug, SInv, TypeOK
<1>2. Control' /\ Bounded'
  BY DEF Unplug, SInv, Control, Bounded, Old, Own, Due, Kept, Leftover
<1>3. ~late' => Fresh'
  BY DEF Unplug, SInv, Fresh, Measured
<1> QED
  BY <1>1, <1>2, <1>3 DEF SInv

\* The task switches the interrupt on.
LEMMA StartKeeps == SInv /\ startTest => SInv'
<1> SUFFICES ASSUME SInv, startTest PROVE SInv'
  OBVIOUS
<1> USE DEF Tests, SEMAPHORE, EVENT, NOTIFICATION, TASK_SUSPEND, END
<1>1. TypeOK'
  BY DEF startTest, SInv, TypeOK
<1>2. Control' /\ Bounded'
  <2>1. ASSUME NEW t \in {EVENT, NOTIFICATION} PROVE Old(t)'
    <3>1. Due(t)' <=> Due(t)
      BY DEF startTest, Due
    <3>2. Kept(t)' = Kept(t) /\ Leftover(t)' = Leftover(t)
      BY DEF startTest, Kept, Leftover
    <3> QED
      BY <3>1, <3>2 DEF startTest, SInv, Bounded, Old
  <2> QED
    BY <2>1 DEF startTest, SInv, Control, Bounded, Own
<1>3. ~late' => Fresh'
  BY DEF startTest, SInv, Fresh, Measured
<1> QED
  BY <1>1, <1>2, <1>3 DEF SInv

\* The wait ends: the token is the one of this test, and taken.
LEMMA WaitKeeps == SInv /\ WaitEnds => SInv'
<1> SUFFICES ASSUME SInv, WaitEnds PROVE SInv'
  OBVIOUS
<1> USE DEF Tests, SEMAPHORE, EVENT, NOTIFICATION, TASK_SUSPEND, END
<1>1. TypeOK /\ Control /\ Bounded /\ pc = "wait" /\ Token
  BY DEF SInv, WaitEnds
<1>2. acutalTest \in {SEMAPHORE, EVENT, NOTIFICATION}
  BY <1>1 DEF Token, TypeOK
<1>3. /\ Stamp(acutalTest, 2)
      /\ pc' = "woken"
      /\ UNCHANGED <<acutalTest, iteration, values, overrun, pin, setBits, plugged, stop, signalled, late>>
  BY DEF WaitEnds
<1>4. /\ counterValue' \in [Tests -> Stamps]
      /\ counterValue'[acutalTest][2] = iteration + 1
      /\ \A u \in Tests, k \in 1..2 : u # acutalTest \/ k # 2 => counterValue'[u][k] = counterValue[u][k]
  BY <1>1, <1>2, <1>3, StampIs
<1>5. /\ semaphore' <=> semaphore /\ acutalTest # SEMAPHORE
      /\ event' <=> event /\ acutalTest # EVENT
      /\ notified' <=> notified /\ acutalTest # NOTIFICATION
      /\ semaphore' \in BOOLEAN /\ event' \in BOOLEAN /\ notified' \in BOOLEAN
  BY Zenon DEF WaitEnds, Consume
<1>6. TypeOK'
  BY <1>1, <1>3, <1>4, <1>5 DEF TypeOK
<1>7. Control' /\ Bounded'
  <2>1. ASSUME NEW t \in {EVENT, NOTIFICATION} PROVE Old(t)'
    <3>1. Old(t) /\ iteration' = iteration /\ counterValue'[t][1] = counterValue[t][1]
      BY <1>1, <1>3, <1>4 DEF Bounded
    <3>2. setBits' = setBits /\ setBits \in Nat
      BY <1>1, <1>3, SpeedTestAssumption DEF TypeOK
    <3>3. CASE t = acutalTest
      <4>1. /\ t = EVENT => event /\ ~event'
            /\ t = NOTIFICATION => notified /\ ~notified'
        BY <1>1, <1>2, <1>5, <3>3 DEF Token
      <4>2. Kept(t)' + 1 <= Kept(t)
        BY <3>2, <4>1 DEF Kept
      <4>3. ~Due(t)'
        BY <1>3, <3>3 DEF Due
      <4> HIDE DEF EVENT, NOTIFICATION
      <4>4. Kept(t) \in Nat /\ Kept(t)' \in Nat
        BY <1>1, <1>6, KeptIs, KeptIsNext
      <4>5. Kept(t)' <= Kept(t)
        BY <4>2, <4>4
      <4> QED
        BY <1>1, <1>6, <3>1, <4>2, <4>3, <4>5, OldStays
    <3>4. CASE t # acutalTest
      <4>1. /\ t = EVENT => (event' <=> event)
            /\ t = NOTIFICATION => (notified' <=> notified)
        BY <1>5, <3>4
      <4>2. Kept(t)' = Kept(t)
        BY <3>2, <4>1 DEF Kept
      <4>3. Due(t)' <=> Due(t)
        BY <1>3, <3>4 DEF Due
      <4> HIDE DEF EVENT, NOTIFICATION
      <4>4. Kept(t) \in Nat
        BY <1>1, KeptIs
      <4> QED
        BY <1>1, <1>6, <3>1, <4>2, <4>3, <4>4, OldStays
    <3> QED
      BY <3>3, <3>4
  <2>2. Own' /\ Control'
    BY <1>1, <1>2, <1>3, <1>4 DEF Control, Bounded, Own, TypeOK
  <2> QED
    BY <2>1, <2>2 DEF Bounded
<1>8. ASSUME ~late' PROVE Fresh'
  <2>1. Fresh
    BY <1>3, <1>8 DEF SInv
  <2>2. /\ acutalTest = SEMAPHORE => semaphore
        /\ acutalTest = EVENT => event
        /\ acutalTest = NOTIFICATION => notified
    BY <1>1, <1>2 DEF Token
  <2>3. signalled /\ counterValue[acutalTest][1] = iteration + 1 /\ ~(setBits > 0)
    BY <1>1, <1>2, <2>1, <2>2 DEF Fresh, TypeOK
  <2>4. ~semaphore' /\ ~event' /\ ~notified' /\ ~(setBits' > 0)
    BY <1>2, <1>3, <1>5, <2>1, <2>2, <2>3 DEF Fresh
  <2>5. counterValue'[acutalTest][1] = iteration + 1
    BY <1>2, <1>4, <2>3
  <2>6. \A t \in Tests \ {SEMAPHORE} : t < acutalTest => Measured(t)'
    BY <1>1, <1>2, <1>3, <1>4, <2>1 DEF Fresh, Measured
  <2> QED
    BY <1>2, <1>3, <1>4, <2>3, <2>4, <2>5, <2>6 DEF Fresh
<1> QED
  BY <1>6, <1>7, <1>8 DEF SInv

\* The wait ends without a token, and with it the test.
LEMMA TimeOutKeeps == SInv /\ WaitTimesOut => SInv'
<1> SUFFICES ASSUME SInv, WaitTimesOut PROVE SInv'
  OBVIOUS
<1> USE DEF Tests, SEMAPHORE, EVENT, NOTIFICATION, TASK_SUSPEND, END
<1>1. TypeOK /\ Control /\ Bounded /\ pc = "wait" /\ ~Token /\ setBits = 0
  BY DEF SInv, WaitTimesOut
<1>2. acutalTest \in {SEMAPHORE, EVENT, NOTIFICATION}
  BY <1>1 DEF Control, TypeOK, WaitTimesOut
<1>3. /\ Stamp(acutalTest, 2)
      /\ pc' = "halt" /\ stop' = "timeout"
      /\ UNCHANGED <<acutalTest, iteration, values, overrun, pin, semaphore,
                     setBits, event, notified, plugged, signalled, late>>
  BY DEF WaitTimesOut, Assert
<1>4. /\ counterValue' \in [Tests -> Stamps]
      /\ counterValue'[acutalTest][2] = iteration + 1
      /\ \A u \in Tests, k \in 1..2 : u # acutalTest \/ k # 2 => counterValue'[u][k] = counterValue[u][k]
  BY <1>1, <1>2, <1>3, StampIs
<1>5. TypeOK'
  BY <1>1, <1>3, <1>4 DEF TypeOK
<1>6. Control' /\ Bounded'
  <2>1. ASSUME NEW t \in {EVENT, NOTIFICATION} PROVE Old(t)'
    <3>1. Old(t) /\ iteration' = iteration /\ counterValue'[t][1] = counterValue[t][1]
      BY <1>1, <1>3, <1>4 DEF Bounded
    <3>2. (Due(t)' <=> Due(t)) /\ Kept(t)' = Kept(t) /\ Leftover(t)' = Leftover(t)
      BY <1>1, <1>3 DEF Due, Kept, Leftover
    <3> QED
      BY <3>1, <3>2 DEF Old
  <2>2. Own' /\ Control'
    BY <1>1, <1>2, <1>3, <1>4 DEF Control, Bounded, Own, TypeOK
  <2> QED
    BY <2>1, <2>2 DEF Bounded
<1>7. ASSUME ~late' PROVE Fresh'
  <2>1. Fresh
    BY <1>3, <1>7 DEF SInv
  <2>2. ~semaphore /\ ~event /\ ~notified
    BY <1>1, <1>2, <2>1 DEF Fresh, Token
  <2> QED
    BY <1>1, <1>3, <2>2 DEF Fresh
<1> QED
  BY <1>5, <1>6, <1>7 DEF SInv

\* The task suspends itself.
LEMMA SuspendKeeps == SInv /\ Suspend => SInv'
<1> SUFFICES ASSUME SInv, Suspend PROVE SInv'
  OBVIOUS
<1> USE DEF Tests, SEMAPHORE, EVENT, NOTIFICATION, TASK_SUSPEND, END
<1>1. TypeOK'
  BY DEF Suspend, SInv, TypeOK
<1>2. Control' /\ Bounded'
  <2>1. ASSUME NEW t \in {EVENT, NOTIFICATION} PROVE Old(t)'
    <3>1. Due(t)' <=> Due(t)
      BY DEF Suspend, Due
    <3>2. Kept(t)' = Kept(t) /\ Leftover(t)' = Leftover(t)
      BY DEF Suspend, Kept, Leftover
    <3> QED
      BY <3>1, <3>2 DEF Suspend, SInv, Bounded, Old
  <2> QED
    BY <2>1 DEF Suspend, SInv, Control, Bounded, Own
<1>3. ~late' => Fresh'
  BY DEF Suspend, SInv, Fresh, Measured
<1> QED
  BY <1>1, <1>2, <1>3 DEF SInv

\* The interrupt is switched off and the next test is due.
LEMMA StopKeeps == SInv /\ stopTest => SInv'
<1> SUFFICES ASSUME SInv, stopTest PROVE SInv'
  OBVIOUS
<1> USE DEF Tests, SEMAPHORE, EVENT, NOTIFICATION, TASK_SUSPEND, END
<1>1. TypeOK /\ Control /\ Bounded /\ pc = "woken"
  BY DEF SInv, stopTest
<1>2. acutalTest \in Tests
  BY <1>1 DEF Control, TypeOK
<1>3. /\ ~pin' /\ pin' \in BOOLEAN /\ acutalTest' = acutalTest + 1 /\ pc' = "start"
      /\ UNCHANGED <<iteration, values, overrun, semaphore, setBits, event, notified,
                     plugged, stop, signalled, late>>
  BY DEF stopTest
<1>4. /\ counterValue' \in [Tests -> Stamps]
      /\ acutalTest = TASK_SUSPEND => counterValue'[acutalTest][2] = iteration + 1
      /\ \A u \in Tests, k \in 1..2 : u # TASK_SUSPEND \/ k # 2 => counterValue'[u][k] = counterValue[u][k]
      /\ acutalTest # TASK_SUSPEND => counterValue' = counterValue
  <2>1. CASE acutalTest = TASK_SUSPEND
    <3>1. Stamp(TASK_SUSPEND, 2) /\ TASK_SUSPEND \in Tests /\ 2 \in 1..2
      BY <2>1 DEF stopTest
    <3> QED
      BY <1>1, <2>1, <3>1, StampIs
  <2>2. CASE acutalTest # TASK_SUSPEND
    BY <1>1, <2>2 DEF stopTest, TypeOK
  <2> QED
    BY <2>1, <2>2
<1>5. TypeOK'
  BY <1>1, <1>2, <1>3, <1>4 DEF TypeOK
<1>6. Control' /\ Bounded'
  <2>1. ASSUME NEW t \in {EVENT, NOTIFICATION} PROVE Old(t)'
    <3>1. Old(t) /\ iteration' = iteration /\ counterValue'[t][1] = counterValue[t][1]
      BY <1>1, <1>3, <1>4 DEF Bounded
    <3>2. Kept(t)' = Kept(t) /\ Leftover(t)' = Leftover(t)
      BY <1>1, <1>3 DEF Kept, Leftover
    <3>3. Due(t)' <=> Due(t)
      BY <1>1, <1>2, <1>3 DEF Due
    <3> QED
      BY <3>1, <3>2, <3>3 DEF Old
  <2>2. Own' /\ Control'
    BY <1>1, <1>2, <1>3, <1>4 DEF Control, Bounded, Own, TypeOK
  <2> QED
    BY <2>1, <2>2 DEF Bounded
<1>7. ASSUME ~late' PROVE Fresh'
  <2>1. Fresh
    BY <1>3, <1>7 DEF SInv
  <2>2. ~semaphore /\ ~event /\ ~notified /\ ~(setBits > 0)
    BY <1>1, <2>1 DEF Fresh
  <2>3. counterValue'[acutalTest][1] = iteration + 1 /\ counterValue'[acutalTest][2] = iteration + 1
    BY <1>1, <1>2, <1>4, <2>1 DEF Fresh
  <2>4. \A t \in Tests \ {SEMAPHORE} : t < acutalTest => Measured(t)'
    BY <1>1, <1>2, <1>3, <1>4, <2>1 DEF Fresh, Measured
  <2>5. \A t \in Tests \ {SEMAPHORE} : t < acutalTest' => Measured(t)'
    BY <1>2, <1>3, <2>3, <2>4 DEF Measured
  <2> QED
    BY <1>3, <2>2, <2>5 DEF Fresh
<1> QED
  BY <1>5, <1>6, <1>7 DEF SInv

\* The iteration is recorded: the next one begins with the second test.
LEMMA RecordKeeps == SInv /\ Record => SInv'
<1> SUFFICES ASSUME SInv, Record PROVE SInv'
  OBVIOUS
<1> USE DEF Tests, SEMAPHORE, EVENT, NOTIFICATION, TASK_SUSPEND, END
<1>1. TypeOK /\ Control /\ Bounded /\ pc = "start" /\ acutalTest = END
  BY DEF SInv, Record
<1>2. UNCHANGED <<counterValue, pin, semaphore, setBits, event, notified, plugged, signalled, late>>
  BY DEF Record
<1>3. \/ /\ iteration > ITERATION /\ pc' = "halt" /\ stop' \in {"done", "zero"}
         /\ acutalTest' = acutalTest /\ iteration' = iteration
      \/ /\ iteration <= ITERATION /\ iteration' = iteration + 1 /\ acutalTest' = EVENT
         /\ pc' = pc /\ stop' = stop
  BY <1>1, SpeedTestAssumption DEF Record, Assert, TypeOK
<1>4. overrun' \in BOOLEAN /\ values' \in [0 .. ITERATION - 1 -> [Tests -> Stamps]]
  <2>1. CASE iteration < ITERATION
    BY <1>1, <2>1 DEF Record, TypeOK
  <2>2. CASE ~(iteration < ITERATION)
    BY <1>1, <2>2 DEF Record, TypeOK
  <2> QED
    BY <2>1, <2>2
<1>5. TypeOK'
  BY <1>1, <1>2, <1>3, <1>4, SpeedTestAssumption DEF TypeOK
<1>6. Control' /\ Bounded'
  <2>1. ASSUME NEW t \in {EVENT, NOTIFICATION} PROVE Old(t)'
    <3>1. Old(t) /\ ~Due(t) /\ counterValue' = counterValue
      BY <1>1, <1>2 DEF Bounded, Due
    <3>2. Kept(t)' = Kept(t) /\ Leftover(t)' = Leftover(t)
      BY <1>2 DEF Kept, Leftover
    <3>3. Kept(t)' <= Leftover(t) /\ Kept(t) \in Nat /\ Leftover(t) \in Nat
      BY <1>1, <1>5, KeptIs, KeptIsNext
    <3>4. iteration' = iteration + 1 \/ (iteration' = iteration /\ ~Due(t)')
      BY <1>1, <1>3 DEF Due
    <3>5. iteration \in Nat /\ counterValue[t][1] \in Nat
      BY <1>1, StampIsNat
    <3>6. iteration' = iteration + 1 => Due(t)'
      BY <1>1, <1>3, <3>5 DEF Due
    <3> HIDE DEF EVENT, NOTIFICATION
    <3> QED
      BY <3>1, <3>2, <3>3, <3>4, <3>5, <3>6 DEF Old
  <2>2. Own' /\ Control'
    BY <1>1, <1>2, <1>3 DEF Control, Bounded, Own
  <2> QED
    BY <2>1, <2>2 DEF Bounded
<1>7. ASSUME ~late' PROVE Fresh'
  <2>1. Fresh
    BY <1>2, <1>7 DEF SInv
  <2>2. ~semaphore /\ ~event /\ ~notified /\ ~(setBits > 0)
    BY <1>1, <2>1 DEF Fresh
  <2> QED
    BY <1>1, <1>2, <1>3, <2>2 DEF Fresh
<1> QED
  BY <1>5, <1>6, <1>7 DEF SInv

LEMMA StepSInv == SInv /\ [Next]_vars => SInv'
<1> SUFFICES ASSUME SInv, [Next]_vars PROVE SInv'
  OBVIOUS
<1>1. CASE Next
  BY <1>1, EdgeKeeps, SetBitsKeeps, UnplugKeeps, StartKeeps, WaitKeeps, TimeOutKeeps, SuspendKeeps,
     StopKeeps, RecordKeeps DEF Next, speedtest_task
<1>2. CASE UNCHANGED vars
  BY <1>2 DEF vars, SInv, TypeOK, Control, Bounded, Old, Own, Due, Kept, Leftover, Fresh, Measured
<1> QED
  BY <1>1, <1>2

\* SInv holds always: the base of the theorems below.
THEOREM SpeedInductive == Spec => []SInv
<1>1. QED
  BY InitSInv, StepSInv, PTL DEF Spec

\* The interrupt is never called in the END state, between whatever steps of the task it comes.
THEOREM InterruptOffInEnd == Spec => []NoInterruptInEnd
<1>1. SInv => NoInterruptInEnd
  BY DEF SInv, Control, NoInterruptInEnd
<1> QED
  BY <1>1, SpeedInductive, PTL

\* The stamps recorded together belong together: the task's are of the iteration, and the
\* interrupt's as long as no edge has followed another within a test.  Such edges let later
\* waits end early, but only as many as the timer daemon's queue and the bits have room for.
THEOREM StampsAreFresh == Spec => []StampsBelongTogether
<1>1. ASSUME SInv PROVE StampsBelongTogether
  <2> USE DEF Tests, SEMAPHORE, EVENT, NOTIFICATION, TASK_SUSPEND, END
  <2> SUFFICES ASSUME acutalTest = END, pc = "start", NEW t \in Tests \ {SEMAPHORE}
               PROVE  /\ counterValue[t][2] = iteration + 1
                      /\ iteration + 1 - counterValue[t][1] <= (IF late THEN Leftover(t) ELSE 0)
    BY DEF StampsBelongTogether
  <2>1. TypeOK /\ Bounded /\ iteration \in Nat /\ counterValue[t][1] \in Nat
    BY <1>1, StampIsNat DEF SInv
  <2>2. counterValue[t][2] = iteration + 1
    BY <2>1 DEF Bounded, Own
  <2>3. ASSUME ~late PROVE iteration + 1 - counterValue[t][1] <= 0
    BY <1>1, <2>1, <2>3 DEF SInv, Fresh, Measured
  <2>4. iteration + 1 - counterValue[t][1] <= Leftover(t)
    <3>1. CASE t = TASK_SUSPEND
      BY <2>1, <3>1 DEF Bounded, Own, Leftover
    <3>2. CASE t \in {EVENT, NOTIFICATION}
      <4>1. Old(t) /\ ~Due(t)
        BY <2>1, <3>2 DEF Bounded, Due
      <4> HIDE DEF EVENT, NOTIFICATION
      <4>2. Kept(t) \in Nat /\ Leftover(t) \in Nat
        BY <2>1, <3>2, KeptIs
      <4> QED
        BY <2>1, <4>1, <4>2 DEF Old
    <3> QED
      BY <3>1, <3>2
  <2> QED
    BY <2>2, <2>3, <2>4
<1> QED
  BY <1>1, SpeedInductive, PTL
=============================================================================
