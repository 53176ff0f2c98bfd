-------------------------- MODULE BoardTestProofs --------------------------
(***************************************************************************)
(* The smaller tests, proved for every value of their constants: the ramp   *)
(* of ledTask, the answers to requests that may time out, the light of the  *)
(* RGB timer, the mailbox echo, the PWM test on a wire that works, two CAN  *)
(* tests on one bus, the reset of an SD card, and the start of the boards.  *)
(* At the end, the tests together: each is what BoardTests runs, so each    *)
(* holds there.                                                             *)
(***************************************************************************)
EXTENDS BoardTests, TLAPS

-----------------------------------------------------------------------------
(* LedRamp: RampInv is inductive, once the types are known.  The six copies *)
(* take one and the same step; only whether they toggle the second LED      *)
(* distinguishes them.                                                      *)

Toggling == {"vf610", "stm32", "imx6"}
RampTyped == up \in BOOLEAN /\ led \in BOOLEAN /\ lastEnd \in {"none", "low", "high"}

LEMMA RampInitial == RampInit => RampTyped /\ RampInv
<1> SUFFICES ASSUME RampInit PROVE RampTyped /\ RampInv
  OBVIOUS
<1>1. duty = 10000 /\ up = TRUE /\ led = FALSE /\ wait = 20 /\ lastEnd = "none"
  BY DEF RampInit
<1>2. \E k \in 0..50 : duty = 400 * k
  <2>1. 25 \in 0..50 /\ duty = 400 * 25
    BY <1>1
  <2> QED
    BY <2>1
<1>3. duty \in Duties
  BY <1>2 DEF Duties
<1>4. RampTyped /\ up /\ ~led
  <2>1. up = TRUE /\ led = FALSE /\ lastEnd = "none"
    BY <1>1
  <2> QED
    BY <2>1, Zenon DEF RampTyped
<1>5. wait = 20 /\ lastEnd = "none" /\ duty = 10000 /\ Full = 20000
  BY <1>1 DEF Full
<1>6. wait = IF duty \in {0, Full} THEN 1000 ELSE 20
  BY <1>5
<1>7. led <=> (lastEnd = "high" /\ copy \in {"vf610", "stm32", "imx6"})
  BY <1>4, <1>5
<1>8. duty < Full /\ duty >= 10000 /\ duty # 0 /\ duty # Full
  BY <1>5
<1> QED
  BY <1>3, <1>4, <1>5, <1>6, <1>7, <1>8 DEF RampInv

\* A step within the ramp, and one that reaches an end.
LEMMA RampKeeps ==
    ASSUME RampTyped, RampInv, NEW toggles \in BOOLEAN, Ramp(toggles),
           toggles <=> (copy \in Toggling)
    PROVE  RampTyped' /\ RampInv'
<1>1. PICK k \in 0..50 : duty = 400 * k
  BY DEF RampInv, Duties
<1>2. k \in Int /\ (up => k < 50) /\ (~up => k > 0)
  BY <1>1 DEF RampInv, Full
<1>3. /\ copy' = copy /\ up' = Turn
      /\ duty' = IF up THEN duty + 400 ELSE duty - 400
      /\ wait' = IF duty' \in {0, Full} THEN 1000 ELSE 20
      /\ led' = IF duty' \in {0, Full} /\ toggles THEN ~led ELSE led
      /\ lastEnd' = IF duty' \notin {0, Full} THEN lastEnd
                    ELSE IF duty' = 0 THEN "low" ELSE "high"
  BY DEF Ramp
<1>4. /\ duty' \in {0, Full} /\ toggles => (led' <=> ~led)
      /\ ~(duty' \in {0, Full} /\ toggles) => (led' <=> led)
  BY <1>3, Zenon
<1>5. led <=> (lastEnd = "high" /\ toggles)
  BY DEF RampInv, Toggling
<1>6. RampTyped'
  <2>1. up' \in BOOLEAN
    <3>1. CASE up
      BY <1>3, <3>1 DEF Turn
    <3>2. CASE ~up
      BY <1>3, <3>2 DEF Turn
    <3> QED
      BY <3>1, <3>2
  <2>2. led' \in BOOLEAN
    BY <1>3, Zenon DEF RampTyped
  <2>3. lastEnd' \in {"none", "low", "high"}
    BY <1>3 DEF RampTyped
  <2> QED
    BY <2>1, <2>2, <2>3 DEF RampTyped
<1>7. (up' <=> Turn) /\ up \in BOOLEAN /\ up' \in BOOLEAN /\ led \in BOOLEAN /\ led' \in BOOLEAN
  BY <1>3, <1>6, Zenon DEF RampTyped
<1>8. duty' \in Duties
  <2> DEFINE j == IF up THEN k + 1 ELSE k - 1
  <2>1. j \in 0..50 /\ duty' = 400 * j
    BY <1>1, <1>2, <1>3
  <2> HIDE DEF j
  <2> QED
    BY <2>1 DEF Duties
<1>9. CASE up /\ k = 49
  <2>1. duty' = Full /\ ~up' /\ lastEnd' = "high" /\ wait' = 1000
    BY <1>1, <1>3, <1>9, <1>7 DEF Turn, Full
  <2>2. ~led
    BY <1>5, <1>9 DEF RampInv
  <2>3. led' <=> (lastEnd' = "high" /\ toggles)
    <3>1. CASE toggles
      BY <1>4, <2>1, <2>2, <3>1, Zenon
    <3>2. CASE ~toggles
      BY <1>4, <2>2, <3>2, Zenon
    <3> QED
      BY <3>1, <3>2
  <2>4. copy' = copy
    BY <1>3
  <2>5. led' <=> (lastEnd' = "high" /\ copy' \in Toggling)
    BY <2>1, <2>3, <2>4
  <2>6. wait' = (IF duty' \in {0, Full} THEN 1000 ELSE 20)
    BY <2>1
  <2>7. /\ up' => duty' < Full
        /\ ~up' => duty' > 0
    BY <2>1 DEF Full
  <2>8. /\ duty' = 0 => lastEnd' = "low"
        /\ duty' = Full => lastEnd' = "high"
    BY <2>1 DEF Full
  <2>9. /\ lastEnd' # "none"
        /\ lastEnd' = "low" => up'
        /\ lastEnd' = "high" => ~up'
    BY <2>1
  <2> QED
    BY <1>6, <1>8, <2>5, <2>6, <2>7, <2>8, <2>9 DEF RampInv, Toggling
<1>10. CASE ~up /\ k = 1
  <2>1. duty' = 0 /\ up' /\ lastEnd' = "low" /\ wait' = 1000
    BY <1>1, <1>3, <1>10, <1>7 DEF Turn, Full
  <2>2. lastEnd = "high"
    BY <1>10 DEF RampInv, RampTyped
  <2>3. ~led'
    <3>1. CASE toggles
      BY <1>4, <1>5, <2>1, <2>2, <3>1, Zenon
    <3>2. CASE ~toggles
      BY <1>4, <1>5, <3>2, Zenon
    <3> QED
      BY <3>1, <3>2
  <2>4. copy' = copy
    BY <1>3
  <2>5. led' <=> (lastEnd' = "high" /\ copy' \in Toggling)
    BY <2>1, <2>3, <2>4
  <2>6. wait' = (IF duty' \in {0, Full} THEN 1000 ELSE 20)
    BY <2>1
  <2>7. /\ up' => duty' < Full
        /\ ~up' => duty' > 0
    BY <2>1 DEF Full
  <2>8. /\ duty' = 0 => lastEnd' = "low"
        /\ duty' = Full => lastEnd' = "high"
    BY <2>1 DEF Full
  <2>9. /\ lastEnd' # "none"
        /\ lastEnd' = "low" => up'
        /\ lastEnd' = "high" => ~up'
    BY <2>1
  <2> QED
    BY <1>6, <1>8, <2>5, <2>6, <2>7, <2>8, <2>9 DEF RampInv, Toggling
<1>11. CASE ~(up /\ k = 49) /\ ~(~up /\ k = 1)
  <2>1. duty' # 0 /\ duty' # Full /\ duty' > 0 /\ duty' < Full
    BY <1>1, <1>2, <1>3, <1>11 DEF Full
  <2>2. up' <=> up
    BY <1>1, <1>2, <1>11, <1>7 DEF Turn, Full
  <2>3. lastEnd' = lastEnd /\ (led' <=> led) /\ wait' = 20
    BY <1>3, <1>4, <2>1
  <2>4. lastEnd' = "none" => up' /\ duty' >= 10000
    <3> SUFFICES ASSUME lastEnd' = "none" PROVE up' /\ duty' >= 10000
      OBVIOUS
    <3>1. up /\ duty >= 10000
      BY <2>3 DEF RampInv
    <3> QED
      BY <1>1, <1>3, <2>2, <3>1
  <2>5. /\ lastEnd' = "low" => up'
        /\ lastEnd' = "high" => ~up'
        /\ (led' <=> (lastEnd' = "high" /\ toggles))
    BY <1>5, <2>2, <2>3 DEF RampInv
  <2> QED
    BY <1>3, <1>6, <1>8, <2>1, <2>2, <2>3, <2>4, <2>5 DEF RampInv, Full, Toggling
<1> QED
  BY <1>9, <1>10, <1>11

\* The duty cycle of every copy stays within the period, meets both of its ends, and the
\* second LED is on from the upper end to the lower.
THEOREM RampIsTriangular == RampSpec => []RampInv
<1>1. RampInit => RampTyped /\ RampInv
  BY RampInitial
<1>2. (RampTyped /\ RampInv) /\ [RampNext]_rampVars => (RampTyped /\ RampInv)'
  <2> SUFFICES ASSUME RampTyped, RampInv, [RampNext]_rampVars PROVE RampTyped' /\ RampInv'
    OBVIOUS
  <2>1. CASE Ramp(TRUE) /\ copy \in Toggling
    BY <2>1, RampKeeps
  <2>2. CASE Ramp(FALSE) /\ copy \notin Toggling
    BY <2>2, RampKeeps
  <2>3. CASE UNCHANGED rampVars
    BY <2>3 DEF rampVars, RampTyped, RampInv
  <2> QED
    BY <2>1, <2>2, <2>3 DEF RampNext, vf610_ledTask, s32k_ledTask, stm32_ledTask,
       am57xx_ledTask, imx6_ledTask, linux_ledTask, Toggling
<1> QED
  BY <1>1, <1>2, PTL DEF RampSpec

-----------------------------------------------------------------------------
(* Handshake: HandInv is inductive.  A token is in the semaphore only when  *)
(* the last request has been answered, so a read that takes one takes its   *)
(* own; and a wait that gives up without being noticed ends the premise.    *)

LEMMA HandInitial == HandInit => HandInv
  BY DEF HandInit, HandInv, OneUnderWay

LEMMA HandKeeps == HandInv /\ [HandNext]_handVars => HandInv'
<1> SUFFICES ASSUME HandInv, [HandNext]_handVars PROVE HandInv'
  OBVIOUS
<1> USE DEF HandInv, OneUnderWay
<1>1. CASE \E what \in {"read", "write", "ping"} : Ask(what)
  BY <1>1 DEF Ask
<1>2. CASE op \in {"read", "write", "ping"} /\ Take /\ op' = "none" /\ UNCHANGED unnoticed
           /\ stale' \in {stale, (stale \/ answered # asked)}
  BY <1>2 DEF Take
<1>3. CASE op \in {"read", "write"} /\ Late /\ op' = "failed" /\ UNCHANGED <<timedOut, unnoticed, stale>>
  BY <1>3 DEF Late
<1>4. CASE Late /\ (timedOut' = TRUE \/ unnoticed' = TRUE)
  BY <1>4 DEF Late
<1>5. CASE AnswerComes
  BY <1>5 DEF AnswerComes
<1>6. CASE Isr
  BY <1>6 DEF Isr
<1>7. CASE UNCHANGED handVars
  BY <1>7 DEF handVars
<1>8. CASE mac_mdioWrite
  BY <1>1, <1>2, <1>3, <1>8 DEF mac_mdioWrite
<1>9. CASE mac_mdioRead
  BY <1>1, <1>2, <1>3, <1>4, <1>9 DEF mac_mdioRead
<1>10. CASE pingTask
  BY <1>1, <1>2, <1>4, <1>10 DEF pingTask
<1> QED
  BY <1>5, <1>6, <1>7, <1>8, <1>9, <1>10 DEF HandNext, ENET1_Handler, cpu2cpu_int1_isr

\* A read or ping takes the answer to another only after a time-out nobody noticed, however
\* many requests are made.
THEOREM AnswersAreTheirOwn == HandSpec => []AnswersMatch
<1>1. HandInv => AnswersMatch
  BY DEF HandInv, OneUnderWay, AnswersMatch
<1> QED
  BY <1>1, HandInitial, HandKeeps, PTL DEF HandSpec

-----------------------------------------------------------------------------
(* RgbTimer: while the LEDs are dark every pin is high, and the period that *)
(* runs is the one of the brightness; so when they are lit it is exactly    *)
(* those of the colour, for the rest of MaxTime.                            *)

RgbTyped ==
    /\ rgbBoard \in {"s32k", "kv4x"} /\ rgbPwm \in BOOLEAN /\ on \in BOOLEAN
    /\ rgbPins \subseteq Leds /\ state \in 0..7 /\ bright \in Int
DarkThenLit ==
    /\ pins \subseteq Leds
    /\ ~on => pins = Leds /\ bright \in 0..20 /\ armed = Period(rgbBoard, bright)
    /\ on /\ lastDark >= 0 => Leds \ pins = rgbPins /\ lastDark + armed = MaxTime
    /\ on /\ ~(lastDark >= 0) => pins = Leds
RgbInv ==
    /\ RgbTyped
    /\ ~rgbPwm => DarkThenLit
    /\ rgbPwm => \A l \in Leds \ rgbPins : dutyOf[l] = MaxTime
    /\ rgbBoard = "kv4x" => armed > 0

\* What a period is: no more than MaxTime, and on the kv4x neither 0 nor MaxTime.
LEMMA PeriodRange ==
    ASSUME NEW b \in {"s32k", "kv4x"}, NEW j \in 0..20
    PROVE  /\ Period(b, j) \in 0..MaxTime
           /\ b = "kv4x" => Period(b, j) > 0 /\ Period(b, j) < MaxTime
<1> DEFINE m == MaxTime - j * (MaxTime \div 20)
           p == Period(b, j)
<1>1. MaxTime = 21000
  BY DEF MaxTime
<1>2. m \in 0..21000
  <2>1. MaxTime \div 20 = 1050
    BY <1>1
  <2>2. m = 21000 - 1050 * j
    BY <1>1, <2>1
  <2>3. 0 <= 1050 * j /\ 1050 * j <= 21000 /\ 1050 * j \in Int
    OBVIOUS
  <2> HIDE DEF m
  <2> QED
    BY <2>2, <2>3
<1>3. p = IF b = "s32k" THEN m ELSE IF m = 0 THEN 100 ELSE IF m = MaxTime THEN MaxTime - 100 ELSE m
  BY DEF Period
<1> HIDE DEF m, p
<1>4. p \in 0..MaxTime
  <2>1. p \in {m, 100, 20900}
    BY <1>1, <1>3
  <2>2. 100 \in 0..21000 /\ 20900 \in 0..21000
    OBVIOUS
  <2> QED
    BY <1>1, <1>2, <2>1, <2>2
<1>5. ASSUME b = "kv4x" PROVE p > 0 /\ p < MaxTime
  <2>1. p = IF m = 0 THEN 100 ELSE IF m = 21000 THEN 20900 ELSE m
    BY <1>1, <1>3, <1>5
  <2>2. m \in Int /\ 0 <= m /\ m <= 21000
    BY <1>2
  <2>3. 0 < p /\ p < 21000
    BY <2>1, <2>2
  <2> QED
    BY <1>1, <2>3
<1> QED
  BY <1>4, <1>5 DEF p

LEMMA DimTyped ==
    ASSUME RgbTyped, Dim
    PROVE  rgbPins' \subseteq Leds /\ state' \in 0..7 /\ bright' \in 0..20
<1>1. bright' \in 0..20
  BY DEF RgbTyped, Dim, Clamp
<1>2. \A s \in 0..6 : Colour(s) \subseteq Leds
  BY DEF Colour, Leds
<1>3. CASE NextColour
  <2> DEFINE s == IF state = 7 THEN 0 ELSE state
  <2>1. s \in 0..6
    BY DEF RgbTyped
  <2>2. state' = s + 1 /\ rgbPins' = Colour(s)
    BY <1>3 DEF NextColour
  <2> HIDE DEF s
  <2> QED
    BY <1>1, <1>2, <2>1, <2>2
<1>4. CASE UNCHANGED <<state, rgbPins>>
  BY <1>1, <1>4 DEF RgbTyped
<1> QED
  BY <1>3, <1>4 DEF Dim

LEMMA RgbInitial == RgbInit => RgbInv
<1> SUFFICES ASSUME RgbInit PROVE RgbInv
  OBVIOUS
<1>1. MaxTime = 21000 /\ MaxTime \div 2 = 10500
  BY DEF MaxTime
<1>2. RgbTyped
  <2>1. on \in BOOLEAN /\ rgbBoard \in {"s32k", "kv4x"} /\ rgbPwm \in BOOLEAN
    BY Zenon DEF RgbInit
  <2> QED
    BY <1>1, <2>1 DEF RgbInit, RgbTyped, Leds
<1>3. DarkThenLit
  <2>1. on /\ pins = Leds /\ lastDark = -1
    BY Zenon DEF RgbInit
  <2> QED
    BY <2>1 DEF DarkThenLit
<1>4. \A l \in Leds : dutyOf[l] = MaxTime
  BY DEF RgbInit
<1>5. armed > 0
  BY <1>1 DEF RgbInit
<1> QED
  BY <1>2, <1>3, <1>4, <1>5 DEF RgbInv

LEMMA RgbPinsStep ==
    ASSUME RgbInv, NEW b \in {"s32k", "kv4x"}, PinsIrq(b)
    PROVE  RgbInv'
<1>1. /\ RgbTyped /\ DarkThenLit /\ rgbBoard = b /\ ~rgbPwm
      /\ rgbBoard' = b /\ ~rgbPwm' /\ rgbPwm' \in BOOLEAN
  BY DEF RgbInv, RgbTyped, PinsIrq
<1>2. CASE on
  <2>1. /\ pins' = pins \union rgbPins /\ Dim /\ on' = FALSE
        /\ armed' = Period(b, bright') /\ lastDark' = lastDark
    BY <1>2 DEF PinsIrq, Switch
  <2>2. rgbPins' \subseteq Leds /\ state' \in 0..7 /\ bright' \in 0..20
    BY <1>1, <2>1, DimTyped
  <2>3. pins' = Leds
    BY <1>1, <1>2, <2>1 DEF DarkThenLit, RgbTyped
  <2>4. b = "kv4x" => armed' > 0
    BY <2>1, <2>2, PeriodRange
  <2>5. RgbTyped'
    <3>1. on' \in BOOLEAN
      BY <2>1
    <3> QED
      BY <1>1, <2>2, <3>1 DEF RgbTyped
  <2>6. DarkThenLit'
    BY <1>1, <2>1, <2>2, <2>3 DEF DarkThenLit
  <2> QED
    BY <1>1, <2>4, <2>5, <2>6 DEF RgbInv
<1>3. CASE ~on
  <2>1. /\ pins' = pins \ rgbPins /\ UNCHANGED <<bright, state, rgbPins>> /\ on' = TRUE
        /\ armed' = MaxTime - Period(b, bright') /\ lastDark' = armed
    BY <1>3 DEF PinsIrq, Switch
  <2>2. pins = Leds /\ bright \in 0..20 /\ armed = Period(b, bright)
    BY <1>1, <1>3 DEF DarkThenLit
  <2>3. armed \in 0..MaxTime /\ (b = "kv4x" => armed < MaxTime)
    BY <2>2, PeriodRange
  <2>4. armed' = MaxTime - armed
    BY <2>1, <2>2
  <2>5. lastDark' >= 0 /\ lastDark' + armed' = MaxTime /\ (b = "kv4x" => armed' > 0)
    BY <2>1, <2>3, <2>4 DEF MaxTime
  <2>6. Leds \ pins' = rgbPins' /\ pins' \subseteq Leds
    BY <1>1, <2>1, <2>2 DEF RgbTyped
  <2>7. RgbTyped'
    <3>1. on' \in BOOLEAN
      BY <2>1
    <3> QED
      BY <1>1, <2>1, <3>1 DEF RgbTyped
  <2>8. DarkThenLit'
    BY <2>1, <2>5, <2>6 DEF DarkThenLit
  <2> QED
    BY <1>1, <2>5, <2>7, <2>8 DEF RgbInv
<1> QED
  BY <1>2, <1>3

LEMMA RgbPwmStep ==
    ASSUME RgbInv, NEW b \in {"s32k", "kv4x"}, PwmIrq(b)
    PROVE  RgbInv'
<1>1. /\ RgbTyped /\ rgbBoard = b /\ rgbPwm /\ Dim
      /\ UNCHANGED <<rgbBoard, rgbPwm, on, armed>>
  BY DEF RgbInv, PwmIrq
<1>2. rgbPins' \subseteq Leds /\ state' \in 0..7 /\ bright' \in 0..20
  BY <1>1, DimTyped
<1>3. \A l \in Leds \ rgbPins' : dutyOf'[l] = MaxTime
  BY DEF PwmIrq
<1>4. RgbTyped'
  BY <1>1, <1>2 DEF RgbTyped
<1> QED
  BY <1>1, <1>3, <1>4 DEF RgbInv

LEMMA LitIsTheColour == RgbInit /\ [][RgbNext]_rgbVars => []OnlyColourLit
<1>1. RgbInv /\ [RgbNext]_rgbVars => RgbInv'
  <2> SUFFICES ASSUME RgbInv, [RgbNext]_rgbVars PROVE RgbInv'
    OBVIOUS
  <2>1. CASE UNCHANGED rgbVars
    BY <2>1 DEF rgbVars, RgbInv, RgbTyped, DarkThenLit
  <2>2. CASE RgbNext
    BY <2>2, RgbPinsStep, RgbPwmStep DEF RgbNext, s32k_irqhandle, kv4x_irqhandle
  <2> QED
    BY <2>1, <2>2
<1>2. RgbInv => OnlyColourLit
  BY DEF RgbInv, RgbTyped, DarkThenLit, OnlyColourLit
<1> QED
  BY <1>1, <1>2, RgbInitial, PTL

\* Only LEDs of the colour are ever lit, dark and lit time make up one period, and the kv4x
\* never arms a period of 0, whatever the reading of the ADC.
THEOREM LightIsTheColour == RgbSpec => []OnlyColourLit
BY LitIsTheColour, PTL DEF RgbSpec

-----------------------------------------------------------------------------
(* Mailbox: the words in the queue to the other core, the one in the hand   *)
(* of the task and those in the queue to the task are consecutive numbers.  *)

Held == IF receiving THEN 0 ELSE 1
MailTyped ==
    /\ toTask \in Seq(Nat) /\ toPeer \in Seq(Nat) /\ word \in Nat
    /\ receiving \in BOOLEAN /\ sent \in Nat /\ got \in Nat
MailInv ==
    /\ MailTyped
    /\ Len(toTask) <= Capacity /\ Len(toPeer) <= Capacity
    /\ \A k \in 1..Len(toPeer) : toPeer[k] = got + k
    /\ ~receiving => word = got + Len(toPeer) + 1
    /\ \A k \in 1..Len(toTask) : toTask[k] = got + Len(toPeer) + Held + k
    /\ got + Len(toPeer) + Held + Len(toTask) = sent

LEMMA MailInitial == MailInit => MailInv
  BY MailboxAssumption DEF MailInit, MailInv, MailTyped, Held

LEMMA MailReceives == ASSUME MailInv, mailbox_recv PROVE MailInv'
<1> USE DEF MailInv, MailTyped, Held
<1>1. /\ Len(toTask) > 0 /\ toTask[1] = got + Len(toPeer) + 1
      /\ word' = toTask[1] /\ toTask' = Tail(toTask) /\ receiving /\ receiving' = FALSE
      /\ UNCHANGED <<toPeer, sent, got>>
  BY DEF mailbox_recv
<1>2. /\ toTask' \in Seq(Nat) /\ Len(toTask') = Len(toTask) - 1
      /\ \A k \in 1..Len(toTask') : toTask'[k] = toTask[k + 1]
  BY <1>1
<1>3. MailTyped'
  <2>1. receiving' \in BOOLEAN
    BY <1>1
  <2> QED
    BY <1>1, <1>2, <2>1
<1>4. Held = 0 /\ Held' = 1
  BY <1>1
<1>5. \A k \in 1..Len(toPeer') : toPeer'[k] = got' + k
  BY <1>1, <1>2
<1>6. ~receiving' => word' = got' + Len(toPeer') + 1
  BY <1>1, <1>2
<1>7. \A k \in 1..Len(toTask') : toTask'[k] = got' + Len(toPeer') + Held' + k
  BY <1>1, <1>2, <1>4
<1>8. /\ Len(toTask) \in 0..Capacity /\ Len(toPeer) \in 0..Capacity
      /\ got + Len(toPeer) + Held + Len(toTask) = sent
      /\ sent \in Nat /\ got \in Nat /\ Capacity \in Int
  BY MailboxAssumption
<1> HIDE DEF MailInv, MailTyped, Held
<1>9. /\ Len(toTask') <= Capacity /\ Len(toPeer') <= Capacity
      /\ got' + Len(toPeer') + Held' + Len(toTask') = sent'
  BY <1>1, <1>2, <1>4, <1>8
<1> QED
  BY <1>3, <1>5, <1>6, <1>7, <1>9 DEF MailInv

LEMMA MailSends == ASSUME MailInv, mailbox_send PROVE MailInv'
<1> USE DEF MailInv, MailTyped, Held
<1>1. /\ Len(toPeer) < Capacity /\ toPeer' = Append(toPeer, word) /\ ~receiving /\ receiving' = TRUE
      /\ UNCHANGED <<toTask, word, sent, got>>
  BY DEF mailbox_send
<1>2. /\ toPeer' \in Seq(Nat) /\ Len(toPeer') = Len(toPeer) + 1
      /\ \A k \in 1..Len(toPeer) : toPeer'[k] = toPeer[k]
      /\ toPeer'[Len(toPeer) + 1] = word
  BY <1>1
<1>3. MailTyped'
  <2>1. receiving' \in BOOLEAN
    BY <1>1
  <2> QED
    BY <1>1, <1>2, <2>1
<1>4. Held = 1 /\ Held' = 0
  BY <1>1
<1>5. \A k \in 1..Len(toPeer') : toPeer'[k] = got' + k
  <2> SUFFICES ASSUME NEW k \in 1..Len(toPeer) + 1 PROVE toPeer'[k] = got' + k
    BY <1>2
  <2>1. CASE k = Len(toPeer) + 1
    BY <1>1, <1>2, <2>1
  <2>2. CASE k \in 1..Len(toPeer)
    BY <1>1, <1>2, <2>2
  <2> QED
    BY <2>1, <2>2
<1>6. ~receiving' => word' = got' + Len(toPeer') + 1
  BY <1>1, <1>2
<1>7. \A k \in 1..Len(toTask') : toTask'[k] = got' + Len(toPeer') + Held' + k
  BY <1>1, <1>2, <1>4
<1>8. /\ Len(toTask) \in 0..Capacity /\ Len(toPeer) \in 0..Capacity
      /\ got + Len(toPeer) + Held + Len(toTask) = sent
      /\ sent \in Nat /\ got \in Nat /\ Capacity \in Int
  BY MailboxAssumption
<1> HIDE DEF MailInv, MailTyped, Held
<1>9. /\ Len(toTask') <= Capacity /\ Len(toPeer') <= Capacity
      /\ got' + Len(toPeer') + Held' + Len(toTask') = sent'
  <2>1. /\ toTask' = toTask /\ sent' = sent /\ got' = got
        /\ Len(toPeer') = Len(toPeer) + 1 /\ Len(toPeer) < Capacity
    BY <1>1, <1>2
  <2> QED
    BY <1>4, <1>8, <2>1
<1> QED
  BY <1>3, <1>5, <1>6, <1>7, <1>9 DEF MailInv

LEMMA PeerSent == ASSUME MailInv, PeerSends PROVE MailInv'
<1> USE DEF MailInv, MailTyped, Held
<1>1. /\ Len(toTask) < Capacity
      /\ sent' = sent + 1 /\ toTask' = Append(toTask, sent + 1)
      /\ UNCHANGED <<toPeer, word, receiving, got>>
  BY DEF PeerSends
<1>2. /\ toTask' \in Seq(Nat) /\ Len(toTask') = Len(toTask) + 1
      /\ \A k \in 1..Len(toTask) : toTask'[k] = toTask[k]
      /\ toTask'[Len(toTask) + 1] = sent + 1
  BY <1>1
<1>3. MailTyped'
  <2>1. receiving' \in BOOLEAN
    BY <1>1
  <2> QED
    BY <1>1, <1>2, <2>1
<1>4. Held' = Held /\ Held \in 0..1
  BY <1>1
<1>5. \A k \in 1..Len(toPeer') : toPeer'[k] = got' + k
  BY <1>1, <1>2
<1>6. ~receiving' => word' = got' + Len(toPeer') + 1
  BY <1>1, <1>2
<1>7. \A k \in 1..Len(toTask') : toTask'[k] = got' + Len(toPeer') + Held' + k
  BY <1>1, <1>2, <1>4
<1>8. /\ Len(toTask) \in 0..Capacity /\ Len(toPeer) \in 0..Capacity
      /\ got + Len(toPeer) + Held + Len(toTask) = sent
      /\ sent \in Nat /\ got \in Nat /\ Capacity \in Int
  BY MailboxAssumption
<1> HIDE DEF MailInv, MailTyped, Held
<1>9. /\ Len(toTask') <= Capacity /\ Len(toPeer') <= Capacity
      /\ got' + Len(toPeer') + Held' + Len(toTask') = sent'
  BY <1>1, <1>2, <1>4, <1>8
<1> QED
  BY <1>3, <1>5, <1>6, <1>7, <1>9 DEF MailInv

LEMMA PeerGot == ASSUME MailInv, PeerReads PROVE MailInv'
<1> USE DEF MailInv, MailTyped, Held
<1>1. /\ Len(toPeer) > 0 /\ got' = toPeer[1] /\ toPeer[1] = got + 1 /\ toPeer' = Tail(toPeer)
      /\ UNCHANGED <<toTask, word, receiving, sent>>
  BY DEF PeerReads
<1>2. /\ toPeer' \in Seq(Nat) /\ Len(toPeer') = Len(toPeer) - 1
      /\ \A k \in 1..Len(toPeer') : toPeer'[k] = toPeer[k + 1]
  BY <1>1
<1>3. MailTyped'
  <2>1. receiving' \in BOOLEAN
    BY <1>1
  <2> QED
    BY <1>1, <1>2, <2>1
<1>4. Held' = Held /\ Held \in 0..1
  BY <1>1
<1>5. \A k \in 1..Len(toPeer') : toPeer'[k] = got' + k
  BY <1>1, <1>2
<1>6. ~receiving' => word' = got' + Len(toPeer') + 1
  BY <1>1, <1>2
<1>7. \A k \in 1..Len(toTask') : toTask'[k] = got' + Len(toPeer') + Held' + k
  BY <1>1, <1>2, <1>4
<1>8. /\ Len(toTask) \in 0..Capacity /\ Len(toPeer) \in 0..Capacity
      /\ got + Len(toPeer) + Held + Len(toTask) = sent
      /\ sent \in Nat /\ got \in Nat /\ Capacity \in Int
  BY MailboxAssumption
<1> HIDE DEF MailInv, MailTyped, Held
<1>9. /\ Len(toTask') <= Capacity /\ Len(toPeer') <= Capacity
      /\ got' + Len(toPeer') + Held' + Len(toTask') = sent'
  BY <1>1, <1>2, <1>4, <1>8
<1> QED
  BY <1>3, <1>5, <1>6, <1>7, <1>9 DEF MailInv

LEMMA MailInOrder == MailInv => EchoCorrect
<1> SUFFICES ASSUME MailInv PROVE EchoCorrect
  OBVIOUS
<1> DEFINE hand == IF receiving THEN <<>> ELSE <<word>>
<1>1. /\ hand \in Seq(Nat) /\ Len(hand) = Held /\ Held \in 0..1
      /\ \A k \in 1..Held : hand[k] = got + Len(toPeer) + k
  <2>1. CASE receiving
    BY <2>1 DEF Held
  <2>2. CASE ~receiving
    <3>1. hand = <<word>> /\ Held = 1 /\ word = got + Len(toPeer) + 1 /\ word \in Nat
      BY <2>2 DEF MailInv, MailTyped, Held
    <3> HIDE DEF hand
    <3>2. hand \in Seq(Nat) /\ Len(hand) = 1 /\ hand[1] = word
      BY <3>1
    <3> QED
      BY <3>1, <3>2
  <2> QED
    BY <2>1, <2>2
<1>2. OnTheWay = toPeer \o hand \o toTask
  BY DEF OnTheWay
<1> HIDE DEF hand
<1>3. /\ OnTheWay \in Seq(Nat)
      /\ Len(OnTheWay) = Len(toPeer) + Held + Len(toTask)
  <2> DEFINE front == toPeer \o hand
  <2>1. toPeer \in Seq(Nat) /\ toTask \in Seq(Nat)
    BY DEF MailInv, MailTyped
  <2>2. front \in Seq(Nat) /\ Len(front) = Len(toPeer) + Held
    BY <1>1, <2>1
  <2>3. OnTheWay = front \o toTask
    BY <1>2
  <2> HIDE DEF front, hand
  <2> HIDE DEF MailInv, Held
  <2> QED
    BY <1>1, <2>1, <2>2, <2>3
<1>4. \A k \in DOMAIN OnTheWay : OnTheWay[k] = got + k
  <2> SUFFICES ASSUME NEW k \in 1..Len(OnTheWay) PROVE OnTheWay[k] = got + k
    BY <1>3
  <2>1. CASE k <= Len(toPeer)
    BY <1>1, <1>2, <1>3, <2>1 DEF MailInv, MailTyped
  <2>2. CASE k > Len(toPeer) /\ k <= Len(toPeer) + Held
    BY <1>1, <1>2, <1>3, <2>2 DEF MailInv, MailTyped
  <2>3. CASE k > Len(toPeer) + Held
    <3> DEFINE front == toPeer \o hand
    <3>1. front \in Seq(Nat) /\ Len(front) = Len(toPeer) + Held
      BY <1>1 DEF MailInv, MailTyped
    <3>2. OnTheWay = front \o toTask
      BY <1>2
    <3> HIDE DEF front
    <3>3. k \in Len(front) + 1 .. Len(front) + Len(toTask) /\ toTask \in Seq(Nat)
      BY <1>1, <1>3, <2>3, <3>1 DEF MailInv, MailTyped
    <3>4. OnTheWay[k] = toTask[k - Len(front)]
      BY <3>1, <3>2, <3>3
    <3>5. k - Len(front) \in 1..Len(toTask)
      BY <1>1, <1>3, <2>3, <3>1 DEF MailInv, MailTyped
    <3> QED
      BY <1>1, <3>1, <3>4, <3>5 DEF MailInv, MailTyped
  <2> QED
    BY <1>1, <1>3, <2>1, <2>2, <2>3 DEF MailInv, MailTyped
<1>5. got + Len(OnTheWay) = sent
  BY <1>1, <1>3 DEF MailInv, MailTyped
<1> QED
  BY <1>4, <1>5 DEF EchoCorrect, MailInv

\* The echo loses, doubles and overtakes nothing, for queues of every size and however far
\* the other core goes ahead of the answers, up to where both wait for ever.
THEOREM EchoIsFaithful == MailSpec => []EchoCorrect
<1>1. MailInv /\ [MailNext]_mailVars => MailInv'
  <2> SUFFICES ASSUME MailInv, [MailNext]_mailVars PROVE MailInv'
    OBVIOUS
  <2>1. CASE UNCHANGED mailVars
    BY <2>1 DEF mailVars, MailInv, MailTyped, Held
  <2>2. CASE MailNext
    <3>1. ASSUME PeerBegins PROVE MailInv'
      BY <3>1 DEF PeerBegins, MailInv, MailTyped, Held
    <3> QED
      BY <2>2, <3>1, MailReceives, MailSends, PeerSent, PeerGot DEF MailNext, mailbox_testTask
  <2> QED
    BY <2>1, <2>2
<1> QED
  BY <1>1, MailInitial, MailInOrder, PTL DEF MailSpec

-----------------------------------------------------------------------------
(* PwmTest: the width between two edges that are judged is known, because    *)
(* the last capture is that of the edge before, or n is near an end.         *)

\* A step of the ramp; an end turns it.
Ramping ==
    /\ \E k \in 0 .. 40 : n = 500 * k
    /\ upward \in BOOLEAN
    /\ upward => n < PwmPeriod
    /\ ~upward => n > 0

\* A sound output has the duty cycle set last before this period.
Follows ==
    /\ ~ran => n = output
    /\ ran => n = output + 500 \/ n = output - 500
    /\ fell => output \notin {0, PwmPeriod}
    /\ output \in 0 .. PwmPeriod

\* The last capture: the fall of this period, or its rise; a period of full duty has no edges, and the
\* next one has no rise.
LastEdge ==
    \/ us = 0
    \/ fell /\ us = At(output)
    \/ ~fell /\ (output = 0 \/ output >= 19500 \/ us = base)

PwmInv == base \in 0 .. CapturePeriod - 1 /\ Ramping /\ (~stuck => Follows /\ LastEdge /\ ~alarm)

LEMMA PwmInitial == PwmInit => PwmInv
<1> SUFFICES ASSUME PwmInit PROVE PwmInv
  OBVIOUS
<1>1. base \in 0 .. CapturePeriod - 1 /\ ~alarm /\ ~fell /\ ~ran /\ upward
  BY PwmAssumption DEF PwmInit
<1>2. Ramping
  <2>1. 20 \in 0 .. 40 /\ n = 500 * 20
    BY DEF PwmInit
  <2>2. n < PwmPeriod
    BY DEF PwmInit, PwmPeriod
  <2> QED
    BY <1>1, <2>1, <2>2 DEF Ramping, PwmInit
<1>3. Follows /\ LastEdge
  BY <1>1 DEF PwmInit, Follows, LastEdge, PwmPeriod
<1> QED
  BY <1>1, <1>2, <1>3 DEF PwmInv

\* Where the capture counter is later in the period, and what a difference of captures then means.
LEMMA Wraps ==
    ASSUME NEW P \in Nat, P > 0, NEW x \in 0 .. P + P - 1
    PROVE  x % P = IF x < P THEN x ELSE x - P
<1>1. CASE x < P
  BY <1>1
<1>2. CASE x >= P
  <2>1. x = P * 1 + (x - P) /\ x - P \in 0 .. P - 1
    BY <1>2
  <2> QED
    BY <1>2, <2>1
<1> QED
  BY <1>1, <1>2

LEMMA CaptureAt ==
    ASSUME base \in 0 .. CapturePeriod - 1, NEW x \in 0 .. PwmPeriod
    PROVE  /\ At(x) \in 0 .. CapturePeriod - 1
           /\ At(x) = IF base + x < CapturePeriod THEN base + x ELSE base + x - CapturePeriod
<1>1. CapturePeriod \in Nat /\ CapturePeriod > 0 /\ base + x \in 0 .. CapturePeriod + CapturePeriod - 1
  <2>1. CapturePeriod = 30000 /\ PwmPeriod = 20000
    BY DEF CapturePeriod, PwmPeriod
  <2>2. base \in 0 .. 29999 /\ x \in 0 .. 20000
    BY SMTT(20), <2>1
  <2>3. base + x \in Int /\ 0 <= base + x /\ base + x <= 59999
    BY <2>2
  <2>4. CapturePeriod + CapturePeriod - 1 = 59999
    BY <2>1
  <2>5. CapturePeriod \in Nat
    BY <2>1
  <2>6. CapturePeriod > 0
    BY <2>1
  <2>7. base + x \in 0 .. CapturePeriod + CapturePeriod - 1
    BY <2>3, <2>4
  <2> QED
    BY <2>5, <2>6, <2>7
<1>2. At(x) = IF base + x < CapturePeriod THEN base + x ELSE base + x - CapturePeriod
  BY <1>1, Wraps DEF At
<1> QED
  BY <1>1, <1>2

\* An edge that is not judged, or has a plausible width, raises no alarm.
LEMMA CaptureIs ==
    ASSUME NEW time, NEW crit, captureIRQ(time, crit), Judges(crit, time, us) => Plausible(time - us)
    PROVE  us' = time /\ ~alarm'
<1>1. us' = time /\ alarm' = (Judges(crit, time, us) /\ ~Plausible(time - us))
  BY DEF captureIRQ
<1> QED
  BY <1>1, Zenon

LEMMA TaskKeeps == PwmInv /\ pwmTask => PwmInv'
<1> SUFFICES ASSUME PwmInv, pwmTask PROVE PwmInv'
  OBVIOUS
<1>1. PICK k \in 0 .. 40 : n = 500 * k
  BY DEF PwmInv, Ramping
<1>2. /\ n' = IF upward THEN n + 500 ELSE n - 500
      /\ upward' = IF upward THEN n < 19500 ELSE n <= 500
      /\ ran' = TRUE /\ ~ran
      /\ UNCHANGED <<us, start, alarm, output, stuck, base, fell>>
  BY DEF pwmTask
<1> DEFINE turn == IF upward THEN n < 19500 ELSE n <= 500
<1>3. upward' \in BOOLEAN
  <2>1. CASE upward
    BY <1>2, <2>1
  <2>2. CASE ~upward
    BY <1>2, <2>2
  <2> QED
    BY <2>1, <2>2
<1>4. upward' <=> turn
  <2>1. upward' = turn
    BY <1>2
  <2> HIDE DEF turn
  <2> QED
    BY <1>3, <2>1, Zenon
<1>5. Ramping'
  <2>1. CASE upward
    <3>1. k + 1 \in 0 .. 40 /\ n' = 500 * (k + 1) /\ (upward' => n' < PwmPeriod) /\ n' > 0
      BY <1>1, <1>2, <1>4, <2>1 DEF PwmInv, Ramping, PwmPeriod
    <3> QED
      BY <1>3, <3>1 DEF Ramping
  <2>2. CASE ~upward
    <3>1. k - 1 \in 0 .. 40 /\ n' = 500 * (k - 1) /\ (~upward' => n' > 0) /\ n' < PwmPeriod
      BY <1>1, <1>2, <1>4, <2>2 DEF PwmInv, Ramping, PwmPeriod
    <3> QED
      BY <1>3, <3>1 DEF Ramping
  <2> QED
    BY <2>1, <2>2
<1>6. ~stuck => Follows' /\ LastEdge' /\ ~alarm'
  BY <1>1, <1>2 DEF PwmInv, Follows, LastEdge, At
<1> QED
  BY <1>2, <1>5, <1>6 DEF PwmInv

\* At a fall the duty cycle is that of this period; n is as set for it, or a step on.
LEMMA FallKeeps == PwmInv /\ Falls => PwmInv'
<1> SUFFICES ASSUME PwmInv, Falls PROVE PwmInv'
  OBVIOUS
<1>1. PICK k \in 0 .. 40 : n = 500 * k
  BY DEF PwmInv, Ramping
<1> DEFINE crit == ~ran /\ output = place
<1>2. /\ captureIRQ(At(output), crit)
      /\ output \notin {0, PwmPeriod} /\ ~fell /\ fell' = TRUE
      /\ UNCHANGED <<n, upward, output, stuck, base, ran>>
  BY Zenon DEF Falls
<1> HIDE DEF crit
<1>3. ASSUME ~stuck PROVE us' = At(output) /\ ~alarm'
  <2>1. ASSUME Judges(crit, At(output), us) PROVE Plausible(At(output) - us)
    <3>1. output \in 0 .. PwmPeriod /\ 0 < output /\ output < PwmPeriod
      <4>1. output \in 0 .. PwmPeriod /\ output # 0 /\ output # PwmPeriod
        BY <1>2, <1>3 DEF PwmInv, Follows
      <4> QED
        BY <4>1 DEF PwmPeriod
    <3>2. us = base
      BY <1>1, <1>2, <1>3, <2>1, <3>1 DEF PwmInv, Follows, LastEdge, Judges
    <3>c. At(output) = IF base + output < CapturePeriod THEN base + output ELSE base + output - CapturePeriod
      BY <3>1, CaptureAt DEF PwmInv
    <3>3. At(output) - us = output
      BY <2>1, <3>1, <3>2, <3>c DEF PwmInv, Judges, CapturePeriod, PwmPeriod
    <3>4. Near(output)
      BY <1>1, <1>3, <3>1 DEF PwmInv, Follows, Near, MAX_DIFF
    <3> QED
      BY <3>3, <3>4 DEF Plausible
  <2> QED
    BY <1>2, <2>1, CaptureIs DEF PwmInv
<1>6. Ramping'
  BY <1>2 DEF PwmInv, Ramping
<1>7. ~stuck => Follows' /\ LastEdge' /\ ~alarm'
  BY <1>2, <1>3 DEF PwmInv, Follows, LastEdge, At
<1> QED
  BY <1>2, <1>6, <1>7 DEF PwmInv

\* At a rise the width is the rest of the period that ends; one that follows an edge further back is
\* too near an end of the ramp to be judged.
LEMMA RiseKeeps == PwmInv /\ Rises => PwmInv'
<1> SUFFICES ASSUME PwmInv, Rises PROVE PwmInv'
  OBVIOUS
<1>1. PICK k \in 0 .. 40 : n = 500 * k
  BY DEF PwmInv, Ramping
<1>2. /\ ran /\ (fell \/ output \in {0, PwmPeriod})
      /\ output' = IF stuck THEN output ELSE n
      /\ base' = At(PwmPeriod) /\ ran' = FALSE /\ fell' = FALSE
      /\ UNCHANGED <<n, upward, stuck>>
  BY DEF Rises
<1> DEFINE visible == output < PwmPeriod /\ output' > 0
<1>3. /\ visible => captureIRQ(At(PwmPeriod), FALSE)
      /\ ~visible => UNCHANGED <<us, alarm, start>>
  BY DEF Rises
<1>4. At(PwmPeriod) \in 0 .. CapturePeriod - 1
  <2>1. PwmPeriod \in 0 .. PwmPeriod
    BY DEF PwmPeriod
  <2> QED
    BY <2>1, CaptureAt DEF PwmInv
<1>5. ASSUME ~stuck, visible PROVE us' = At(PwmPeriod) /\ ~alarm'
  <2>1. ASSUME Judges(FALSE, At(PwmPeriod), us) PROVE Plausible(At(PwmPeriod) - us)
    <3>1. /\ output \in 0 .. PwmPeriod /\ n - 500 <= output /\ output <= n + 500
          /\ 0 < output /\ output < PwmPeriod
      <4>1. output \in 0 .. PwmPeriod /\ (n = output + 500 \/ n = output - 500)
        BY <1>2, <1>5 DEF PwmInv, Follows
      <4>2. 1000 < n /\ n < 19000
        BY <2>1 DEF Judges
      <4> QED
        BY <4>1, <4>2 DEF PwmPeriod
    <3>2. fell /\ us = At(output)
      BY <1>2, <1>5, <2>1, <3>1 DEF PwmInv, LastEdge, Judges
    <3>c. \A x \in {output, PwmPeriod} :
             At(x) = IF base + x < CapturePeriod THEN base + x ELSE base + x - CapturePeriod
      <4>1. \A x \in {output, PwmPeriod} : x \in 0 .. PwmPeriod
        BY <3>1 DEF PwmPeriod
      <4> QED
        BY <4>1, CaptureAt DEF PwmInv
    <3>3. At(PwmPeriod) - us = PwmPeriod - output
      BY <2>1, <3>1, <3>2, <3>c DEF PwmInv, Judges, CapturePeriod, PwmPeriod
    <3>4. Near(PwmPeriod - (PwmPeriod - output)) /\ PwmPeriod - output <= PwmPeriod
      BY <1>1, <3>1 DEF Near, MAX_DIFF, PwmPeriod
    <3> QED
      BY <3>3, <3>4 DEF Plausible
  <2> QED
    BY <1>3, <1>5, <2>1, CaptureIs DEF PwmInv
<1>8. Ramping'
  BY <1>2 DEF PwmInv, Ramping
<1>9. ~stuck => Follows' /\ LastEdge' /\ ~alarm'
  <2> SUFFICES ASSUME ~stuck PROVE Follows' /\ LastEdge' /\ ~alarm'
    OBVIOUS
  <2>1. output' = n /\ n \in 0 .. PwmPeriod
    BY <1>1, <1>2 DEF PwmPeriod
  <2>2. Follows'
    BY <1>2, <2>1 DEF Follows
  <2>3. CASE visible
    BY <1>2, <1>5, <2>1, <2>2, <2>3 DEF LastEdge
  <2>4. CASE ~visible
    <3>1. output' = 0 \/ output' >= 19500
      BY SMTT(20), <1>1, <1>2, <2>1, <2>4 DEF PwmInv, Follows, PwmPeriod
    <3> QED
      BY <1>2, <1>3, <2>2, <2>4, <3>1 DEF PwmInv, LastEdge
  <2> QED
    BY <2>3, <2>4
<1> QED
  BY <1>2, <1>4, <1>8, <1>9 DEF PwmInv

LEMMA WireIsQuiet == PwmInit /\ [][PwmNext]_pwmVars => []NoFalseAlarm
<1>1. PwmInv /\ [PwmNext]_pwmVars => PwmInv'
  <2> SUFFICES ASSUME PwmInv, [PwmNext]_pwmVars PROVE PwmInv'
    OBVIOUS
  <2>1. CASE UNCHANGED pwmVars
    BY <2>1 DEF pwmVars, PwmInv, Ramping, Follows, LastEdge, At
  <2>2. CASE PwmNext
    BY <2>2, TaskKeeps, FallKeeps, RiseKeeps DEF PwmNext
  <2> QED
    BY <2>1, <2>2
<1>2. PwmInv => NoFalseAlarm
  BY DEF PwmInv, NoFalseAlarm
<1> QED
  BY <1>1, <1>2, PwmInitial, PTL

\* pwmtest.c: on a wire that works the assertion of captureIRQ never fails, wherever in the period the
\* task runs and wherever the capture counter starts.
THEOREM PwmIsQuiet == PwmSpec => []NoFalseAlarm
BY WireIsQuiet, PTL DEF PwmSpec

-----------------------------------------------------------------------------
(* CanPair: what is in the controllers is what the filters let through, and  *)
(* two boards that both wait have not both lost the frame.                   *)

CanTyped ==
    /\ at \in [Board -> {"start", "go", "wait", "answer", "failed"}]
    /\ canUp \in [Board -> BOOLEAN] /\ filters \in [Board -> BOOLEAN] /\ round \in [Board -> BOOLEAN]
    /\ inbox \in [Board -> Seq(Int)] /\ held \in [Board -> Int]
    /\ toolLeft \in Int /\ toolLeft <= ToolFrames
    /\ \A b \in Board : at[b] # "start" => canUp[b] /\ filters[b]

Frames(b) == {inbox[b][k] : k \in 1 .. Len(inbox[b])}

\* Two echo tests without a tool: somebody works, or a frame is on its way.
TwoEchoes == pair[1] \in Echo /\ pair[2] \in Echo /\ toolLeft = ToolFrames
EchoPart ==
    TwoEchoes =>
        /\ \A b \in Board : at[b] \in {"start", "go", "wait"} /\ Frames(b) \subseteq {TestId}
        /\ \E b \in Board : at[b] # "wait" \/ inbox[b] # <<>>

\* Two DCAN tests: once one of them has sent, the one that was there first has got a frame, or gets
\* one; and nobody gives up on a board that has not sent.
TwoDcan == pair[1] = "dcan" /\ pair[2] = "dcan"
HasSent(b) == at[b] \in {"wait", "failed"}
Satisfied(b) == at[b] = "wait" /\ (round[b] \/ inbox[b] # <<>>)
DcanPart ==
    TwoDcan =>
        /\ \A b \in Board : at[b] # "answer" /\ (at[b] = "failed" => HasSent(Other(b)))
        /\ (\A b \in Board : HasSent(b)) => \E b \in Board : Satisfied(b)

\* An answering board holds what its filter lets through, which no answer is.
InRange(id) == 288 <= id /\ id <= 303
Tested(b) == ToolIds \union (IF pair[Other(b)] \in Echo THEN {TestId} ELSE {})
AnswerPart ==
    \A b \in Board : pair[b] \in Answer =>
        /\ at[b] = "answer" => InRange(held[b])
        /\ \A id \in Frames(b) : InRange(id) /\ id \in Tested(b)

CanPairInv == CanTyped /\ EchoPart /\ DcanPart /\ AnswerPart

-----------------------------------------------------------------------------
LEMMA TwoBoards ==
    /\ Board = {1, 2} /\ 1 \in Board /\ 2 \in Board
    /\ \A b \in Board : Other(b) \in Board /\ Other(b) # b /\ Other(Other(b)) = b
    /\ \A b, c \in Board : c = b \/ c = Other(b)
BY DEF Board, Other

LEMMA Identifiers ==
    /\ DcanId \in Int /\ TestId = 291 /\ InRange(TestId)
    /\ \A test : test # "dcan" => Passes(test, TestId) /\ ~Passes(test, DcanId)
    /\ \A test : \A id \in Int : test # "dcan" /\ Passes(test, id) => InRange(id)
<1>1. 2 ^ 29 \in Int /\ 291 < 2 ^ 29
  OBVIOUS
<1>2. DcanId \in Int /\ ~(DcanId < 2 ^ 29)
  BY <1>1 DEF DcanId
<1>3. \A id \in Int : id \div 16 = 291 \div 16 => InRange(id)
  BY DEF InRange
<1> QED
  BY <1>1, <1>2, <1>3 DEF TestId, Passes, InRange

\* A frame that arrives at a controller, is sent, and is taken.
LEMMA KeptIs ==
    ASSUME CanTyped, NEW b \in Board, NEW id \in Int
    PROVE  /\ Kept(b, id) \in Seq(Int)
           /\ \A k \in 1 .. Len(Kept(b, id)) :
                 Kept(b, id)[k] \in Frames(b) \/ (Kept(b, id)[k] = id /\ Passes(pair[b], id))
           /\ inbox[b] # <<>> => Kept(b, id) # <<>>
           /\ canUp[b] /\ filters[b] /\ Passes(pair[b], id) => Kept(b, id) # <<>>
<1> DEFINE q == inbox[b]
<1>1. q \in Seq(Int) /\ Len(q) \in Nat /\ (q = <<>> <=> Len(q) = 0)
  BY DEF CanTyped
<1>2. Frames(b) = {q[k] : k \in 1 .. Len(q)}
  BY DEF Frames
<1> HIDE DEF q
<1>3. CASE canUp[b] /\ filters[b] /\ Passes(pair[b], id) /\ Len(q) < Depth
  <2>1. Kept(b, id) = Append(q, id)
    BY <1>3 DEF Kept, q
  <2>2. /\ Append(q, id) \in Seq(Int) /\ Len(Append(q, id)) = Len(q) + 1 /\ Append(q, id)[Len(q) + 1] = id
        /\ \A k \in 1 .. Len(q) : Append(q, id)[k] = q[k]
    BY <1>1
  <2>3. Append(q, id) # <<>>
    BY <1>1, <2>2
  <2>4. \A k \in 1 .. Len(q) + 1 : k \in 1 .. Len(q) \/ k = Len(q) + 1
    BY <1>1
  <2> QED
    BY <1>2, <1>3, <2>1, <2>2, <2>3, <2>4
<1>4. CASE ~(canUp[b] /\ filters[b] /\ Passes(pair[b], id) /\ Len(q) < Depth)
  <2>1. Kept(b, id) = q
    BY <1>4 DEF Kept, q
  <2>2. canUp[b] /\ filters[b] /\ Passes(pair[b], id) => Len(q) >= Depth /\ q # <<>>
    BY <1>1, <1>4, CanAssumption
  <2> QED
    BY <1>1, <1>2, <2>1, <2>2 DEF q
<1> QED
  BY <1>3, <1>4

LEMMA SendIs ==
    ASSUME CanTyped, NEW b \in Board, NEW id \in Int, Send(b, id)
    PROVE  /\ inbox' \in [Board -> Seq(Int)] /\ inbox'[b] = inbox[b] /\ Frames(b)' = Frames(b)
           /\ \A x \in Frames(Other(b))' :
                 x \in Frames(Other(b)) \/ (x = id /\ Passes(pair[Other(b)], id))
           /\ inbox[Other(b)] # <<>> => inbox'[Other(b)] # <<>>
           /\ filters[Other(b)] /\ Passes(pair[Other(b)], id) => inbox'[Other(b)] # <<>>
<1> DEFINE c == Other(b)
<1>1. c \in Board /\ c # b
  BY TwoBoards
<1>2. inbox' = [inbox EXCEPT ![c] = Kept(c, id)] /\ canUp[c] /\ inbox \in [Board -> Seq(Int)]
  BY DEF Send, CanTyped
<1> HIDE DEF c
<1>3. /\ inbox'[c] = Kept(c, id) /\ inbox'[b] = inbox[b]
      /\ inbox' \in [Board -> Seq(Int)]
  BY <1>1, <1>2, KeptIs
<1>4. Frames(b)' = Frames(b)
  BY <1>3 DEF Frames
<1>5. \A x \in Frames(c)' : \E k \in 1 .. Len(Kept(c, id)) : x = Kept(c, id)[k]
  BY <1>3 DEF Frames
<1>6. \A x \in Frames(c)' : x \in Frames(c) \/ (x = id /\ Passes(pair[c], id))
  BY <1>1, <1>5, KeptIs
<1>7. /\ inbox[c] # <<>> => inbox'[c] # <<>>
      /\ filters[c] /\ Passes(pair[c], id) => inbox'[c] # <<>>
  BY <1>1, <1>2, <1>3, KeptIs
<1> QED
  BY <1>3, <1>4, <1>6, <1>7 DEF c

LEMMA ArrivesIs ==
    ASSUME CanTyped, NEW b \in Board, Arrives(b)
    PROVE  /\ inbox' \in [Board -> Seq(Int)] /\ inbox[b] # <<>>
           /\ inbox'[Other(b)] = inbox[Other(b)] /\ Frames(Other(b))' = Frames(Other(b))
           /\ Frames(b)' \subseteq Frames(b)
           /\ Head(inbox[b]) \in Frames(b) /\ Head(inbox[b]) \in Int
<1> DEFINE q == inbox[b]
<1>1. q \in Seq(Int) /\ q # <<>> /\ Frames(b) = {q[k] : k \in 1 .. Len(q)} /\ Other(b) \in Board /\ Other(b) # b
  BY TwoBoards DEF CanTyped, Arrives, Frames
<1>2. inbox'[b] = Tail(q) /\ inbox'[Other(b)] = inbox[Other(b)] /\ inbox' = [inbox EXCEPT ![b] = Tail(q)]
  BY <1>1 DEF Arrives, CanTyped
<1>3. Frames(b)' = {Tail(q)[k] : k \in 1 .. Len(Tail(q))} /\ Frames(Other(b))' = Frames(Other(b))
  BY <1>2 DEF Frames
<1> HIDE DEF q
<1>4. /\ Tail(q) \in Seq(Int) /\ Len(Tail(q)) = Len(q) - 1 /\ Len(q) \in Nat /\ Len(q) > 0
      /\ \A k \in 1 .. Len(q) - 1 : Tail(q)[k] = q[k + 1] /\ k + 1 \in 1 .. Len(q)
      /\ Head(q) = q[1] /\ Head(q) \in Int /\ 1 \in 1 .. Len(q)
  BY <1>1
<1>5. inbox' \in [Board -> Seq(Int)]
  BY <1>2, <1>4 DEF CanTyped
<1>6. Frames(b)' \subseteq Frames(b) /\ Head(q) \in Frames(b)
  BY <1>1, <1>3, <1>4
<1> QED
  BY <1>1, <1>2, <1>3, <1>4, <1>5, <1>6 DEF q

LEMMA GoIs ==
    ASSUME CanTyped, NEW b \in Board, NEW next \in {"start", "go", "wait", "answer", "failed"}, Go(b, next)
    PROVE  /\ at' \in [Board -> {"start", "go", "wait", "answer", "failed"}]
           /\ at'[b] = next /\ at'[Other(b)] = at[Other(b)]
BY TwoBoards DEF CanTyped, Go

\* Coming up and registering.
LEMMA SettingUp ==
    ASSUME CanPairInv, UNCHANGED <<pair, at, inbox, held, round, toolLeft>>,
           NEW b \in Board, Up(b) \/ Register(b)
    PROVE  CanPairInv'
<1>1. /\ canUp' \in [Board -> BOOLEAN] /\ filters' \in [Board -> BOOLEAN]
      /\ \A c \in Board : (canUp[c] => canUp'[c]) /\ (filters[c] => filters'[c])
  <2>1. canUp \in [Board -> BOOLEAN] /\ filters \in [Board -> BOOLEAN] /\ TRUE \in BOOLEAN
    BY DEF CanPairInv, CanTyped
  <2>2. CASE Up(b)
    BY <2>1, <2>2 DEF Up
  <2>3. CASE Register(b)
    BY <2>1, <2>3 DEF Register
  <2> QED
    BY <2>2, <2>3
<1>2. CanTyped'
  BY <1>1 DEF CanPairInv, CanTyped
<1>3. EchoPart' /\ DcanPart' /\ AnswerPart'
  BY DEF CanPairInv, EchoPart, TwoEchoes, DcanPart, TwoDcan, HasSent, Satisfied, AnswerPart, Frames, Tested
<1> QED
  BY <1>2, <1>3 DEF CanPairInv

LEMMA GettingReady ==
    ASSUME CanPairInv, NEW b \in Board, NEW first \in {"go", "wait"}, Ready(b, first),
           first = "go" \/ pair[b] \in Answer
    PROVE  CanPairInv'
<1>1. /\ at[b] = "start" /\ canUp[b] /\ filters[b] /\ Go(b, first)
      /\ UNCHANGED <<pair, canUp, filters, inbox, held, round, toolLeft>>
  BY DEF Ready
<1>2. /\ at' \in [Board -> {"start", "go", "wait", "answer", "failed"}]
      /\ at'[b] = first /\ at'[Other(b)] = at[Other(b)]
  BY <1>1, GoIs DEF CanPairInv
<1>3. CanTyped'
  BY <1>1, <1>2, TwoBoards DEF CanPairInv, CanTyped
<1>4. EchoPart'
  <2>1. TwoEchoes => first = "go"
    BY TwoBoards DEF TwoEchoes, Echo, Answer
  <2>2. (TwoEchoes' <=> TwoEchoes) /\ Frames(1)' = Frames(1) /\ Frames(2)' = Frames(2)
    BY <1>1 DEF TwoEchoes, Frames
  <2>3. ASSUME TwoEchoes, NEW c \in Board PROVE at'[c] \in {"start", "go", "wait"} /\ Frames(c)' \subseteq {TestId}
    BY <1>2, <2>1, <2>2, <2>3, TwoBoards DEF CanPairInv, EchoPart
  <2>4. TwoEchoes => at'[b] # "wait"
    BY <1>2, <2>1
  <2> QED
    BY <2>2, <2>3, <2>4 DEF EchoPart
<1>5. DcanPart'
  <2>1. TwoDcan => first = "go" /\ at[Other(b)] # "failed"
    BY <1>1, TwoBoards DEF TwoDcan, Answer, CanPairInv, DcanPart, HasSent
  <2> QED
    BY <1>1, <1>2, <2>1, TwoBoards DEF CanPairInv, DcanPart, TwoDcan, HasSent, Satisfied
<1>6. AnswerPart'
  BY <1>1, <1>2, TwoBoards DEF CanPairInv, AnswerPart, Frames, Tested
<1> QED
  BY <1>3, <1>4, <1>5, <1>6 DEF CanPairInv

\* Sending: the other board keeps the frame once it has registered, if its filter lets it through.
LEMMA Sending ==
    ASSUME CanPairInv, NEW b \in Board, NEW id \in Int, Send(b, id), Go(b, "wait"), Rest,
           UNCHANGED <<held, round>>, at[b] \in {"go", "answer"},
           TwoEchoes => id = TestId, TwoDcan => id = DcanId,
           pair[Other(b)] \in Answer /\ Passes(pair[Other(b)], id) => id \in Tested(Other(b))
    PROVE  CanPairInv'
<1> DEFINE c == Other(b)
<1>1. /\ at' \in [Board -> {"start", "go", "wait", "answer", "failed"}]
      /\ at'[b] = "wait" /\ at'[c] = at[c]
  BY GoIs DEF CanPairInv
<1>2. /\ inbox' \in [Board -> Seq(Int)] /\ inbox'[b] = inbox[b] /\ Frames(b)' = Frames(b)
      /\ \A x \in Frames(c)' : x \in Frames(c) \/ (x = id /\ Passes(pair[c], id))
      /\ inbox[c] # <<>> => inbox'[c] # <<>>
      /\ filters[c] /\ Passes(pair[c], id) => inbox'[c] # <<>>
  BY SendIs DEF CanPairInv
<1>3. UNCHANGED <<pair, canUp, filters, toolLeft, held, round>>
  BY DEF Rest
<1>4. c \in Board /\ c # b /\ \A x \in Board : x = b \/ x = c
  BY TwoBoards
<1>5. at[c] # "start" => filters[c]
  BY <1>4 DEF CanPairInv, CanTyped
<1> HIDE DEF c
<1>6. CanTyped'
  BY <1>1, <1>2, <1>3, <1>4 DEF CanPairInv, CanTyped
<1>7. EchoPart'
  <2> SUFFICES ASSUME TwoEchoes PROVE EchoPart'
    BY <1>3 DEF EchoPart, TwoEchoes
  <2>1. pair[c] # "dcan"
    BY <1>4, TwoBoards DEF TwoEchoes, Echo
  <2>2. Passes(pair[c], id)
    BY <2>1, Identifiers
  <2>3. at[c] \in {"start", "go", "wait"} /\ Frames(c) \subseteq {TestId} /\ Frames(b) \subseteq {TestId}
    BY <1>4 DEF CanPairInv, EchoPart
  <2>4. at'[c] # "wait" \/ inbox'[c] # <<>>
    BY <1>1, <1>2, <1>5, <2>2
  <2> QED
    BY <1>1, <1>2, <1>4, <2>3, <2>4 DEF EchoPart
<1>8. DcanPart'
  <2> SUFFICES ASSUME TwoDcan PROVE DcanPart'
    BY <1>3 DEF DcanPart, TwoDcan
  <2>1. Passes(pair[c], id)
    BY <1>4, TwoBoards DEF TwoDcan, Passes
  <2>2. at[c] # "failed" /\ at[c] # "answer"
    BY <1>4, TwoBoards DEF CanPairInv, DcanPart, HasSent, c
  <2>3. HasSent(c)' => at'[c] = "wait" /\ inbox'[c] # <<>>
    BY <1>1, <1>2, <1>5, <2>1, <2>2 DEF HasSent
  <2> QED
    BY <1>1, <1>4, <2>2, <2>3, TwoBoards DEF DcanPart, HasSent, Satisfied
<1>9. AnswerPart'
  <2>1. Tested(b)' = Tested(b) /\ Tested(c)' = Tested(c) /\ pair' = pair
    BY <1>3 DEF Tested
  <2>2. pair[c] \in Answer => \A x \in Frames(c)' : InRange(x) /\ x \in Tested(c)
    <3> SUFFICES ASSUME pair[c] \in Answer, NEW x \in Frames(c)' PROVE InRange(x) /\ x \in Tested(c)
      OBVIOUS
    <3>1. CASE x \in Frames(c)
      BY <1>4, <3>1 DEF CanPairInv, AnswerPart
    <3>2. CASE x = id /\ Passes(pair[c], id)
      <4>1. pair[c] # "dcan"
        BY DEF Answer
      <4> QED
        BY <3>2, <4>1, Identifiers DEF c
    <3> QED
      BY <1>2, <3>1, <3>2
  <2>3. pair[b] \in Answer => \A x \in Frames(b)' : InRange(x) /\ x \in Tested(b)
    BY <1>2 DEF CanPairInv, AnswerPart
  <2>4. \A x \in Board : pair[x] \in Answer /\ at'[x] = "answer" => InRange(held[x])
    BY <1>1, <1>4 DEF CanPairInv, AnswerPart
  <2> QED
    BY <1>3, <1>4, <2>1, <2>2, <2>3, <2>4 DEF AnswerPart
<1> QED
  BY <1>6, <1>7, <1>8, <1>9 DEF CanPairInv

\* Receiving, in the three kinds of tests.
LEMMA EchoTakes ==
    ASSUME CanPairInv, NEW b \in Board, pair[b] \in Echo, at[b] = "wait", Arrives(b), Rest, UNCHANGED held,
           round' = [round EXCEPT ![b] = TRUE],
           Go(b, IF Head(inbox[b]) = TestId THEN "go" ELSE "failed")
    PROVE  CanPairInv'
<1> DEFINE c == Other(b)
           next == IF Head(inbox[b]) = TestId THEN "go" ELSE "failed"
<1>1. /\ at' \in [Board -> {"start", "go", "wait", "answer", "failed"}]
      /\ at'[b] = next /\ at'[c] = at[c]
  BY GoIs DEF CanPairInv
<1>2. /\ inbox' \in [Board -> Seq(Int)] /\ inbox'[c] = inbox[c] /\ Frames(c)' = Frames(c)
      /\ Frames(b)' \subseteq Frames(b) /\ Head(inbox[b]) \in Frames(b)
  BY ArrivesIs DEF CanPairInv
<1>3. UNCHANGED <<pair, canUp, filters, toolLeft, held>> /\ round' \in [Board -> BOOLEAN]
  BY DEF Rest, CanPairInv, CanTyped
<1>4. c \in Board /\ c # b /\ \A x \in Board : x = b \/ x = c
  BY TwoBoards
<1>5. pair[b] \notin Answer /\ ~TwoDcan
  BY TwoBoards DEF Echo, Answer, TwoDcan
<1>6. CanTyped'
  BY <1>1, <1>2, <1>3, <1>4 DEF CanPairInv, CanTyped
<1>7. EchoPart'
  <2> SUFFICES ASSUME TwoEchoes PROVE EchoPart'
    BY <1>3 DEF EchoPart, TwoEchoes
  <2>1. Frames(b) \subseteq {TestId} /\ Frames(c) \subseteq {TestId} /\ at[c] \in {"start", "go", "wait"}
    BY <1>4 DEF CanPairInv, EchoPart
  <2>2. at'[b] = "go"
    BY <1>1, <1>2, <2>1
  <2> QED
    BY <1>1, <1>2, <1>4, <2>1, <2>2 DEF EchoPart
<1>8. DcanPart'
  BY <1>3, <1>5 DEF DcanPart, TwoDcan
<1>9. AnswerPart'
  BY <1>1, <1>2, <1>3, <1>4, <1>5 DEF CanPairInv, AnswerPart, Tested
<1> QED
  BY <1>6, <1>7, <1>8, <1>9 DEF CanPairInv

LEMMA AnswerTakes ==
    ASSUME CanPairInv, NEW b \in Board, pair[b] \in Answer, at[b] = "wait", Arrives(b), Rest, UNCHANGED round,
           held' = [held EXCEPT ![b] = Head(inbox[b])], Go(b, "answer")
    PROVE  CanPairInv'
<1> DEFINE c == Other(b)
<1>1. /\ at' \in [Board -> {"start", "go", "wait", "answer", "failed"}]
      /\ at'[b] = "answer" /\ at'[c] = at[c]
  BY GoIs DEF CanPairInv
<1>2. /\ inbox' \in [Board -> Seq(Int)] /\ inbox'[c] = inbox[c] /\ Frames(c)' = Frames(c)
      /\ Frames(b)' \subseteq Frames(b) /\ Head(inbox[b]) \in Frames(b) /\ Head(inbox[b]) \in Int
  BY ArrivesIs DEF CanPairInv
<1>3. UNCHANGED <<pair, canUp, filters, toolLeft, round>>
  BY DEF Rest
<1>4. c \in Board /\ c # b /\ \A x \in Board : x = b \/ x = c
  BY TwoBoards
<1>5. held' \in [Board -> Int] /\ held'[b] = Head(inbox[b]) /\ held'[c] = held[c]
  BY <1>2, <1>4 DEF CanPairInv, CanTyped
<1>6. ~TwoEchoes /\ ~TwoDcan
  BY TwoBoards DEF Echo, Answer, TwoEchoes, TwoDcan
<1>7. CanTyped'
  BY <1>1, <1>2, <1>3, <1>4, <1>5 DEF CanPairInv, CanTyped
<1>8. EchoPart' /\ DcanPart'
  BY <1>3, <1>6 DEF EchoPart, DcanPart, TwoEchoes, TwoDcan
<1>9. AnswerPart'
  BY <1>1, <1>2, <1>3, <1>4, <1>5 DEF CanPairInv, AnswerPart, Tested
<1> QED
  BY <1>7, <1>8, <1>9 DEF CanPairInv

LEMMA DcanTakes ==
    ASSUME CanPairInv, NEW b \in Board, pair[b] = "dcan", at[b] = "wait", Arrives(b), Rest, UNCHANGED <<held, at>>,
           round' = [round EXCEPT ![b] = TRUE]
    PROVE  CanPairInv'
<1> DEFINE c == Other(b)
<1>2. /\ inbox' \in [Board -> Seq(Int)] /\ inbox'[c] = inbox[c] /\ Frames(c)' = Frames(c)
      /\ Frames(b)' \subseteq Frames(b)
  BY ArrivesIs DEF CanPairInv
<1>3. /\ UNCHANGED <<pair, canUp, filters, toolLeft, held, at>> /\ round' \in [Board -> BOOLEAN]
      /\ round'[b]
  BY DEF Rest, CanPairInv, CanTyped
<1>4. c \in Board /\ c # b /\ \A x \in Board : x = b \/ x = c
  BY TwoBoards
<1>5. pair[b] \notin Answer /\ ~TwoEchoes
  BY TwoBoards DEF Echo, Answer, TwoEchoes
<1>6. CanTyped'
  BY <1>2, <1>3 DEF CanPairInv, CanTyped
<1>7. EchoPart'
  BY <1>3, <1>5 DEF EchoPart, TwoEchoes
<1>8. DcanPart'
  BY <1>3 DEF CanPairInv, DcanPart, TwoDcan, HasSent, Satisfied
<1>9. AnswerPart'
  BY <1>2, <1>3, <1>4, <1>5 DEF CanPairInv, AnswerPart, Tested
<1> QED
  BY <1>6, <1>7, <1>8, <1>9 DEF CanPairInv

\* Giving up: not in two echo tests, and in two DCAN tests only when the other has got its frame.
LEMMA GivingUp ==
    ASSUME CanPairInv, NEW b \in Board, pair[b] \in Echo \/ (pair[b] = "dcan" /\ ~round[b]), at[b] = "wait",
           Silent(b), Go(b, "failed"), Rest, UNCHANGED <<held, inbox, round>>
    PROVE  CanPairInv'
<1> DEFINE c == Other(b)
<1>1. /\ at' \in [Board -> {"start", "go", "wait", "answer", "failed"}]
      /\ at'[b] = "failed" /\ at'[c] = at[c]
  BY GoIs DEF CanPairInv
<1>2. inbox[b] = <<>> /\ inbox[c] = <<>> /\ at[c] \in {"wait", "failed"}
  BY DEF Silent
<1>3. UNCHANGED <<pair, canUp, filters, toolLeft, held, inbox, round>> /\ Frames(b)' = Frames(b) /\ Frames(c)' = Frames(c)
  BY DEF Rest, Frames
<1>4. c \in Board /\ c # b /\ \A x \in Board : x = b \/ x = c
  BY TwoBoards
<1>5. pair[b] \notin Answer
  BY DEF Echo, Answer
<1>6. CanTyped'
  BY <1>1, <1>3, <1>4 DEF CanPairInv, CanTyped
<1>7. ~TwoEchoes
  BY <1>2, <1>4 DEF CanPairInv, EchoPart
<1>8. EchoPart'
  BY <1>3, <1>7 DEF EchoPart, TwoEchoes
<1>9. DcanPart'
  <2> SUFFICES ASSUME TwoDcan PROVE DcanPart'
    BY <1>3 DEF DcanPart, TwoDcan
  <2>1. ~round[b]
    BY TwoBoards DEF TwoDcan, Echo
  <2>2. HasSent(b) /\ HasSent(c)
    BY <1>2 DEF HasSent
  <2>3. Satisfied(c)
    BY <1>2, <1>4, <2>1, <2>2 DEF CanPairInv, DcanPart, Satisfied
  <2>4. Satisfied(c)' /\ HasSent(c)' /\ HasSent(b)'
    BY <1>1, <1>3, <2>3 DEF Satisfied, HasSent
  <2>5. at'[c] # "failed" /\ at'[c] # "answer"
    BY <1>1, <2>3 DEF Satisfied
  <2> QED
    BY <1>1, <1>4, <2>4, <2>5 DEF DcanPart
<1>10. AnswerPart'
  BY <1>1, <1>3, <1>4, <1>5 DEF CanPairInv, AnswerPart, Tested
<1> QED
  BY <1>6, <1>8, <1>9, <1>10 DEF CanPairInv

LEMMA ToolSends == CanPairInv /\ Tool => CanPairInv'
<1> SUFFICES ASSUME CanPairInv, Tool PROVE CanPairInv'
  OBVIOUS
<1>1. PICK id \in ToolIds : inbox' = [b \in Board |-> Kept(b, id)]
  BY DEF Tool
<1>2. id \in Int /\ CanTyped
  BY CanAssumption DEF CanPairInv
<1>3. UNCHANGED <<pair, at, canUp, filters, held, round>> /\ toolLeft' = toolLeft - 1
  BY DEF Tool
<1>4. \A b \in Board : /\ inbox'[b] \in Seq(Int)
                       /\ inbox[b] # <<>> => inbox'[b] # <<>>
                       /\ \A x \in Frames(b)' : x \in Frames(b) \/ (x = id /\ Passes(pair[b], id))
  <2> SUFFICES ASSUME NEW b \in Board
               PROVE  /\ inbox'[b] \in Seq(Int)
                      /\ inbox[b] # <<>> => inbox'[b] # <<>>
                      /\ \A x \in Frames(b)' : x \in Frames(b) \/ (x = id /\ Passes(pair[b], id))
    OBVIOUS
  <2>1. inbox'[b] = Kept(b, id)
    BY <1>1
  <2>2. \A x \in Frames(b)' : \E k \in 1 .. Len(Kept(b, id)) : x = Kept(b, id)[k]
    BY <2>1 DEF Frames
  <2> QED
    BY <1>2, <2>1, <2>2, KeptIs
<1>5. CanTyped'
  <2>1. inbox' \in [Board -> Seq(Int)]
    BY <1>1, <1>4
  <2> QED
    BY <1>2, <1>3, <2>1, CanAssumption DEF CanTyped
<1>6. EchoPart'
  <2>1. ~TwoEchoes'
    BY <1>2, <1>3, CanAssumption DEF CanTyped, TwoEchoes
  <2> QED
    BY <2>1 DEF EchoPart
<1>7. DcanPart'
  BY <1>3, <1>4, TwoBoards DEF CanPairInv, DcanPart, TwoDcan, HasSent, Satisfied
<1>8. AnswerPart'
  <2> SUFFICES ASSUME NEW b \in Board, pair[b] \in Answer, NEW x \in Frames(b)'
               PROVE  InRange(x) /\ x \in Tested(b)
    BY <1>3 DEF CanPairInv, AnswerPart, Tested
  <2>1. CASE x \in Frames(b)
    BY <2>1 DEF CanPairInv, AnswerPart
  <2>2. CASE x = id /\ Passes(pair[b], id)
    <3>1. pair[b] # "dcan"
      BY DEF Answer
    <3> QED
      BY <1>2, <2>2, <3>1, Identifiers DEF Tested
  <2> QED
    BY <1>4, <2>1, <2>2
<1> QED
  BY <1>5, <1>6, <1>7, <1>8 DEF CanPairInv

LEMMA BoardSteps == ASSUME CanPairInv, NEW b \in Board, BoardStep(b) PROVE CanPairInv'
<1>o. Other(b) \in Board /\ Other(b) # b /\ b \in {1, 2} /\ Other(b) \in {1, 2}
  BY TwoBoards
<1>1. ASSUME NEW registersFirst, SetUp(b, registersFirst) PROVE CanPairInv'
  <2>1. Up(b) \/ Register(b)
    BY <1>1 DEF SetUp
  <2> QED
    BY <1>1, <2>1, SettingUp DEF SetUp
<1>2. ASSUME pair[b] \in Echo, Echoes(b) PROVE CanPairInv'
  <2>1. Rest /\ UNCHANGED held
    BY <1>2 DEF Echoes
  <2>2. CASE at[b] = "go" /\ Send(b, TestId) /\ Go(b, "wait") /\ UNCHANGED round
    <3>1. ~TwoDcan /\ TestId \in Int /\ TestId \in Tested(Other(b))
      <4>1. ~TwoDcan
        BY <1>2, <1>o DEF TwoDcan, Echo
      <4>2. Other(Other(b)) = b
        BY TwoBoards
      <4> QED
        BY <1>2, <4>1, <4>2, Identifiers DEF Tested
    <3> QED
      BY <2>1, <2>2, <3>1, Sending
  <2>3. CASE /\ at[b] = "wait" /\ Arrives(b) /\ round' = [round EXCEPT ![b] = TRUE]
             /\ Go(b, IF Head(inbox[b]) = TestId THEN "go" ELSE "failed")
    BY <1>2, <2>1, <2>3, EchoTakes
  <2>4. CASE at[b] = "wait" /\ Silent(b) /\ Go(b, "failed") /\ UNCHANGED <<inbox, round>>
    BY <1>2, <2>1, <2>4, GivingUp
  <2> QED
    BY <1>2, <2>2, <2>3, <2>4 DEF Echoes
<1>3. ASSUME pair[b] \in Answer, NEW shift \in {256, -256}, Answers(b, shift) PROVE CanPairInv'
  <2>1. Rest /\ UNCHANGED round
    BY <1>3 DEF Answers
  <2>2. CASE at[b] = "wait" /\ Arrives(b) /\ held' = [held EXCEPT ![b] = Head(inbox[b])] /\ Go(b, "answer")
    BY <1>3, <2>1, <2>2, AnswerTakes
  <2>3. CASE at[b] = "answer" /\ Send(b, held[b] + shift) /\ Go(b, "wait") /\ UNCHANGED held
    <3>1. InRange(held[b]) /\ held[b] \in Int
      BY <1>3, <2>3 DEF CanPairInv, AnswerPart, CanTyped
    <3>2. held[b] + shift \in Int /\ ~InRange(held[b] + shift)
      BY <3>1 DEF InRange
    <3>3. pair[Other(b)] \in Answer => ~Passes(pair[Other(b)], held[b] + shift)
      BY <3>2, Identifiers DEF Answer
    <3>4. ~TwoDcan /\ ~TwoEchoes
      BY <1>3, <1>o DEF TwoDcan, TwoEchoes, Answer, Echo
    <3> QED
      BY <2>1, <2>3, <3>2, <3>3, <3>4, Sending
  <2> QED
    BY <1>3, <2>2, <2>3 DEF Answers
<1>4. ASSUME dcan_can_task(b) PROVE CanPairInv'
  <2>0. pair[b] = "dcan" /\ ~TwoEchoes
    BY <1>4, <1>o DEF dcan_can_task, TwoEchoes, Echo
  <2>1. CASE Register(b) /\ UNCHANGED <<at, inbox, held, round>> /\ UNCHANGED <<pair, toolLeft>>
    BY <2>1, SettingUp
  <2>2. CASE Ready(b, "go")
    BY <2>2, GettingReady
  <2>3. CASE Rest /\ UNCHANGED held /\ at[b] = "go" /\ Send(b, DcanId) /\ Go(b, "wait") /\ UNCHANGED round
    <3>1. DcanId \in Int /\ (pair[Other(b)] \in Answer => ~Passes(pair[Other(b)], DcanId))
      BY Identifiers DEF Answer
    <3> QED
      BY <2>0, <2>3, <3>1, Sending
  <2>4. CASE Rest /\ UNCHANGED held /\ at[b] = "wait" /\ Arrives(b) /\ round' = [round EXCEPT ![b] = TRUE] /\ UNCHANGED at
    BY <2>0, <2>4, DcanTakes
  <2>5. CASE Rest /\ UNCHANGED held /\ at[b] = "wait" /\ ~round[b] /\ Silent(b) /\ Go(b, "failed") /\ UNCHANGED <<inbox, round>>
    BY <2>0, <2>5, GivingUp
  <2> QED
    BY <1>4, <2>1, <2>2, <2>3, <2>4, <2>5 DEF dcan_can_task
<1>5. CASE s32k_echo(b)
  <2>1. pair[b] \in Echo /\ (SetUp(b, TRUE) \/ Ready(b, "go") \/ Echoes(b))
    BY <1>5 DEF s32k_echo, Echo
  <2> QED
    BY <2>1, <1>1, <1>2, GettingReady
<1>6. CASE kv4x_echo(b)
  <2>1. pair[b] \in Echo /\ (SetUp(b, FALSE) \/ Ready(b, "go") \/ Echoes(b))
    BY <1>6 DEF kv4x_echo, Echo
  <2> QED
    BY <2>1, <1>1, <1>2, GettingReady
<1>7. CASE s32k_answer(b)
  <2>1. pair[b] \in Answer /\ (SetUp(b, FALSE) \/ Ready(b, "wait") \/ Answers(b, 256))
    BY <1>7 DEF s32k_answer, Answer
  <2> QED
    BY <2>1, <1>1, <1>3, GettingReady
<1>8. CASE kv4x_answer(b)
  <2>1. pair[b] \in Answer /\ (SetUp(b, FALSE) \/ Ready(b, "wait") \/ Answers(b, -256))
    BY <1>8 DEF kv4x_answer, Answer
  <2> QED
    BY <2>1, <1>1, <1>3, GettingReady
<1> QED
  BY <1>4, <1>5, <1>6, <1>7, <1>8 DEF BoardStep

LEMMA CanInitial == CanInit => CanPairInv
<1> SUFFICES ASSUME CanInit PROVE CanPairInv
  OBVIOUS
<1>1. \A b \in Board : at[b] = "start" /\ inbox[b] = <<>> /\ Frames(b) = {}
  BY DEF CanInit, Frames
<1>2. CanTyped
  <2>1. canUp \in [Board -> BOOLEAN]
    <3>1. canUp = [b \in Board |-> pair[b] = "dcan"]
      BY DEF CanInit
    <3> QED
      BY <3>1
  <2>2. FALSE \in BOOLEAN /\ <<>> \in Seq(Int) /\ 0 \in Int
    OBVIOUS
  <2>3. filters \in [Board -> BOOLEAN] /\ round \in [Board -> BOOLEAN]
    BY <2>2 DEF CanInit
  <2> QED
    BY <1>1, <2>1, <2>2, <2>3, CanAssumption DEF CanInit, CanTyped
<1>3. EchoPart /\ DcanPart /\ AnswerPart
  BY <1>1, TwoBoards DEF EchoPart, DcanPart, HasSent, AnswerPart
<1> QED
  BY <1>2, <1>3 DEF CanPairInv

LEMMA PartsSuffice == CanPairInv => PairsPass
<1> SUFFICES ASSUME CanPairInv PROVE PairsPass
  OBVIOUS
<1>1. pair[1] \in Echo /\ pair[2] \in Echo /\ toolLeft = ToolFrames => \A b \in Board : at[b] # "failed"
  BY DEF CanPairInv, EchoPart, TwoEchoes
<1>2. pair = <<"dcan", "dcan">> => \E b \in Board : at[b] # "failed"
  <2> SUFFICES ASSUME pair = <<"dcan", "dcan">>, \A b \in Board : at[b] = "failed" PROVE FALSE
    OBVIOUS
  <2>1. TwoDcan /\ \A b \in Board : HasSent(b)
    BY DEF TwoDcan, HasSent
  <2> QED
    BY <2>1 DEF CanPairInv, DcanPart, Satisfied
<1>3. \A b \in Board : pair[b] \in Answer =>
          \A k \in DOMAIN inbox[b] : inbox[b][k] \in ToolIds \union (IF pair[Other(b)] \in Echo THEN {TestId} ELSE {})
  <2> SUFFICES ASSUME NEW b \in Board, pair[b] \in Answer, NEW k \in DOMAIN inbox[b]
               PROVE  inbox[b][k] \in Tested(b)
    BY DEF Tested
  <2>1. inbox[b] \in Seq(Int)
    BY DEF CanPairInv, CanTyped
  <2>2. k \in 1 .. Len(inbox[b])
    BY <2>1
  <2>3. inbox[b][k] \in Frames(b)
    BY <2>2 DEF Frames
  <2> QED
    BY <2>3 DEF CanPairInv, AnswerPart
<1> QED
  BY <1>1, <1>2, <1>3 DEF PairsPass

\* Two echo tests never fail each other, of two DCAN tests one passes, and no answer is answered,
\* whatever the controllers hold and whatever a tool sends.
THEOREM PairsDoPass == CanSpec => []PairsPass
<1>1. CanPairInv /\ [CanNext]_canVars => CanPairInv'
  <2> SUFFICES ASSUME CanPairInv, [CanNext]_canVars PROVE CanPairInv'
    OBVIOUS
  <2>1. CASE UNCHANGED canVars
    <3>1. CanTyped'
      BY <2>1 DEF canVars, CanPairInv, CanTyped
    <3>2. EchoPart' /\ DcanPart'
      BY <2>1 DEF canVars, CanPairInv, EchoPart, TwoEchoes, Frames, DcanPart, TwoDcan, HasSent, Satisfied
    <3>3. AnswerPart'
      BY <2>1 DEF canVars, CanPairInv, AnswerPart, Frames, Tested
    <3> QED
      BY <3>1, <3>2, <3>3 DEF CanPairInv
  <2>2. CASE CanNext
    BY <2>2, BoardSteps, ToolSends DEF CanNext
  <2> QED
    BY <2>1, <2>2
<1> QED
  BY <1>1, CanInitial, PartsSuffice, PTL DEF CanSpec

-----------------------------------------------------------------------------
(* SpiSd: crc7 computes, eight bits at a time, what the division of the     *)
(* frame leaves, which the card computes bit by bit.  Both are described by *)
(* which bits they have; (+) is the sum of two bits.                        *)

a (+) b == ~(a <=> b)

Residue == SUBSET (0 .. 6)

\* q is what Divide leaves of the residue r when the bit one is taken down.
BitDown(q, one, r) ==
    /\ (0 \in q) <=> (one (+) (6 \in r))
    /\ (1 \in q) <=> (0 \in r)
    /\ (2 \in q) <=> (1 \in r)
    /\ (3 \in q) <=> ((2 \in r) (+) (6 \in r))
    /\ (4 \in q) <=> (3 \in r)
    /\ (5 \in q) <=> (4 \in r)
    /\ (6 \in q) <=> (5 \in r)

LEMMA DivideIs ==
    ASSUME NEW r \in Residue, NEW one \in BOOLEAN
    PROVE  Divide(r, one) \in Residue /\ BitDown(Divide(r, one), one, r)
<1> DEFINE taken == {k \in 0 .. 7 : k - 1 \in r \/ (one /\ k = 0)}
<1>1. /\ taken \in SUBSET (0 .. 7)
      /\ 0 \in taken <=> one
      /\ 1 \in taken <=> 0 \in r
      /\ 2 \in taken <=> 1 \in r
      /\ 3 \in taken <=> 2 \in r
      /\ 4 \in taken <=> 3 \in r
      /\ 5 \in taken <=> 4 \in r
      /\ 6 \in taken <=> 5 \in r
      /\ 7 \in taken <=> 6 \in r
  BY DEF Residue
<1>2. Divide(r, one) = IF 7 \in taken THEN SymDiff(taken, {0, 3, 7}) ELSE taken
  BY DEF Divide
<1> HIDE DEF taken
<1>3. CASE 7 \in taken
  BY <1>1, <1>2, <1>3 DEF SymDiff, Residue, BitDown, (+)
<1>4. CASE 7 \notin taken
  BY <1>1, <1>2, <1>4 DEF Residue, BitDown, (+)
<1> QED
  BY <1>3, <1>4

\* A byte taken down: x^8 times the residue, plus the byte.
ByteDown(q, b, r) ==
    /\ (0 \in q) <=> ((0 \in b) (+) (7 \in b) (+) (3 \in r) (+) (6 \in r))
    /\ (1 \in q) <=> ((1 \in b) (+) (0 \in r) (+) (4 \in r))
    /\ (2 \in q) <=> ((2 \in b) (+) (1 \in r) (+) (5 \in r))
    /\ (3 \in q) <=> ((3 \in b) (+) (7 \in b) (+) (2 \in r) (+) (3 \in r))
    /\ (4 \in q) <=> ((4 \in b) (+) (0 \in r) (+) (3 \in r) (+) (4 \in r))
    /\ (5 \in q) <=> ((5 \in b) (+) (1 \in r) (+) (4 \in r) (+) (5 \in r))
    /\ (6 \in q) <=> ((6 \in b) (+) (2 \in r) (+) (5 \in r) (+) (6 \in r))

LEMMA DividedIs ==
    ASSUME NEW r \in Residue, NEW b
    PROVE  Divided(r, b) \in Residue /\ ByteDown(Divided(r, b), b, r)
<1> DEFINE s1 == Divide(r, 7 \in b)
           s2 == Divide(s1, 6 \in b)
           s3 == Divide(s2, 5 \in b)
           s4 == Divide(s3, 4 \in b)
           s5 == Divide(s4, 3 \in b)
           s6 == Divide(s5, 2 \in b)
           s7 == Divide(s6, 1 \in b)
           s8 == Divide(s7, 0 \in b)
<1>0. \A k : (k \in b) \in BOOLEAN
  OBVIOUS
<1>1. Divided(r, b) = s8
  BY DEF Divided
<1> HIDE DEF s1, s2, s3, s4, s5, s6, s7, s8
<1>2. s1 \in Residue /\ BitDown(s1, 7 \in b, r)
  BY <1>0, DivideIs DEF s1
<1>3. s2 \in Residue /\ BitDown(s2, 6 \in b, s1)
  BY <1>0, <1>2, DivideIs DEF s2
<1>4. s3 \in Residue /\ BitDown(s3, 5 \in b, s2)
  BY <1>0, <1>3, DivideIs DEF s3
<1>5. s4 \in Residue /\ BitDown(s4, 4 \in b, s3)
  BY <1>0, <1>4, DivideIs DEF s4
<1>6. s5 \in Residue /\ BitDown(s5, 3 \in b, s4)
  BY <1>0, <1>5, DivideIs DEF s5
<1>7. s6 \in Residue /\ BitDown(s6, 2 \in b, s5)
  BY <1>0, <1>6, DivideIs DEF s6
<1>8. s7 \in Residue /\ BitDown(s7, 1 \in b, s6)
  BY <1>0, <1>7, DivideIs DEF s7
<1>9. s8 \in Residue /\ BitDown(s8, 0 \in b, s7)
  BY <1>0, <1>8, DivideIs DEF s8
<1> QED
  BY <1>1, <1>2, <1>3, <1>4, <1>5, <1>6, <1>7, <1>8, <1>9 DEF BitDown, ByteDown, (+)

\* Seven zeros taken down: x^7 times the residue.
ZerosDown(q, r) ==
    /\ (0 \in q) <=> ((0 \in r) (+) (4 \in r))
    /\ (1 \in q) <=> ((1 \in r) (+) (5 \in r))
    /\ (2 \in q) <=> ((2 \in r) (+) (6 \in r))
    /\ (3 \in q) <=> ((0 \in r) (+) (3 \in r) (+) (4 \in r))
    /\ (4 \in q) <=> ((1 \in r) (+) (4 \in r) (+) (5 \in r))
    /\ (5 \in q) <=> ((2 \in r) (+) (5 \in r) (+) (6 \in r))
    /\ (6 \in q) <=> ((3 \in r) (+) (6 \in r))

LEMMA RemainingIs ==
    ASSUME NEW r \in Residue
    PROVE  Remaining(r) \in Residue /\ ZerosDown(Remaining(r), r)
<1> DEFINE s1 == Divide(r, FALSE)
           s2 == Divide(s1, FALSE)
           s3 == Divide(s2, FALSE)
           s4 == Divide(s3, FALSE)
           s5 == Divide(s4, FALSE)
           s6 == Divide(s5, FALSE)
           s7 == Divide(s6, FALSE)
<1>0. FALSE \in BOOLEAN
  OBVIOUS
<1>1. Remaining(r) = s7
  BY DEF Remaining
<1> HIDE DEF s1, s2, s3, s4, s5, s6, s7
<1>2. s1 \in Residue /\ BitDown(s1, FALSE, r)
  BY <1>0, DivideIs DEF s1
<1>3. s2 \in Residue /\ BitDown(s2, FALSE, s1)
  BY <1>0, <1>2, DivideIs DEF s2
<1>4. s3 \in Residue /\ BitDown(s3, FALSE, s2)
  BY <1>0, <1>3, DivideIs DEF s3
<1>5. s4 \in Residue /\ BitDown(s4, FALSE, s3)
  BY <1>0, <1>4, DivideIs DEF s4
<1>6. s5 \in Residue /\ BitDown(s5, FALSE, s4)
  BY <1>0, <1>5, DivideIs DEF s5
<1>7. s6 \in Residue /\ BitDown(s6, FALSE, s5)
  BY <1>0, <1>6, DivideIs DEF s6
<1>8. s7 \in Residue /\ BitDown(s7, FALSE, s6)
  BY <1>0, <1>7, DivideIs DEF s7
<1> QED
  BY <1>1, <1>2, <1>3, <1>4, <1>5, <1>6, <1>7, <1>8 DEF BitDown, ZerosDown, (+)

LEMMA OneShifted ==
    ASSUME NEW q \in Residue
    PROVE  /\ ShiftLeft(q, 1) \in Byte
           /\ 0 \notin ShiftLeft(q, 1)
           /\ 1 \in ShiftLeft(q, 1) <=> 0 \in q
           /\ 2 \in ShiftLeft(q, 1) <=> 1 \in q
           /\ 3 \in ShiftLeft(q, 1) <=> 2 \in q
           /\ 4 \in ShiftLeft(q, 1) <=> 3 \in q
           /\ 5 \in ShiftLeft(q, 1) <=> 4 \in q
           /\ 6 \in ShiftLeft(q, 1) <=> 5 \in q
           /\ 7 \in ShiftLeft(q, 1) <=> 6 \in q
BY DEF ShiftLeft, Byte, Residue

\* One step of crc7 takes a byte down.
LEMMA CrcStepIs ==
    ASSUME NEW r \in Residue, NEW b \in Byte
    PROVE  CrcStep(ShiftLeft(Remaining(r), 1), b) = ShiftLeft(Remaining(Divided(r, b)), 1)
<1> DEFINE c == ShiftLeft(Remaining(r), 1)
           e == SymDiff(c, b)
           e4 == ShiftRight(e, 4)
           e7 == ShiftRight(e, 7)
           f == SymDiff(SymDiff(e, e4), e7)
           f1 == ShiftLeft(f, 1)
           f4 == ShiftLeft(f, 4)
           new == SymDiff(f1, f4)
           next == Divided(r, b)
           left == ShiftLeft(Remaining(next), 1)
<1>1. CrcStep(c, b) = new
  BY DEF CrcStep
<1>2. /\ next \in Residue /\ ByteDown(next, b, r)
      /\ Remaining(r) \in Residue /\ ZerosDown(Remaining(r), r)
      /\ Remaining(next) \in Residue /\ ZerosDown(Remaining(next), next)
  BY DividedIs, RemainingIs
<1> HIDE DEF next
<1>3. /\ c \in Byte /\ 0 \notin c
      /\ (1 \in c) <=> (0 \in Remaining(r))
      /\ (2 \in c) <=> (1 \in Remaining(r))
      /\ (3 \in c) <=> (2 \in Remaining(r))
      /\ (4 \in c) <=> (3 \in Remaining(r))
      /\ (5 \in c) <=> (4 \in Remaining(r))
      /\ (6 \in c) <=> (5 \in Remaining(r))
      /\ (7 \in c) <=> (6 \in Remaining(r))
  BY <1>2, OneShifted
<1>4. /\ left \in Byte /\ 0 \notin left
      /\ (1 \in left) <=> (0 \in Remaining(next))
      /\ (2 \in left) <=> (1 \in Remaining(next))
      /\ (3 \in left) <=> (2 \in Remaining(next))
      /\ (4 \in left) <=> (3 \in Remaining(next))
      /\ (5 \in left) <=> (4 \in Remaining(next))
      /\ (6 \in left) <=> (5 \in Remaining(next))
      /\ (7 \in left) <=> (6 \in Remaining(next))
  BY <1>2, OneShifted
<1> HIDE DEF c, left
<1>5. /\ e \in Byte
      /\ (0 \in e) <=> ((0 \in c) (+) (0 \in b))
      /\ (1 \in e) <=> ((1 \in c) (+) (1 \in b))
      /\ (2 \in e) <=> ((2 \in c) (+) (2 \in b))
      /\ (3 \in e) <=> ((3 \in c) (+) (3 \in b))
      /\ (4 \in e) <=> ((4 \in c) (+) (4 \in b))
      /\ (5 \in e) <=> ((5 \in c) (+) (5 \in b))
      /\ (6 \in e) <=> ((6 \in c) (+) (6 \in b))
      /\ (7 \in e) <=> ((7 \in c) (+) (7 \in b))
  BY <1>3 DEF SymDiff, Byte, (+)
<1> HIDE DEF e
<1>6. /\ e4 \in Byte /\ e7 \in Byte
      /\ (0 \in e4) <=> (4 \in e)
      /\ (1 \in e4) <=> (5 \in e)
      /\ (2 \in e4) <=> (6 \in e)
      /\ (3 \in e4) <=> (7 \in e)
      /\ (4 \in e4) <=> (FALSE)
      /\ (5 \in e4) <=> (FALSE)
      /\ (6 \in e4) <=> (FALSE)
      /\ (7 \in e4) <=> (FALSE)
      /\ (0 \in e7) <=> (7 \in e)
      /\ (1 \in e7) <=> (FALSE)
      /\ (2 \in e7) <=> (FALSE)
      /\ (3 \in e7) <=> (FALSE)
      /\ (4 \in e7) <=> (FALSE)
      /\ (5 \in e7) <=> (FALSE)
      /\ (6 \in e7) <=> (FALSE)
      /\ (7 \in e7) <=> (FALSE)
  BY <1>5 DEF ShiftRight, Byte
<1> HIDE DEF e4, e7
<1>7. /\ f \in Byte
      /\ (0 \in f) <=> ((0 \in e) (+) (4 \in e) (+) (7 \in e))
      /\ (1 \in f) <=> ((1 \in e) (+) (5 \in e))
      /\ (2 \in f) <=> ((2 \in e) (+) (6 \in e))
      /\ (3 \in f) <=> ((3 \in e) (+) (7 \in e))
      /\ (4 \in f) <=> (4 \in e)
      /\ (5 \in f) <=> (5 \in e)
      /\ (6 \in f) <=> (6 \in e)
      /\ (7 \in f) <=> (7 \in e)
  BY <1>5, <1>6 DEF SymDiff, Byte, (+)
<1> HIDE DEF f
<1>8. /\ f1 \in Byte /\ f4 \in Byte
      /\ (0 \in f1) <=> (FALSE)
      /\ (1 \in f1) <=> (0 \in f)
      /\ (2 \in f1) <=> (1 \in f)
      /\ (3 \in f1) <=> (2 \in f)
      /\ (4 \in f1) <=> (3 \in f)
      /\ (5 \in f1) <=> (4 \in f)
      /\ (6 \in f1) <=> (5 \in f)
      /\ (7 \in f1) <=> (6 \in f)
      /\ (0 \in f4) <=> (FALSE)
      /\ (1 \in f4) <=> (FALSE)
      /\ (2 \in f4) <=> (FALSE)
      /\ (3 \in f4) <=> (FALSE)
      /\ (4 \in f4) <=> (0 \in f)
      /\ (5 \in f4) <=> (1 \in f)
      /\ (6 \in f4) <=> (2 \in f)
      /\ (7 \in f4) <=> (3 \in f)
  BY <1>7 DEF ShiftLeft, Byte
<1> HIDE DEF f1, f4
<1>9. /\ new \in Byte
      /\ (0 \in new) <=> (FALSE)
      /\ (1 \in new) <=> (0 \in f)
      /\ (2 \in new) <=> (1 \in f)
      /\ (3 \in new) <=> (2 \in f)
      /\ (4 \in new) <=> ((3 \in f) (+) (0 \in f))
      /\ (5 \in new) <=> ((4 \in f) (+) (1 \in f))
      /\ (6 \in new) <=> ((5 \in f) (+) (2 \in f))
      /\ (7 \in new) <=> ((6 \in f) (+) (3 \in f))
  BY <1>8 DEF SymDiff, Byte, (+)
<1> HIDE DEF new
<1>10. \A k \in 0 .. 7 : k \in new <=> k \in left
  <2>1. /\ 0 \in new <=> 0 \in left
        /\ 1 \in new <=> 1 \in left
        /\ 2 \in new <=> 2 \in left
        /\ 3 \in new <=> 3 \in left
        /\ 4 \in new <=> 4 \in left
        /\ 5 \in new <=> 5 \in left
        /\ 6 \in new <=> 6 \in left
        /\ 7 \in new <=> 7 \in left
    BY <1>2, <1>3, <1>4, <1>5, <1>7, <1>9 DEF ByteDown, ZerosDown, (+)
  <2> QED
    BY <2>1
<1>11. new = left
  BY <1>4, <1>9, <1>10 DEF Byte
<1> QED
  BY <1>1, <1>11 DEF c, left, next

\* What is left of the frame after each byte of it.
Left(frame) ==
    LET a == Divided({}, frame[1])
        b == Divided(a, frame[2])
        c == Divided(b, frame[3])
        d == Divided(c, frame[4])
        e == Divided(d, frame[5]) IN <<{}, a, b, c, d, e>>

LEMMA LeftIs ==
    ASSUME NEW frame \in [1 .. 5 -> Byte]
    PROVE  /\ Left(frame)[1] = {} /\ Remainder(frame) = Remaining(Left(frame)[6])
           /\ \A k \in 1 .. 6 : Left(frame)[k] \in Residue
           /\ \A k \in 1 .. 5 : Left(frame)[k + 1] = Divided(Left(frame)[k], frame[k])
<1> DEFINE a == Divided({}, frame[1])
           b == Divided(a, frame[2])
           c == Divided(b, frame[3])
           d == Divided(c, frame[4])
           e == Divided(d, frame[5])
<1>1. Left(frame) = <<{}, a, b, c, d, e>>
  BY DEF Left
<1>2. Remainder(frame) = Remaining(e)
  BY DEF Remainder
<1>3. {} \in Residue
  BY DEF Residue
<1>4. a \in Residue
  BY <1>3, DividedIs
<1>5. b \in Residue
  BY <1>4, DividedIs
<1>6. c \in Residue
  BY <1>5, DividedIs
<1>7. d \in Residue
  BY <1>6, DividedIs
<1>8. e \in Residue
  BY <1>7, DividedIs
<1>9. \A k \in 1 .. 6 : Left(frame)[k] \in Residue
  <2> HIDE DEF a, b, c, d, e
  <2> QED
    BY <1>1, <1>3, <1>4, <1>5, <1>6, <1>7, <1>8
<1>10. \A k \in 1 .. 5 : Left(frame)[k + 1] = Divided(Left(frame)[k], frame[k])
  <2>1. /\ a = Divided({}, frame[1]) /\ b = Divided(a, frame[2]) /\ c = Divided(b, frame[3])
        /\ d = Divided(c, frame[4]) /\ e = Divided(d, frame[5])
    OBVIOUS
  <2> HIDE DEF a, b, c, d, e
  <2>2. /\ Left(frame)[1] = {} /\ Left(frame)[2] = a /\ Left(frame)[3] = b
        /\ Left(frame)[4] = c /\ Left(frame)[5] = d /\ Left(frame)[6] = e
    BY <1>1
  <2> QED
    BY <2>1, <2>2
<1>11. Left(frame)[1] = {} /\ Left(frame)[6] = e
  <2> HIDE DEF a, b, c, d, e
  <2> QED
    BY <1>1
<1> QED
  BY <1>2, <1>9, <1>10, <1>11

LEMMA NothingLeft == ShiftLeft(Remaining({}), 1) = {}
<1>1. {} \in Residue
  BY DEF Residue
<1>2. Remaining({}) \in Residue /\ ZerosDown(Remaining({}), {})
  BY <1>1, RemainingIs
<1>3. Remaining({}) = {}
  BY <1>2 DEF ZerosDown, Residue, (+)
<1> QED
  BY <1>3 DEF ShiftLeft

LEMMA ShiftedBack ==
    ASSUME NEW q \in Residue
    PROVE  ShiftRight(ShiftLeft(q, 1), 1) = q
<1>1. \A k \in 0 .. 6 : k \in ShiftRight(ShiftLeft(q, 1), 1) <=> k \in q
  BY DEF ShiftRight, ShiftLeft
<1>2. \A k \in ShiftRight(ShiftLeft(q, 1), 1) : k \in 0 .. 6
  BY DEF ShiftRight, ShiftLeft
<1> QED
  BY <1>1, <1>2 DEF Residue

\* crc is, shifted by one, the remainder of what crc7 has seen; a card that is sent a whole frame
\* has had its clocks, and its answer is on its way to a place that is searched.
SdInv ==
    /\ send \in [1 .. 5 -> Byte] /\ byte \in 0 .. 5 /\ clocks \in Nat
    /\ crc = ShiftLeft(Remaining(Left(send)[byte + 1]), 1)
    /\ sdAt \in {"power", "crc", "scan", "pause", "failed"}
    /\ sdAt \in {"crc", "scan", "pause"} => clocks >= 74
    /\ sdAt = "scan" => response \in Searched

LEMMA SdInitial == SdInit => SdInv
<1> SUFFICES ASSUME SdInit PROVE SdInv
  OBVIOUS
<1>1. PICK arg \in Args : send = <<Index, arg[1], arg[2], arg[3], arg[4]>>
  BY DEF SdInit
<1>2. Index \in Byte /\ arg[1] \in Byte /\ arg[2] \in Byte /\ arg[3] \in Byte /\ arg[4] \in Byte
  BY SpiSdAssumption DEF Byte, Index
<1>3. send \in [1 .. 5 -> Byte]
  BY <1>1, <1>2
<1>4. Left(send)[0 + 1] = {}
  BY <1>3, LeftIs
<1>5. crc = ShiftLeft(Remaining(Left(send)[byte + 1]), 1)
  BY <1>4, NothingLeft DEF SdInit, Zero
<1> QED
  BY <1>3, <1>5 DEF SdInit, SdInv

LEMMA CrcKeeps == ASSUME SdInv, crc7 PROVE SdInv'
<1>1. /\ byte \in 0 .. 4 /\ byte' = byte + 1 /\ crc' = CrcStep(crc, send[byte + 1])
      /\ UNCHANGED <<sdAt, send, clocks, response>> /\ send \in [1 .. 5 -> Byte] /\ sdAt = "crc"
  BY DEF SdInv, crc7
<1> DEFINE r == Left(send)[byte + 1]
<1>2. r \in Residue /\ Left(send)[(byte + 1) + 1] = Divided(r, send[byte + 1])
  BY <1>1, LeftIs
<1>3. send[byte + 1] \in Byte /\ crc = ShiftLeft(Remaining(r), 1)
  BY <1>1 DEF SdInv
<1> HIDE DEF r
<1>4. crc' = ShiftLeft(Remaining(Divided(r, send[byte + 1])), 1)
  BY <1>1, <1>2, <1>3, CrcStepIs
<1>5. crc' = ShiftLeft(Remaining(Left(send')[byte' + 1]), 1)
  BY <1>1, <1>2, <1>4
<1> QED
  BY <1>1, <1>5 DEF SdInv

LEMMA TransferKeeps == ASSUME SdInv, transfer PROVE SdInv'
<1>1. CASE Halt("failed")
  BY <1>1 DEF SdInv, Halt
<1>2. CASE ~Halt("failed")
  <2>1. /\ sdAt = "crc" /\ byte = 5 /\ sdAt' = "scan" /\ UNCHANGED <<send, byte, crc, clocks>>
        /\ IF clocks >= 74 /\ ShiftRight(crc, 1) = Remainder(send)
           THEN \E ncr \in 0..MaxWait : response' = SD_COMMAND_OFFSET + 6 + ncr
           ELSE response' = 0
    BY <1>2 DEF transfer
  <2>2. ShiftRight(crc, 1) = Remainder(send)
    <3>1. /\ Left(send)[6] \in Residue /\ Remainder(send) = Remaining(Left(send)[6])
          /\ crc = ShiftLeft(Remaining(Left(send)[6]), 1)
      BY <2>1, LeftIs DEF SdInv
    <3> QED
      BY <3>1, RemainingIs, ShiftedBack
  <2>3. clocks >= 74
    BY <2>1 DEF SdInv
  <2>4. response' \in Searched
    BY <2>1, <2>2, <2>3, SpiSdAssumption DEF Searched, SD_COMMAND_OFFSET, SD_COMMAND_LEN
  <2> QED
    BY <2>1, <2>3, <2>4 DEF SdInv, Searched, SD_COMMAND_OFFSET, SD_COMMAND_LEN
<1> QED
  BY <1>1, <1>2

LEMMA SpiTaskKeeps == ASSUME SdInv, spiTask PROVE SdInv'
<1>1. CASE Halt("failed")
  BY <1>1 DEF SdInv, Halt
<1>2. CASE /\ sdAt = "power" /\ sdAt' = "crc" /\ clocks' = clocks + ResetClocks
           /\ UNCHANGED <<send, byte, crc, response>>
  <2>1. clocks' \in Nat /\ clocks' >= 74
    BY <1>2 DEF SdInv, ResetClocks
  <2> QED
    BY <1>2, <2>1 DEF SdInv
<1>3. CASE /\ sdAt = "pause" /\ sdAt' = "crc" /\ byte' = 0 /\ crc' = Zero /\ response' = 0
           /\ UNCHANGED <<send, clocks>>
  <2>1. Left(send)[0 + 1] = {}
    BY LeftIs DEF SdInv
  <2>2. crc' = ShiftLeft(Remaining(Left(send')[byte' + 1]), 1)
    BY <1>3, <2>1, NothingLeft DEF Zero
  <2> QED
    BY <1>3, <2>2 DEF SdInv
<1> QED
  BY <1>1, <1>2, <1>3 DEF spiTask

\* The assertion for a card that does not answer (spitest.c) is not reached, whatever the argument:
\* crc7 computes the remainder of every frame.
THEOREM CardAnswers == SdSpec => []ResetAnswered
<1>1. SdInv /\ [SdNext]_sdVars => SdInv'
  <2> SUFFICES ASSUME SdInv, [SdNext]_sdVars PROVE SdInv'
    OBVIOUS
  <2>1. CASE sendCommand
    BY <2>1 DEF SdInv, sendCommand
  <2>2. CASE UNCHANGED sdVars
    BY <2>2 DEF SdInv, sdVars
  <2> QED
    BY <2>1, <2>2, CrcKeeps, TransferKeeps, SpiTaskKeeps DEF SdNext
<1>2. SdInv => ResetAnswered
  BY DEF SdInv, ResetAnswered
<1> QED
  BY <1>1, <1>2, SdInitial, PTL DEF SdSpec

-----------------------------------------------------------------------------
(* BoardTests: a step of one test leaves the variables of the others alone. *)

LEMMA OneMoves ==
    ASSUME [TestNext]_testVars
    PROVE  /\ [BootNext]_bootVars /\ [RampNext]_rampVars /\ [PwmNext]_pwmVars /\ [RgbNext]_rgbVars
           /\ [CanNext]_canVars /\ [MailNext]_mailVars /\ [HandNext]_handVars /\ [SdNext]_sdVars
<1>1. CASE BootStep
  BY <1>1 DEF BootStep
<1>2. CASE RampStep
  BY <1>2 DEF RampStep
<1>3. CASE PwmStep
  BY <1>3 DEF PwmStep
<1>4. CASE RgbStep
  BY <1>4 DEF RgbStep
<1>5. CASE CanStep
  BY <1>5 DEF CanStep
<1>6. CASE MailStep
  BY <1>6 DEF MailStep
<1>7. CASE HandStep
  BY <1>7 DEF HandStep
<1>8. CASE SdStep
  BY <1>8 DEF SdStep
<1>9. CASE UNCHANGED testVars
  BY <1>9 DEF testVars
<1> QED
  BY <1>1, <1>2, <1>3, <1>4, <1>5, <1>6, <1>7, <1>8, <1>9 DEF TestNext

\* What is composed behaves, seen through the variables of one test, as that test alone: the
\* composition implements each of the eight specifications (the fairness of three of them apart).
THEOREM TestsImplementEach ==
    TestSpec => /\ BootSpec /\ RampSpec /\ PwmInit /\ [][PwmNext]_pwmVars /\ RgbInit /\ [][RgbNext]_rgbVars
                /\ CanSpec /\ MailSpec /\ HandSpec /\ SdSpec
<1>1. TestInit => /\ BootInit /\ RampInit /\ PwmInit /\ RgbInit
                  /\ CanInit /\ MailInit /\ HandInit /\ SdInit
  BY DEF TestInit
<1> QED
  BY <1>1, OneMoves, PTL DEF TestSpec, BootSpec, RampSpec, CanSpec, MailSpec, HandSpec, SdSpec

-----------------------------------------------------------------------------
(* The devices and the storages of a board (module Boot).  A device that is *)
(* not shared has one owner, and a storage one task: the tables say which.  *)
(* What a main or a task runs obtains only what is its own (the lemmas      *)
(* <board>_Apart), so no two claims and no two tasks can be in each other's *)
(* way (ApartInv).                                                          *)

\* The function of each board that obtains a device, if it is not shared.
vf610_Owner(c, d) ==
    CASE d \in {"PTB2", "PTA18", "PTA19", "PTB17"} -> "initGPIO"
      [] d = "PTB0" -> IF "PWM_TEST" \in c THEN "pwmtest_init"
                       ELSE IF "SPEEDTEST" \in c THEN "speedtest_init" ELSE "initGPIO"
      [] d \in {"buffer1", "buffer2", "bufferRX", "bufferTX"} -> "bufferInit"
      [] d \in {"buffer3", "buffer4"} -> "bufferInit2"
      [] d = "irqtest.sem" -> "irqtest_init"
      [] d \in {"ppm.memory", "ppm"} -> "ppm_init"
      [] d = "timer1" -> IF "PWM_TEST" \in c THEN "pwmtest_init" ELSE "main"
      [] d = "pwm3" -> "main"
      [] d \in {"rc", "capture2"} -> IF "PWM_TEST" \in c THEN "pwmtest_init" ELSE "rcInit"
      [] d \in {"capture3", "capture4", "capture5", "capture6", "capture7"} -> "rcInit"
      [] d \in {"timer3", "pwm1", "pwm2"} -> "pwmtest_init"
      [] d = "pwm0" -> IF "PWM_TEST" \in c THEN "pwmtest_init" ELSE "speedtest_init"
      [] d \in {"spi1", "spi1.0", "spi1.1", "spi1.2"} ->
            IF "SPITEST" \in c THEN "spitest_init" ELSE "mputest_initTask"
      [] d \in {"mpu", "accel", "gyro"} -> "mputest_initTask"
      [] d = "adc0" -> "adctest_init"
      [] d \in {"spi0", "spi0.0", "tps", "adc1"} -> "tpstest_initTask"
      [] d = "uart0" -> "uart_test1"
      [] d \in {"lc.RX", "lc.TX"} -> "lc_init"
      [] d \in {"PTD25", "semaphore", "event"} -> "speedtest_init"
s32k_Owner(c, d) ==
    CASE d \in {"PTC12", "PTD15", "PTD16", "PTD0", "PTC17", "PTC16"} -> "initGPIO"
      [] d = "PTC15" -> IF {"GPIO", "BMS_R0"} \subseteq c THEN "initGPIO" ELSE "main"
      [] d = "lpuart1" -> IF "LPUART_TEST" \in c THEN "lpuarttest_init" ELSE "main"
      [] d \in {"stdout", "flextimer1", "pwm.PTC15"} -> "main"
      [] d \in {"flextimer0", "PTC3"} -> "timertest_init"
      [] d \in {"lpspi0", "lpspi0.0", "PTB5"} -> "spitest_init"
      [] d \in {"ltc", "ltc.0", "ltc.1"} -> "ltc6811_test"
      [] d = "can" -> "can_test"
      [] d = "adc0" -> "adc_test"
kv4x_Owner(d) ==
    CASE d \in {"PTA4", "PTA5", "PTA12", "PTB16", "PTB17"} -> "initGPIO"
      [] d = "stdout" -> "main"
      [] d = "can" -> "can_test"
stm32_Owner(d) == IF d \in {"stdout", "timer4", "pwm4.4"} THEN "main" ELSE "initGPIO"
am57xx_Owner(c, d) ==
    CASE d \in {"trace", "DCAN1_TX"} -> "main"
      [] d = "GPMC_A17" -> IF "GPIO" \in c THEN "initGPIO" ELSE "boardtest_init"
      [] d \in {"mailbox5.2", "mailbox5.3"} -> "mailbox_test"
      [] d \in {"mailbox5.4", "mailbox5.6", "rproc"} -> "rprocTest_init"
      [] d \in {"MCASP1_AXR13", "MCASP1_AXR14"} ->
            IF "TIMER_TEST" \in c THEN "timertest_init" ELSE "boardtest_init"
      [] d = "board.pins" -> "boardtest_init"
      [] d \in {"spi4", "spi4.0", "spi4.1", "spi4.3"} -> "spitest_init"
      [] d \in {"timer10", "pwm10", "timer11", "capture11", "pwm11"} -> "timertest_init"
      [] d \in {"spi1", "spi1.1", "mpu", "accel", "gyro"} -> "mputest_initTask"
      [] d = "timer14" -> "rtctest_init"
      [] d = "rtc" -> IF "RTC_SOFTWARE_TEST" \in c THEN "rtctest_init" ELSE "softwareCaptureTest_init"
      [] d \in {"timer2", "capture"} -> "softwareCaptureTest_init"
      [] d = "dcan1" -> "can_test"
imx6_Owner(c, d) ==
    CASE d = "uart2" -> "main"
      [] d \in {"PTC13", "PTA5"} -> "initGPIO"
      [] d = "mailbox0" -> IF "MAILBOX_TEST" \in c THEN "mailbox_test" ELSE "rprocTest_init"
      [] d = "rproc" -> "rprocTest_init"
      [] d \in {"clock", "mii"} -> "phytest_init"
      [] d \in {"enet1", "enet2"} -> "enettest_init"
      [] d \in {"eth0", "eth1", "phys"} -> "enettest_task"
c28x_Owner(c, d) ==
    CASE d = "sci0" -> "main"
      [] d = "GPIO_31" -> IF "CAN_DISABLE" \in c THEN "main" ELSE "can_task"
      [] d \in {"GPIO_50", "GPIO_29"} -> "testTask"
      [] d \in {"GPIO_30", "can0", "can_test_messages"} -> "can_task"
Owner(b, c, d) ==
    CASE b = "vf610" -> vf610_Owner(c, d) [] b = "s32k" -> s32k_Owner(c, d)
      [] b = "kv4x" -> kv4x_Owner(d)      [] b = "stm32" -> stm32_Owner(d)
      [] b = "am57xx" -> am57xx_Owner(c, d) [] b = "imx6" -> imx6_Owner(c, d)
      [] b = "linux" -> IF d = "GPMC_A17" THEN "initGPIO" ELSE "adc_test"
      [] b = "c28x" -> c28x_Owner(c, d)
      [] b \in {"m0", "polarfire"} -> "main"
      [] b = "riscv-qemu" ->
            IF d = "timer0" THEN "timerTask"
            ELSE IF d = "uart0" /\ "UART_TEST" \in c THEN "uartTest_init" ELSE "main"

\* The task that lives in a storage, its stack, and the room the storage has.
Lease(b, storage) ==
    CASE storage = "taskLED" -> <<"ledTask", 128, 128>>
      [] storage = "taskMan" -> <<"taskManTask", IF b = "polarfire" THEN 1024 ELSE 512, 512>>
      [] storage = "buffer1TestTask" -> <<"buffer1Test", 512, 512>>
      [] storage = "buffer2TestTask" -> <<"buffer2Test", 512, 512>>
      [] storage = "buffer3TestTask" -> <<"buffer3Test", 512, 512>>
      [] storage = "buffer4TestTask" -> <<"buffer4Test", 512, 512>>
      [] storage = "bufferIRQTask" -> <<"bufferIRQTest", 512, 512>>
      [] storage = "bufferTTYTask" -> <<"bufferTTYTest", 512, 512>>
      [] storage = "taskPing" -> <<"pingTask", 512, 512>>
      [] storage = "ppm->task" -> <<"ppm_task", 512, 512>>
      [] storage = "rcTestTask" -> <<"pwmTask", 512, 512>>
      [] storage = "rcTask" -> <<"rcTestTask", 512, 512>>
      [] storage \in {"taskSPI", "SPITask"} -> <<"spiTask", 512, 512>>
      [] storage = "mpuInitTask" ->
            IF b = "vf610" THEN <<"mputest_initTask", 512, 512>> ELSE <<"mputest_initTask", 1024, 1024>>
      [] storage = "mpuTask" -> <<"mputest_task", 1024, IF b = "vf610" THEN 512 ELSE 1024>>
      [] storage = "adcTask" -> <<"adctestTask", 512, 512>>
      [] storage = "tpsInitTask" -> <<"tpstest_initTask", 512, 512>>
      [] storage = "tpsTask" -> <<"tpstest_task", 512, 512>>
      [] storage = "uartTask1" -> <<"uart_test1", 512, 512>>
      [] storage = "uartTask2" -> <<"uart_test2", 512, 512>>
      [] storage = "LCTask" -> <<"lcTask", 500, 500>>
      [] storage = "task" ->
            IF b = "vf610" THEN <<"speedtest_task", 500, 500>>
            ELSE IF b = "imx6" THEN <<"mailbox_testTask", 512, 512>> ELSE <<"adc_task", 500, 500>>
      [] storage = "echo" -> <<"echoTask", 512, 512>>
      [] storage = "taskCAN" -> <<"can_task", 512, 512>>
      [] storage = "canTest" -> <<"can_task", 2048, 2048>>
      [] storage = "taskADC" -> <<"adc_task", 512, 512>>
      [] storage = "mailboxTask" -> <<"mailbox_testTask", 512, 512>>
      [] storage = "boardTask" -> <<"boardtest_task", 512, 512>>
      [] storage = "timerTask" -> <<"timertest_task", 786, 786>>
      [] storage = "rtctask" -> <<"rtctest_task", 500, 500>>
      [] storage = "captureTask" -> <<"softwareCaptureTest_task", 500, 500>>
      [] storage = "enetTask" -> <<"enettest_task", 1000, 1000>>
      [] storage = "test" -> IF b = "m0" THEN <<"testTask", 512, 512>> ELSE <<"testTask", 1000, 1000>>
      [] storage = "taskTimer" -> <<"timerTask", 512, 512>>
      [] storage = "testTask" -> <<"floatTest", 1024, 1024>>
      [] storage = "testTask2" -> <<"floatTest2", 1024, 1024>>
      [] OTHER -> <<"none", 0, 0>>
\* pwmtest_init gives one storage to two tasks.
Lives(b, c, storage) ==
    {Lease(b, storage)} \union
    (IF b = "vf610" /\ storage = "rcTestTask" /\ {"PWM_TEST", "RC"} \subseteq c THEN {<<"rcTask", 512, 512>>} ELSE {})

\* The fields of a step.
IsStep(step) ==
    DOMAIN step = {"makes", "uses", "fail", "skip", "by", "storage", "stack", "room"} /\ step.skip \in Nat
\* A device is the function's own, or shared.
Own(b, c, name, d) == d \in Shared(b, c) \/ Owner(b, c, d) = name
\* A task is created in a storage of its own; one of the vf610 only by an option.
Housed(b, c, storage, task, stack, room) ==
    /\ storage # "none" => <<task, stack, room>> \in Lives(b, c, storage)
    /\ <<b, task>> = <<"vf610", "mputest_initTask">> => "MPUTEST" \in c
\* A step of the function name obtains only what is its own, or creates one task.
Modest(b, c, name, step) ==
    /\ IsStep(step)
    /\ \/ /\ step.stack = 0 /\ step.storage = "none"
          /\ \A d \in step.makes : Own(b, c, IF step.by = "none" THEN name ELSE step.by, d)
       \/ /\ step.stack > 0
          /\ \E task : step.makes = {task} /\ Housed(b, c, step.storage, task, step.stack, step.room)
Apart(b, c, name, s) ==
    (\E S : s \in Seq(S)) /\ \A k \in 1 .. Len(s) : Modest(b, c, name, s[k])
\* What a function may call.
Named(b, c, s) == Apart(b, c, "none", s) /\ \A k \in 1 .. Len(s) : s[k].by # "none"

LEMMA EmptyApart == \A b, c, name : Apart(b, c, name, <<>>)
<1> SUFFICES ASSUME NEW b, NEW c, NEW name PROVE Apart(b, c, name, <<>>)
  OBVIOUS
<1>1. <<>> \in Seq({}) /\ 1 .. Len(<<>>) = {}
  OBVIOUS
<1> QED
  BY <1>1 DEF Apart

LEMMA JoinApart ==
    \A b, c, name, s, t : Apart(b, c, name, s) /\ Apart(b, c, name, t) => Apart(b, c, name, s \o t)
<1> SUFFICES ASSUME NEW b, NEW c, NEW name, NEW s, NEW t, Apart(b, c, name, s), Apart(b, c, name, t)
             PROVE  Apart(b, c, name, s \o t)
  OBVIOUS
<1>1. PICK S, T : s \in Seq(S) /\ t \in Seq(T)
  BY DEF Apart
<1>2. s \in Seq(S \union T) /\ t \in Seq(S \union T)
  BY <1>1
<1>3. s \o t \in Seq(S \union T)
  BY <1>2
<1>4. ASSUME NEW k \in 1 .. Len(s \o t) PROVE Modest(b, c, name, (s \o t)[k])
  <2>1. CASE k <= Len(s)
    <3>1. (s \o t)[k] = s[k] /\ k \in 1 .. Len(s)
      BY <1>2, <2>1
    <3> QED
      BY <3>1 DEF Apart
  <2>2. CASE k > Len(s)
    <3>1. (s \o t)[k] = t[k - Len(s)] /\ k - Len(s) \in 1 .. Len(t)
      BY <1>2, <2>2
    <3> QED
      BY <3>1 DEF Apart
  <2> QED
    BY <1>2, <2>1, <2>2
<1> QED
  BY <1>3, <1>4 DEF Apart

LEMMA IfApart ==
    \A b, c, name, cond, s : (cond => Apart(b, c, name, s)) => Apart(b, c, name, If(cond, s))
<1> SUFFICES ASSUME NEW b, NEW c, NEW name, NEW cond, NEW s, cond => Apart(b, c, name, s)
             PROVE  Apart(b, c, name, If(cond, s))
  OBVIOUS
<1>1. CASE cond
  BY <1>1 DEF If
<1>2. CASE ~cond
  BY <1>2, EmptyApart DEF If
<1> QED
  BY <1>1, <1>2

LEMMA OneApart ==
    ASSUME NEW b, NEW c, NEW name, NEW step, Modest(b, c, name, step)
    PROVE  Apart(b, c, name, <<step>>)
<1>1. <<step>> \in Seq({step}) /\ 1 .. Len(<<step>>) = {1} /\ <<step>>[1] = step
  OBVIOUS
<1> QED
  BY <1>1 DEF Apart

LEMMA StepModest ==
    ASSUME NEW b, NEW c, NEW name, NEW makes, NEW uses, NEW fail, \A d \in makes : Own(b, c, name, d)
    PROVE  Modest(b, c, name, Step(makes, uses, fail))
BY DEF Step, Modest, IsStep

LEMMA MakeApart ==
    \A b, c, name, d, uses, fail : Own(b, c, name, d) => Apart(b, c, name, Make(d, uses, fail))
BY StepModest, OneApart DEF Make

LEMMA ChannelApart ==
    \A b, c, name, channel, pin, fail :
        Own(b, c, name, channel) /\ Own(b, c, name, pin) => Apart(b, c, name, Channel(channel, pin, fail))
<1> SUFFICES ASSUME NEW b, NEW c, NEW name, NEW channel, NEW pin, NEW fail,
                    Own(b, c, name, channel), Own(b, c, name, pin)
             PROVE  Apart(b, c, name, Channel(channel, pin, fail))
  OBVIOUS
<1>1. Modest(b, c, name, Step({channel, pin}, {}, fail))
  BY StepModest
<1> QED
  BY <1>1, OneApart DEF Channel

LEMMA SetApart ==
    \A b, c, name, uses, fail, times : times \in Nat => Apart(b, c, name, Set(uses, fail, times))
<1> SUFFICES ASSUME NEW b, NEW c, NEW name, NEW uses, NEW fail, NEW times \in Nat
             PROVE  Apart(b, c, name, Set(uses, fail, times))
  OBVIOUS
<1> DEFINE step == Step({}, uses, fail)
<1>1. Modest(b, c, name, step)
  BY StepModest
<1>2. Set(uses, fail, times) = [k \in 1 .. times |-> step]
  BY DEF Set
<1> HIDE DEF step
<1>3. [k \in 1 .. times |-> step] \in Seq({step}) /\ Len([k \in 1 .. times |-> step]) = times
  OBVIOUS
<1> QED
  BY <1>1, <1>2, <1>3 DEF Apart

LEMMA EachApart ==
    \A b, c, name, D, ds, uses, fail :
        ds \in Seq(D) /\ (\A d \in D : Own(b, c, name, d)) => Apart(b, c, name, Each(ds, uses, fail))
<1> SUFFICES ASSUME NEW b, NEW c, NEW name, NEW D, NEW ds \in Seq(D), NEW uses, NEW fail,
                    \A d \in D : Own(b, c, name, d)
             PROVE  Apart(b, c, name, Each(ds, uses, fail))
  OBVIOUS
<1> DEFINE one(d) == Step({d}, uses, fail)
           s == Each(ds, uses, fail)
<1>1. \A d \in D : Modest(b, c, name, one(d))
  BY StepModest
<1>2. s = [k \in 1 .. Len(ds) |-> one(ds[k])]
  BY DEF Each
<1> HIDE DEF one, s
<1>3. s \in Seq({one(d) : d \in D}) /\ Len(s) = Len(ds)
  BY <1>2
<1>4. \A k \in 1 .. Len(ds) : s[k] = one(ds[k]) /\ ds[k] \in D
  BY <1>2
<1>5. Apart(b, c, name, s)
  BY <1>1, <1>3, <1>4 DEF Apart
<1> QED
  BY <1>5 DEF s

LEMMA StartApart ==
    \A b, c, name, task, uses, fail, storage, stack, room :
        stack > 0 /\ Housed(b, c, storage, task, stack, room)
          => Apart(b, c, name, Start(task, uses, fail, storage, stack, room))
<1> SUFFICES ASSUME NEW b, NEW c, NEW name, NEW task, NEW uses, NEW fail, NEW storage, NEW stack, NEW room,
                    stack > 0, Housed(b, c, storage, task, stack, room)
             PROVE  Apart(b, c, name, Start(task, uses, fail, storage, stack, room))
  OBVIOUS
<1> DEFINE step == [Step({task}, uses, fail) EXCEPT !.storage = storage, !.stack = stack, !.room = room]
<1>1. Modest(b, c, name, step)
  BY DEF Step, Modest, IsStep
<1> QED
  BY <1>1, OneApart DEF Start

LEMMA FnApart ==
    \A b, c, name, s : name # "none" /\ Apart(b, c, name, s) => Named(b, c, Fn(name, s))
<1> SUFFICES ASSUME NEW b, NEW c, NEW name, name # "none", NEW s, Apart(b, c, name, s)
             PROVE  Named(b, c, Fn(name, s))
  OBVIOUS
<1> DEFINE m == Len(s)
           f == Fn(name, s)
<1>1. m \in Nat /\ DOMAIN s = 1 .. m /\ \A k \in 1 .. m : Modest(b, c, name, s[k])
  BY DEF Apart
<1>2. f \in Seq({f[k] : k \in 1 .. m}) /\ Len(f) = m
  <2>1. f = [k \in 1 .. m |-> f[k]]
    BY <1>1 DEF Fn
  <2> HIDE DEF f
  <2>2. [k \in 1 .. m |-> f[k]] \in [1 .. m -> {f[k] : k \in 1 .. m}]
    OBVIOUS
  <2> QED
    BY <1>1, <2>1, <2>2
<1>3. ASSUME NEW k \in 1 .. m PROVE Modest(b, c, "none", f[k]) /\ f[k].by # "none"
  <2> DEFINE l == IF s[k].fail = "return" THEN m - k ELSE 0
             new == [s[k] EXCEPT !.by = name, !.skip = l]
  <2>1. f[k] = IF s[k].by # "none" THEN s[k] ELSE new
    BY <1>1 DEF Fn
  <2>2. l \in Nat /\ Modest(b, c, name, s[k])
    BY <1>1
  <2> HIDE DEF l
  <2>3. s[k].by = "none" => Modest(b, c, "none", new) /\ new.by # "none"
    BY <2>2 DEF Modest, IsStep
  <2>4. s[k].by # "none" => Modest(b, c, "none", s[k])
    BY <2>2 DEF Modest
  <2> QED
    BY <2>1, <2>3, <2>4
<1>4. Named(b, c, f)
  BY <1>2, <1>3 DEF Named, Apart
<1> QED
  BY <1>4 DEF f

LEMMA NamedApart == \A b, c, name, s : Named(b, c, s) => Apart(b, c, name, s)
BY DEF Named, Apart, Modest

LEMMA AssertedNamed == \A b, c, s : Named(b, c, s) => Named(b, c, Asserted(s))
<1> SUFFICES ASSUME NEW b, NEW c, NEW s, Named(b, c, s)
             PROVE  Named(b, c, Asserted(s))
  OBVIOUS
<1> DEFINE m == Len(s)
           f == Asserted(s)
<1>1. m \in Nat /\ DOMAIN s = 1 .. m /\ \A k \in 1 .. m : Modest(b, c, "none", s[k]) /\ s[k].by # "none"
  BY DEF Named, Apart
<1>2. f \in Seq({f[k] : k \in 1 .. m}) /\ Len(f) = m
  <2>1. f = [k \in 1 .. m |-> f[k]]
    BY <1>1 DEF Asserted
  <2> HIDE DEF f
  <2>2. [k \in 1 .. m |-> f[k]] \in [1 .. m -> {f[k] : k \in 1 .. m}]
    OBVIOUS
  <2> QED
    BY <1>1, <2>1, <2>2
<1>3. ASSUME NEW k \in 1 .. m PROVE Modest(b, c, "none", f[k]) /\ f[k].by # "none"
  <2> DEFINE g == IF s[k].fail = "return" THEN "assert" ELSE s[k].fail
  <2>1. f[k] = [s[k] EXCEPT !.fail = g]
    BY <1>1 DEF Asserted, Modest, IsStep
  <2>2. Modest(b, c, "none", s[k]) /\ s[k].by # "none"
    BY <1>1
  <2> HIDE DEF g
  <2> QED
    BY <2>1, <2>2 DEF Modest, IsStep
<1>4. Named(b, c, f)
  BY <1>2, <1>3 DEF Named, Apart
<1> QED
  BY <1>4 DEF f

LEMMA TwoApart ==
    \A b, c, name, d, e, uses, fail :
        Own(b, c, name, d) /\ Own(b, c, name, e) => Apart(b, c, name, Each(<<d, e>>, uses, fail))
<1> SUFFICES ASSUME NEW b, NEW c, NEW name, NEW d, NEW e, NEW uses, NEW fail, Own(b, c, name, d), Own(b, c, name, e)
             PROVE  Apart(b, c, name, Each(<<d, e>>, uses, fail))
  OBVIOUS
<1> DEFINE D == {d, e}
           ds == <<d, e>>
<1>1. ds \in Seq(D) /\ \A x \in D : Own(b, c, name, x)
  OBVIOUS
<1> HIDE DEF D, ds
<1>2. Apart(b, c, name, Each(ds, uses, fail))
  BY <1>1, EachApart
<1> QED
  BY <1>2 DEF ds

LEMMA ThreeApart ==
    \A b, c, name, d, e, f, uses, fail :
        Own(b, c, name, d) /\ Own(b, c, name, e) /\ Own(b, c, name, f)
          => Apart(b, c, name, Each(<<d, e, f>>, uses, fail))
<1> SUFFICES ASSUME NEW b, NEW c, NEW name, NEW d, NEW e, NEW f, NEW uses, NEW fail,
                    Own(b, c, name, d), Own(b, c, name, e), Own(b, c, name, f)
             PROVE  Apart(b, c, name, Each(<<d, e, f>>, uses, fail))
  OBVIOUS
<1> DEFINE D == {d, e, f}
           ds == <<d, e, f>>
<1>1. ds \in Seq(D) /\ \A x \in D : Own(b, c, name, x)
  OBVIOUS
<1> HIDE DEF D, ds
<1>2. Apart(b, c, name, Each(ds, uses, fail))
  BY <1>1, EachApart
<1> QED
  BY <1>2 DEF ds

LEMMA ConsoleApart ==
    \A b, c, name, uart, fail : Own(b, c, name, uart) => Apart(b, c, name, Console(c, uart, fail))
BY MakeApart, SetApart, IfApart, JoinApart DEF Console

LEMMA ManagerApart ==
    \A b, c, name, stack, fail :
        stack > 0 /\ Housed(b, c, "taskMan", "taskManTask", stack, 512)
          => Apart(b, c, name, Manager(c, stack, fail))
BY StartApart, IfApart DEF Manager

LEMMA vf610_Apart ==
    ASSUME NEW c
    PROVE  /\ Named("vf610", c, vf610_main(c))
           /\ \A task \in DOMAIN vf610_tasks(c) :
                 (task = "mputest_initTask" => "MPUTEST" \in c) => Apart("vf610", c, "none", vf610_tasks(c)[task])
<1> USE MakeApart, SetApart, TwoApart, ThreeApart, StartApart, IfApart, JoinApart, FnApart
<1> DEFINE Of(name, D) == \A d \in D : Own("vf610", c, name, d)
           In(storage, task, stack, room) == Housed("vf610", c, storage, task, stack, room)
<1>1. /\ Of("initGPIO", {"gpio", "PTB2", "PTA18", "PTA19", "PTB17"})
      /\ "GPIO" \in c /\ "PWM_TEST" \notin c => Of("initGPIO", {"PTB0"})
      /\ Of("bufferInit", {"buffer1", "buffer2", "bufferRX", "bufferTX"})
      /\ Of("bufferInit2", {"buffer3", "buffer4"})
      /\ Of("irqtest_init", {"irqtest.sem"})
      /\ Of("ppm_init", {"ppm.memory", "timer0", "ppm"})
      /\ "PWM_TEST" \in c => Of("pwmtest_init", {"timer0", "timer1", "pwm0", "PTB0", "pwm2", "pwm1", "timer3", "rc", "capture2"})
      /\ "PWM_TEST" \notin c => Of("rcInit", {"rc", "capture2"}) /\ Of("main", {"timer1"})
      /\ Of("rcInit", {"capture5", "capture4", "capture3", "capture7", "capture6"})
      /\ Of("main", {"uart1", "pwm3"})
      /\ "SPITEST" \in c => Of("spitest_init", {"spi1", "spi1.0", "spi1.1", "spi1.2"})
      /\ "MPUTEST" \in c => Of("mputest_initTask", {"spi1", "spi1.1", "spi1.2"})
      /\ Of("mputest_initTask", {"mpu", "accel", "gyro"})
      /\ Of("adctest_init", {"adc0"})
      /\ Of("tpstest_initTask", {"spi0", "spi0.0", "tps", "adc1"})
      /\ Of("uart_test1", {"uart0"}) /\ Of("uart_test2", {"uart1"})
      /\ Of("lc_init", {"lc.RX", "lc.TX"})
      /\ Of("speedtest_init", {"timer0", "gpio", "PTD25", "semaphore", "event"})
      /\ "SPEEDTEST" \in c => Of("speedtest_init", {"pwm0", "PTB0"})
  BY DEF Own, Owner, vf610_Owner, Shared, When
<1>2. /\ In("buffer1TestTask", "buffer1Test", 512, 512) /\ In("buffer2TestTask", "buffer2Test", 512, 512)
      /\ In("buffer3TestTask", "buffer3Test", 512, 512) /\ In("buffer4TestTask", "buffer4Test", 512, 512)
      /\ In("bufferIRQTask", "bufferIRQTest", 512, 512) /\ In("bufferTTYTask", "bufferTTYTest", 512, 512)
      /\ In("taskPing", "pingTask", 512, 512) /\ In("ppm->task", "ppm_task", 512, 512)
      /\ In("rcTestTask", "pwmTask", 512, 512) /\ In("rcTask", "rcTestTask", 512, 512)
      /\ {"PWM_TEST", "RC"} \subseteq c => In("rcTestTask", "rcTask", 512, 512)
      /\ In("taskSPI", "spiTask", 512, 512) /\ ("MPUTEST" \in c => In("mpuInitTask", "mputest_initTask", 512, 512))
      /\ In("mpuTask", "mputest_task", 1024, 512) /\ In("adcTask", "adctestTask", 512, 512)
      /\ In("tpsInitTask", "tpstest_initTask", 512, 512) /\ In("tpsTask", "tpstest_task", 512, 512)
      /\ In("uartTask1", "uart_test1", 512, 512) /\ In("uartTask2", "uart_test2", 512, 512)
      /\ In("LCTask", "lcTask", 500, 500) /\ In("task", "speedtest_task", 500, 500)
      /\ In("taskLED", "ledTask", 128, 128) /\ In("taskMan", "taskManTask", 512, 512)
  BY SMTT(20) DEF Housed, Lives, Lease
<1>3. "GPIO" \in c => Named("vf610", c, vf610_initGPIO(c))
  BY <1>1 DEF vf610_initGPIO
<1>4. Named("vf610", c, vf610_bufferInit(c))
  BY <1>1, <1>2 DEF vf610_bufferInit
<1>5. Named("vf610", c, vf610_bufferInit2)
  BY <1>1, <1>2 DEF vf610_bufferInit2
<1>6. Named("vf610", c, vf610_irqtest_init)
  BY <1>1, <1>2 DEF vf610_irqtest_init
<1>7. Named("vf610", c, vf610_ppm_init)
  BY <1>1, <1>2 DEF vf610_ppm_init
<1>8. "PWM_TEST" \in c => Named("vf610", c, vf610_pwmtest_init(c))
  <2> SUFFICES ASSUME "PWM_TEST" \in c PROVE Named("vf610", c, vf610_pwmtest_init(c))
    OBVIOUS
  <2>1. CASE "RC" \in c
    BY <1>1, <1>2, <2>1, ChannelApart DEF vf610_pwmtest_init
  <2>2. CASE "RC" \notin c
    BY <1>1, <1>2, <2>2, ChannelApart DEF vf610_pwmtest_init
  <2> QED
    BY <2>1, <2>2
<1>9. "PWM_TEST" \notin c => Named("vf610", c, rcInit)
  <2> DEFINE D == {"capture5", "capture4", "capture3", "capture2", "capture7", "capture6"}
             ds == <<"capture5", "capture4", "capture3", "capture2", "capture7", "capture6">>
  <2> SUFFICES ASSUME "PWM_TEST" \notin c PROVE Named("vf610", c, rcInit)
    OBVIOUS
  <2>1. ds \in Seq(D)
    OBVIOUS
  <2>2. \A d \in D : Own("vf610", c, "rcInit", d)
    BY <1>1
  <2> HIDE DEF D, ds
  <2>3. Apart("vf610", c, "rcInit", Each(ds, {}, "assert"))
    BY <2>1, <2>2, EachApart
  <2> QED
    BY <1>1, <1>2, <2>3 DEF rcInit, ds
<1>10. "SPITEST" \in c => Named("vf610", c, vf610_spitest_init)
  BY <1>1, <1>2 DEF vf610_spitest_init
<1>11. "MPUTEST" \in c => Named("vf610", c, vf610_mputest_init)
  BY <1>2 DEF vf610_mputest_init
<1>12. "MPUTEST" \in c => Named("vf610", c, vf610_mputest_initTask)
  BY <1>1, <1>2 DEF vf610_mputest_initTask
<1>13. Named("vf610", c, adctest_init) /\ Named("vf610", c, tpstest_init)
  BY <1>1, <1>2 DEF adctest_init, tpstest_init
<1>14. Named("vf610", c, tpstest_initTask)
  BY <1>1, <1>2 DEF tpstest_initTask
<1>15. Named("vf610", c, uarttest_init) /\ Named("vf610", c, lc_init)
  BY <1>1, <1>2 DEF uarttest_init, lc_init
<1>16. "SPEEDTEST" \in c => Named("vf610", c, speedtest_init)
  BY <1>1, <1>2, ChannelApart DEF speedtest_init
<1>17. Named("vf610", c, vf610_main(c))
  <2> DEFINE Mine(s) == Apart("vf610", c, "main", s)
  <2>1. /\ Mine(Set({}, "assert", 1) \o Console(c, "uart1", "drop"))
        /\ Mine(If({"GPIO", "PWM"} \intersect c # {}, Start("ledTask", {}, "drop", "taskLED", 128, 128)))
        /\ Mine(Manager(c, 512, "drop"))
    BY <1>1, <1>2, ConsoleApart, ManagerApart
  <2>2. /\ Mine(If("GPIO" \in c, Asserted(vf610_initGPIO(c))))
        /\ Mine(If("BUFFERTEST" \in c, vf610_bufferInit(c)))
        /\ Mine(If("IRQTEST" \in c, vf610_irqtest_init))
        /\ Mine(If("PPM" \in c, vf610_ppm_init \o Set({"ppm", "timer0"}, "drop", 1)))
        /\ Mine(If("PWM_TEST" \in c, vf610_pwmtest_init(c)))
    BY <1>3, <1>4, <1>6, <1>7, <1>8, NamedApart, AssertedNamed
  <2>3. Mine(If("PWM_TEST" \notin c /\ "FLEXTIMER" \in c,
                Each(<<"timer1", "pwm3">>, {}, "assert") \o Set({"pwm3"}, "assert", 2)
                \o If("RCTEST" \in c, rcInit)))
    BY <1>1, <1>9, NamedApart
  <2>4. /\ Mine(If("SPITEST" \in c, vf610_spitest_init)) /\ Mine(If("MPUTEST" \in c, vf610_mputest_init))
        /\ Mine(If("ADCTEST" \in c, adctest_init)) /\ Mine(If("TPSTEST" \in c, tpstest_init))
        /\ Mine(If("UARTTEST" \in c, uarttest_init)) /\ Mine(If("LINUX_CON" \in c, lc_init))
        /\ Mine(If("SPEEDTEST" \in c, speedtest_init))
    BY <1>10, <1>11, <1>13, <1>15, <1>16, NamedApart
  <2> QED
    BY <2>1, <2>2, <2>3, <2>4 DEF vf610_main
<1>18. LET Free(s) == Apart("vf610", c, "none", s) IN
       /\ Free(vf610_ledRound(c)) /\ Free(vf610_spiTask) /\ Free(vf610_mputest_task) /\ Free(adctestTask)
       /\ Free(tpstest_task) /\ Free(pwmRound) /\ Free(rcTestTask) /\ Free(rcTask) /\ Free(Set({"lc.RX"}, "drop", 1))
  BY DEF vf610_ledRound, vf610_spiTask, vf610_mputest_task, adctestTask, tpstest_task, pwmRound, rcTestTask, rcTask
<1>19. Named("vf610", c, uart_test1) /\ Named("vf610", c, uart_test2)
  BY <1>1 DEF uart_test1, uart_test2
<1>20. \A task \in DOMAIN vf610_tasks(c) :
          (task = "mputest_initTask" => "MPUTEST" \in c) => Apart("vf610", c, "none", vf610_tasks(c)[task])
  BY <1>5, <1>12, <1>14, <1>18, <1>19, NamedApart DEF vf610_tasks
<1> QED
  BY <1>17, <1>20

LEMMA s32k_Apart ==
    ASSUME NEW c, ~({"LPUART_TEST", "STDOUT_UART1"} \subseteq c)
    PROVE  /\ Named("s32k", c, s32k_main(c))
           /\ \A task \in DOMAIN s32k_tasks(c) :
                 Apart("s32k", c, "none", s32k_tasks(c)[task])
<1> USE MakeApart, SetApart, TwoApart, ThreeApart, StartApart, IfApart, JoinApart, FnApart
<1> DEFINE Of(name, D) == \A d \in D : Own("s32k", c, name, d)
           In(storage, task, stack, room) == Housed("s32k", c, storage, task, stack, room)
           Mine(s) == Apart("s32k", c, "main", s)
           Free(s) == Apart("s32k", c, "none", s)
<1>1. /\ Of("initGPIO", {"gpio", "PTC12", "PTD15", "PTD16", "PTD0", "PTC17", "PTC16"})
      /\ "GPIO" \in c /\ "BMS_R0" \in c => Of("initGPIO", {"PTC15"})
      /\ s32k_PWM(c) => Of("main", {"PTC15"})
      /\ "LPUART_TEST" \in c => Of("lpuarttest_init", {"lpuart1"})
      /\ Of("timertest_init", {"flextimer0", "PTC3"})
      /\ "TIMER_TEST_PWM" \in c => Of("timertest_init", {"PTD15", "PTD16", "PTD0"})
      /\ Of("spitest_init", {"lpspi0", "lpspi0.0", "gpio", "PTB5"})
      /\ Of("ltc6811_test", {"ltc", "ltc.0", "ltc.1"})
      /\ Of("can_test", {"can"}) /\ Of("adc_test", {"adc0"})
      /\ Of("main", {"stdout", "flextimer1", "pwm.PTC15"})
      /\ "STDOUT_UART1" \in c => Of("main", {"lpuart1"})
  BY DEF Own, Owner, s32k_Owner, Shared, When
<1>2. /\ In("echo", "echoTask", 512, 512) /\ In("taskSPI", "spiTask", 512, 512)
      /\ In("taskCAN", "can_task", 512, 512) /\ In("taskADC", "adc_task", 512, 512)
      /\ In("taskLED", "ledTask", 128, 128) /\ In("taskMan", "taskManTask", 512, 512)
  BY SMTT(20) DEF Housed, Lives, Lease
<1>3. "GPIO" \in c => Named("s32k", c, s32k_initGPIO(c))
  BY <1>1 DEF s32k_initGPIO
<1>4. "LPUART_TEST" \in c => Named("s32k", c, lpuarttest_init)
  BY <1>1, <1>2 DEF lpuarttest_init
<1>5. Named("s32k", c, s32k_timertest_init(c))
  <2>1. CASE "TIMER_TEST_PWM" \in c
    BY <1>1, <2>1 DEF s32k_timertest_init
  <2>2. CASE "TIMER_TEST_PWM" \notin c
    BY <1>1, <2>2 DEF s32k_timertest_init
  <2> QED
    BY <2>1, <2>2
<1>6. Named("s32k", c, s32k_spitest_init(c))
  BY <1>1, <1>2 DEF s32k_spitest_init
<1>7. Named("s32k", c, ltc6811_test) /\ Named("s32k", c, can_test) /\ Named("s32k", c, adc_test)
  BY <1>1, <1>2 DEF ltc6811_test, can_test, adc_test
<1>8. Named("s32k", c, s32k_main(c))
  <2>1. /\ Mine(Set({}, "assert", 1) \o Console(c, IF "STDOUT_UART1" \in c THEN "lpuart1" ELSE "stdout", "assert"))
        /\ Mine(If("GPIO" \in c, Asserted(s32k_initGPIO(c))))
        /\ Mine(If(s32k_PWM(c), Make("flextimer1", {}, "assert") \o Channel("pwm.PTC15", "PTC15", "assert")
                                \o Set({"pwm.PTC15"}, "assert", 2)))
    BY <1>1, <1>3, ConsoleApart, NamedApart, AssertedNamed, ChannelApart
  <2>2. /\ Mine(If(("GPIO" \in c \/ {"PWM", "PTC15"} \subseteq c) /\ "DELAY_UNTIL" \in c /\ "TIMER_TEST" \notin c,
                   Start("ledTask", {}, "drop", "taskLED", 128, 128)))
        /\ Mine(Manager(c, 512, "drop"))
    BY <1>2, ManagerApart
  <2>3. /\ Mine(If("LPUART_TEST" \in c, lpuarttest_init)) /\ Mine(If("TIMER_TEST" \in c, s32k_timertest_init(c)))
        /\ Mine(If("SPI_TEST" \in c, s32k_spitest_init(c))) /\ Mine(If("LTC6811_TEST" \in c, ltc6811_test))
        /\ Mine(If("CAN_TEST" \in c, can_test)) /\ Mine(If("ADC_TEST" \in c, adc_test))
    BY <1>4, <1>5, <1>6, <1>7, NamedApart
  <2> QED
    BY <2>1, <2>2, <2>3 DEF s32k_main
<1>9. /\ Free(s32k_ledRound(c)) /\ Free(s32k_echoTask) /\ Free(adc_task) /\ Free(s32k_spiTask)
      /\ Free(Set({"can"}, "assert", 2))
  BY DEF s32k_ledRound, s32k_echoTask, adc_task, s32k_spiTask
<1> QED
  BY <1>8, <1>9 DEF s32k_tasks

LEMMA kv4x_Apart ==
    ASSUME NEW c
    PROVE  /\ Named("kv4x", c, kv4x_main(c))
           /\ \A task \in DOMAIN kv4x_tasks(c) :
                 Apart("kv4x", c, "none", kv4x_tasks(c)[task])
<1> USE MakeApart, SetApart, TwoApart, ThreeApart, StartApart, IfApart, JoinApart, FnApart
<1> DEFINE Of(name, D) == \A d \in D : Own("kv4x", c, name, d)
           In(storage, task, stack, room) == Housed("kv4x", c, storage, task, stack, room)
           Mine(s) == Apart("kv4x", c, "main", s)
           Free(s) == Apart("kv4x", c, "none", s)
<1>1. /\ Of("initGPIO", {"gpio", "PTA4", "PTA5", "PTA12", "PTB16", "PTB17"})
      /\ Of("main", {"stdout"}) /\ Of("can_test", {"can"})
  BY DEF Own, Owner, kv4x_Owner, Shared
<1>2. /\ In("taskCAN", "can_task", 512, 512)
      /\ In("taskLED", "ledTask", 128, 128) /\ In("taskMan", "taskManTask", 512, 512)
  BY SMTT(20) DEF Housed, Lives, Lease
<1>3. Apart("kv4x", c, "initGPIO", Each(kv4x_leds(c), {"gpio"}, "return"))
  <2> DEFINE D == {"PTA4", "PTA5", "PTA12", "PTB16", "PTB17"}
  <2>1. kv4x_leds(c) \in Seq(D)
    <3>1. <<"PTA4", "PTA5", "PTA12">> \in Seq(D)
      OBVIOUS
    <3>2. <<"PTB16", "PTB17">> \in Seq(D)
      OBVIOUS
    <3>3. <<>> \in Seq(D)
      OBVIOUS
    <3> HIDE DEF D
    <3> QED
      BY <3>1, <3>2, <3>3, Zenon DEF kv4x_leds
  <2>2. \A d \in D : Own("kv4x", c, "initGPIO", d)
    BY <1>1
  <2> HIDE DEF D
  <2> QED
    BY <2>1, <2>2, EachApart
<1>4. Named("kv4x", c, kv4x_initGPIO(c)) /\ Named("kv4x", c, can_test)
  BY <1>1, <1>2, <1>3 DEF kv4x_initGPIO, can_test
<1>5. Named("kv4x", c, kv4x_main(c))
  BY <1>1, <1>2, <1>4, ConsoleApart, ManagerApart, NamedApart, AssertedNamed DEF kv4x_main
<1>6. Free(Set({"can"}, "assert", 2))
  OBVIOUS
<1> QED
  BY <1>5, <1>6 DEF kv4x_tasks

LEMMA stm32_Apart ==
    ASSUME NEW c
    PROVE  /\ Named("stm32", c, stm32_main(c))
           /\ \A task \in DOMAIN stm32_tasks(c) :
                 Apart("stm32", c, "none", stm32_tasks(c)[task])
<1> USE MakeApart, SetApart, TwoApart, ThreeApart, StartApart, IfApart, JoinApart, FnApart
<1> DEFINE Of(name, D) == \A d \in D : Own("stm32", c, name, d)
           In(storage, task, stack, room) == Housed("stm32", c, storage, task, stack, room)
           Mine(s) == Apart("stm32", c, "main", s)
           Free(s) == Apart("stm32", c, "none", s)
<1>1. /\ Of("initGPIO", {"gpio", "PTA0", "PTC13", "PTD14", "PTA5"})
      /\ Of("main", {"stdout", "timer4", "pwm4.4"})
  BY DEF Own, Owner, stm32_Owner, Shared
<1>2. In("taskLED", "ledTask", 128, 128) /\ In("taskMan", "taskManTask", 512, 512)
  BY SMTT(20) DEF Housed, Lives, Lease
<1>3. Named("stm32", c, stm32_initGPIO(c))
  BY <1>1 DEF stm32_initGPIO
<1>4. Named("stm32", c, stm32_main(c))
  BY <1>1, <1>2, <1>3, ConsoleApart, ManagerApart, NamedApart, AssertedNamed DEF stm32_main
<1>5. Free(stm32_ledRound(c))
  BY DEF stm32_ledRound
<1> QED
  BY <1>4, <1>5 DEF stm32_tasks

LEMMA am57xx_Apart ==
    ASSUME NEW c
    PROVE  /\ Named("am57xx", c, am57xx_main(c))
           /\ \A task \in DOMAIN am57xx_tasks(c) :
                 Apart("am57xx", c, "none", am57xx_tasks(c)[task])
<1> USE MakeApart, SetApart, TwoApart, ThreeApart, StartApart, IfApart, JoinApart, FnApart
<1> DEFINE Of(name, D) == \A d \in D : Own("am57xx", c, name, d)
           In(storage, task, stack, room) == Housed("am57xx", c, storage, task, stack, room)
           Mine(s) == Apart("am57xx", c, "main", s)
           Free(s) == Apart("am57xx", c, "none", s)
<1>1. /\ Of("initGPIO", {"gpio"}) /\ ("GPIO" \in c => Of("initGPIO", {"GPMC_A17"}))
      /\ Of("mailbox_test", {"mailbox5.2", "mailbox5.3"})
      /\ Of("rprocTest_init", {"mailbox5.6", "mailbox5.4", "rproc"})
      /\ Of("boardtest_init", {"gpio", "board.pins"}) /\ ("BOARD_TEST" \in c => Of("boardtest_init", {"GPMC_A17"}))
      /\ "TIMER_TEST" \notin c => Of("boardtest_init", {"MCASP1_AXR13", "MCASP1_AXR14"})
      /\ Of("spitest_init", {"spi4", "spi4.0", "spi4.1", "spi4.3"})
      /\ Of("timertest_init", {"gpio", "timer10", "pwm10", "timer11", "capture11", "pwm11"})
      /\ "TIMER_TEST" \in c => Of("timertest_init", {"MCASP1_AXR13", "MCASP1_AXR14"})
      /\ Of("mputest_initTask", {"spi1", "spi1.1", "mpu", "accel", "gyro"})
      /\ "RTC_SOFTWARE_TEST" \in c => Of("rtctest_init", {"timer14", "rtc"})
      /\ "SOFTWARE_CAPTURE_TEST" \in c =>
            Of("softwareCaptureTest_init", {"gpio", "MCASP1_AXR13", "timer2", "rtc", "capture"})
      /\ Of("can_test", {"dcan1"}) /\ Of("main", {"trace", "gpio", "DCAN1_TX"})
  BY DEF Own, Owner, am57xx_Owner, Shared, When
<1>2. /\ In("mailboxTask", "mailbox_testTask", 512, 512) /\ In("boardTask", "boardtest_task", 512, 512)
      /\ In("SPITask", "spiTask", 512, 512) /\ In("timerTask", "timertest_task", 786, 786)
      /\ In("mpuInitTask", "mputest_initTask", 1024, 1024) /\ In("mpuTask", "mputest_task", 1024, 1024)
      /\ In("rtctask", "rtctest_task", 500, 500) /\ In("captureTask", "softwareCaptureTest_task", 500, 500)
      /\ In("taskCAN", "can_task", 512, 512)
      /\ In("taskLED", "ledTask", 128, 128) /\ In("taskMan", "taskManTask", 512, 512)
  BY SMTT(20) DEF Housed, Lives, Lease
<1>3. ("GPIO" \in c => Named("am57xx", c, am57xx_initGPIO)) /\ Named("am57xx", c, am57xx_mailbox_test)
  BY <1>1, <1>2 DEF am57xx_initGPIO, am57xx_mailbox_test
<1>4. /\ Named("am57xx", c, am57xx_rprocTest_init(c))
      /\ "BOARD_TEST" \in c => Named("am57xx", c, am57xx_boardtest_init(c))
  <2>1. Named("am57xx", c, am57xx_rprocTest_init(c))
    BY <1>1 DEF am57xx_rprocTest_init
  <2>2. Apart("am57xx", c, "boardtest_init", boardtest_pins(c))
    BY <1>1 DEF boardtest_pins
  <2>3. "BOARD_TEST" \in c => Named("am57xx", c, am57xx_boardtest_init(c))
    BY <1>1, <1>2, <2>2 DEF am57xx_boardtest_init
  <2> QED
    BY <2>1, <2>3
<1>5. Named("am57xx", c, am57xx_spitest_init) /\ Named("am57xx", c, am57xx_mputest_init)
  BY <1>1, <1>2 DEF am57xx_spitest_init, am57xx_mputest_init
<1>6. "TIMER_TEST" \in c => Named("am57xx", c, am57xx_timertest_init(c))
  <2> SUFFICES ASSUME "TIMER_TEST" \in c PROVE Named("am57xx", c, am57xx_timertest_init(c))
    OBVIOUS
  <2>1. CASE "TIMER10_PWM" \notin c
    BY <1>1, <1>2, <2>1 DEF am57xx_timertest_init
  <2>2. CASE "TIMER10_PWM" \in c
    BY <1>1, <1>2, <2>2 DEF am57xx_timertest_init
  <2> QED
    BY <2>1, <2>2
<1>7. Named("am57xx", c, am57xx_mputest_initTask)
  BY <1>1, <1>2 DEF am57xx_mputest_initTask
<1>8. /\ "RTC_SOFTWARE_TEST" \in c => Named("am57xx", c, rtctest_init)
      /\ "SOFTWARE_CAPTURE_TEST" \in c => Named("am57xx", c, softwareCaptureTest_init)
      /\ Named("am57xx", c, dcan_can_test)
  BY <1>1, <1>2 DEF rtctest_init, softwareCaptureTest_init, dcan_can_test
<1>9. Named("am57xx", c, am57xx_main(c))
  <2>1. /\ Mine(Set({}, "assert", 1) \o Console(c, "trace", "drop"))
        /\ Mine(If("GPIO" \in c, Asserted(am57xx_initGPIO)))
        /\ Mine(If({"GPIO", "DELAY_UNTIL"} \subseteq c, Start("ledTask", {}, "assert", "taskLED", 128, 128)))
        /\ Mine(Manager(c, 512, "assert"))
    <3>1. Mine(Console(c, "trace", "drop")) /\ Mine(Manager(c, 512, "assert"))
      BY <1>1, <1>2, ConsoleApart, ManagerApart
    <3>2. Mine(If("GPIO" \in c, Asserted(am57xx_initGPIO)))
      BY <1>3, NamedApart, AssertedNamed
    <3>3. Mine(If({"GPIO", "DELAY_UNTIL"} \subseteq c, Start("ledTask", {}, "assert", "taskLED", 128, 128)))
      BY <1>2
    <3> QED
      BY <3>1, <3>2, <3>3
  <2>2. /\ Mine(If("MAILBOX_TEST" \in c, am57xx_mailbox_test)) /\ Mine(If("RPROC_TEST" \in c, am57xx_rprocTest_init(c)))
        /\ Mine(If("BOARD_TEST" \in c, am57xx_boardtest_init(c))) /\ Mine(If("SPI_TEST" \in c, am57xx_spitest_init))
        /\ Mine(If("TIMER_TEST" \in c, am57xx_timertest_init(c))) /\ Mine(If("MPU_TEST" \in c, am57xx_mputest_init))
    <3> HIDE MakeApart, SetApart, TwoApart, ThreeApart, StartApart, JoinApart, FnApart
    <3>1. Mine(If("MAILBOX_TEST" \in c, am57xx_mailbox_test)) /\ Mine(If("RPROC_TEST" \in c, am57xx_rprocTest_init(c)))
      BY <1>3, <1>4, NamedApart
    <3>2. Mine(If("BOARD_TEST" \in c, am57xx_boardtest_init(c)))
      BY <1>4, NamedApart
    <3>3. Mine(If("SPI_TEST" \in c, am57xx_spitest_init)) /\ Mine(If("MPU_TEST" \in c, am57xx_mputest_init))
      BY <1>5, NamedApart
    <3>4. Mine(If("TIMER_TEST" \in c, am57xx_timertest_init(c)))
      BY <1>6, NamedApart
    <3> QED
      BY <3>1, <3>2, <3>3, <3>4
  <2>3. /\ Mine(If("RTC_SOFTWARE_TEST" \in c, rtctest_init))
        /\ Mine(If("SOFTWARE_CAPTURE_TEST" \in c, softwareCaptureTest_init))
        /\ Mine(If("CAN_TEST" \in c, dcan_can_test))
        /\ Mine(If("CAN_DISABLE" \in c, Make("gpio", {}, "drop") \o Make("DCAN1_TX", {"gpio"}, "assert")))
    BY <1>1, <1>8, NamedApart
  <2> QED
    BY <2>1, <2>2, <2>3 DEF am57xx_main
<1>10. /\ Free(am57xx_mailbox_testTask) /\ Free(boardtest_task(c)) /\ Free(am57xx_spiTask)
       /\ Free(timertest_task(c)) /\ Free(am57xx_mputest_task) /\ Free(rtctest_task)
       /\ Free(softwareCaptureTest_task) /\ Free(Set({"dcan1"}, "assert", 3))
  BY DEF am57xx_mailbox_testTask, boardtest_task, am57xx_spiTask, timertest_task,
         am57xx_mputest_task, rtctest_task, softwareCaptureTest_task
<1> QED
  BY <1>7, <1>9, <1>10, NamedApart DEF am57xx_tasks

LEMMA imx6_Apart ==
    ASSUME NEW c
    PROVE  /\ Named("imx6", c, imx6_main(c))
           /\ \A task \in DOMAIN imx6_tasks(c) :
                 Apart("imx6", c, "none", imx6_tasks(c)[task])
<1> USE MakeApart, SetApart, TwoApart, ThreeApart, StartApart, IfApart, JoinApart, FnApart
<1> DEFINE Of(name, D) == \A d \in D : Own("imx6", c, name, d)
           In(storage, task, stack, room) == Housed("imx6", c, storage, task, stack, room)
           Mine(s) == Apart("imx6", c, "main", s)
           Free(s) == Apart("imx6", c, "none", s)
<1>1. /\ Of("initGPIO", {"gpio", "PTC13", "PTA5"})
      /\ "MAILBOX_TEST" \in c => Of("mailbox_test", {"mailbox0"})
      /\ "RPROC_TEST" \in c => Of("rprocTest_init", {"mailbox0", "rproc"})
      /\ Of("phytest_init", {"clock", "mii"}) /\ Of("enettest_init", {"enet1", "enet2"})
      /\ Of("enettest_task", {"eth0", "eth1", "phys"}) /\ Of("main", {"uart2"})
  BY DEF Own, Owner, imx6_Owner, Shared, When
<1>2. /\ In("task", "mailbox_testTask", 512, 512) /\ In("none", "phytest_task", 250, 250)
      /\ In("enetTask", "enettest_task", 1000, 1000)
      /\ In("taskLED", "ledTask", 128, 128) /\ In("taskMan", "taskManTask", 512, 512)
  BY SMTT(20) DEF Housed, Lives, Lease
<1>3. Named("imx6", c, imx6_initGPIO)
  BY <1>1 DEF imx6_initGPIO
<1>4. /\ "MAILBOX_TEST" \in c => Named("imx6", c, imx6_mailbox_test)
      /\ "RPROC_TEST" \in c => Named("imx6", c, imx6_rprocTest_init)
  BY <1>1, <1>2 DEF imx6_mailbox_test, imx6_rprocTest_init
<1>5. Named("imx6", c, phytest_init) /\ Named("imx6", c, enettest_init)
  BY <1>1, <1>2 DEF phytest_init, enettest_init
<1>6. Named("imx6", c, enettest_task)
  BY <1>1 DEF enettest_task
<1>7. Named("imx6", c, imx6_main(c))
  <2>1. /\ Mine(Set({}, "assert", 1) \o Console(c, "uart2", "drop"))
        /\ Mine(If("GPIO" \in c, Asserted(imx6_initGPIO)))
        /\ Mine(If({"GPIO", "PWM"} \intersect c # {} /\ "DELAY_UNTIL" \in c,
                   Start("ledTask", {}, "assert", "taskLED", 128, 128)))
        /\ Mine(Manager(c, 512, "assert"))
    BY <1>1, <1>2, <1>3, ConsoleApart, ManagerApart, NamedApart, AssertedNamed
  <2>2. /\ Mine(If("MAILBOX_TEST" \in c, imx6_mailbox_test)) /\ Mine(If("RPROC_TEST" \in c, imx6_rprocTest_init))
        /\ Mine(If("PHY_TEST" \in c, phytest_init)) /\ Mine(If("ENET_TEST" \in c, enettest_init))
    BY <1>4, <1>5, NamedApart
  <2> QED
    BY <2>1, <2>2 DEF imx6_main
<1>8. Free(imx6_ledRound(c)) /\ Free(phytest_task) /\ Free(Set({"mailbox0"}, "assert", 2))
  BY DEF imx6_ledRound, phytest_task
<1> QED
  BY <1>6, <1>7, <1>8, NamedApart DEF imx6_tasks

LEMMA linux_Apart ==
    ASSUME NEW c
    PROVE  /\ Named("linux", c, linux_main(c))
           /\ \A task \in DOMAIN linux_tasks(c) :
                 Apart("linux", c, "none", linux_tasks(c)[task])
<1> USE MakeApart, SetApart, TwoApart, ThreeApart, StartApart, IfApart, JoinApart, FnApart
<1> DEFINE Of(name, D) == \A d \in D : Own("linux", c, name, d)
           In(storage, task, stack, room) == Housed("linux", c, storage, task, stack, room)
           Mine(s) == Apart("linux", c, "main", s)
           Free(s) == Apart("linux", c, "none", s)
<1>1. Of("initGPIO", {"gpio", "GPMC_A17"}) /\ Of("adc_test", {"adc1", "adc2"})
  BY DEF Own, Owner, Shared
<1>2. In("task", "adc_task", 500, 500) /\ In("taskMan", "taskManTask", 512, 512)
  BY SMTT(20) DEF Housed, Lives, Lease
<1>3. Named("linux", c, linux_initGPIO) /\ Named("linux", c, linux_adc_test)
  BY <1>1, <1>2 DEF linux_initGPIO, linux_adc_test
<1>4. Named("linux", c, linux_main(c))
  BY <1>2, <1>3, ManagerApart, NamedApart, AssertedNamed DEF linux_main
<1>5. Free(linux_adc_task)
  BY DEF linux_adc_task
<1> QED
  BY <1>4, <1>5 DEF linux_tasks

LEMMA c28x_Apart ==
    ASSUME NEW c
    PROVE  /\ Named("c28x", c, c28x_main(c))
           /\ \A task \in DOMAIN c28x_tasks(c) :
                 Apart("c28x", c, "none", c28x_tasks(c)[task])
<1> USE MakeApart, SetApart, TwoApart, ThreeApart, StartApart, IfApart, JoinApart, FnApart
<1> DEFINE Of(name, D) == \A d \in D : Own("c28x", c, name, d)
           In(storage, task, stack, room) == Housed("c28x", c, storage, task, stack, room)
           Mine(s) == Apart("c28x", c, "main", s)
           Free(s) == Apart("c28x", c, "none", s)
<1>1. /\ Of("main", {"gpio", "sci0"}) /\ ("CAN_DISABLE" \in c => Of("main", {"GPIO_31"}))
      /\ Of("testTask", {"gpio", "GPIO_50", "GPIO_29"})
      /\ Of("can_task", {"gpio", "GPIO_30", "can0", "can_test_messages"})
      /\ "CAN_TEST_TOGGLE_PIN" \in c => Of("can_task", {"GPIO_31"})
  BY DEF Own, Owner, c28x_Owner, Shared, When
<1>2. In("test", "testTask", 1000, 1000) /\ In("canTest", "can_task", 2048, 2048)
  BY SMTT(20) DEF Housed, Lives, Lease
<1>3. Named("c28x", c, c28x_main(c))
  <2> DEFINE A == Set({}, "assert", 1) \o Make("sci0", {}, "assert") \o Set({"sci0"}, "assert", 1)
             B == If("CAN_DISABLE" \in c, Make("gpio", {}, "drop") \o Make("GPIO_31", {"gpio"}, "assert"))
             C == If("CAN_TEST" \in c, Start("can_task", {}, "assert", "canTest", 2048, 2048))
  <2>1. c28x_main(c) = Fn("main", A \o Start("testTask", {}, "assert", "test", 1000, 1000) \o B \o C)
    BY DEF c28x_main
  <2>2. Mine(A)
    BY <1>1
  <2>3. Mine(B)
    BY <1>1
  <2>4. Mine(C)
    BY <1>2
  <2> HIDE DEF A, B, C
  <2> QED
    BY <1>2, <2>1, <2>2, <2>3, <2>4
<1>4. Named("c28x", c, c28x_testTask)
  BY <1>1 DEF c28x_testTask
<1>5. Named("c28x", c, c28x_can_task(c))
  BY <1>1 DEF c28x_can_task
<1> QED
  BY <1>3, <1>4, <1>5, NamedApart DEF c28x_tasks

LEMMA m0_Apart ==
    ASSUME NEW c
    PROVE  /\ Named("m0", c, m0_main(c))
           /\ \A task \in DOMAIN [none |-> <<>>] :
                 Apart("m0", c, "none", [none |-> <<>>][task])
<1> USE MakeApart, SetApart, TwoApart, ThreeApart, StartApart, IfApart, JoinApart, FnApart
<1> DEFINE Of(name, D) == \A d \in D : Own("m0", c, name, d)
           In(storage, task, stack, room) == Housed("m0", c, storage, task, stack, room)
           Mine(s) == Apart("m0", c, "main", s)
           Free(s) == Apart("m0", c, "none", s)
<1>1. Of("main", {"uart0"})
  BY DEF Own, Owner, Shared
<1>2. In("test", "testTask", 512, 512) /\ In("taskMan", "taskManTask", 512, 512)
  BY SMTT(20) DEF Housed, Lives, Lease
<1>3. Named("m0", c, m0_main(c))
  BY <1>1, <1>2, ConsoleApart, ManagerApart DEF m0_main
<1> QED
  BY <1>3, EmptyApart

LEMMA riscv_Apart ==
    ASSUME NEW c
    PROVE  /\ Named("riscv-qemu", c, riscv_main(c))
           /\ \A task \in DOMAIN riscv_tasks(c) :
                 Apart("riscv-qemu", c, "none", riscv_tasks(c)[task])
<1> USE MakeApart, SetApart, TwoApart, ThreeApart, StartApart, IfApart, JoinApart, FnApart
<1> DEFINE Of(name, D) == \A d \in D : Own("riscv-qemu", c, name, d)
           In(storage, task, stack, room) == Housed("riscv-qemu", c, storage, task, stack, room)
           Mine(s) == Apart("riscv-qemu", c, "main", s)
           Free(s) == Apart("riscv-qemu", c, "none", s)
<1>1. /\ "UART_TEST" \in c => Of("uartTest_init", {"uart0"})
      /\ "STDOUT_UART0" \in c => Of("main", {"uart0"})
      /\ Of("main", {"sbi"}) /\ Of("timerTask", {"timer0"})
  BY DEF Own, Owner, Shared, When
<1>2. /\ In("echo", "echoTask", 512, 512) /\ In("taskTimer", "timerTask", 512, 512)
      /\ In("testTask", "floatTest", 1024, 1024) /\ In("testTask2", "floatTest2", 1024, 1024)
      /\ In("taskMan", "taskManTask", 512, 512)
  BY SMTT(20) DEF Housed, Lives, Lease
<1>3. /\ "UART_TEST" \in c => Named("riscv-qemu", c, uartTest_init)
      /\ Named("riscv-qemu", c, timertest_init) /\ Named("riscv-qemu", c, floattest_init)
  BY <1>1, <1>2 DEF uartTest_init, timertest_init, floattest_init
<1>4. Named("riscv-qemu", c, timerTask)
  BY <1>1 DEF timerTask
<1>5. Named("riscv-qemu", c, riscv_main(c))
  <2>1. /\ Mine(Set({}, "assert", 1))
        /\ Mine(Console(c, IF "STDOUT_UART0" \in c THEN "uart0" ELSE "sbi", "assert"))
        /\ Mine(Manager(c, 512, "drop"))
    BY <1>1, <1>2, ConsoleApart, ManagerApart
  <2>2. /\ Mine(If("UART_TEST" \in c, uartTest_init)) /\ Mine(If("TIMER_TEST" \in c, timertest_init))
        /\ Mine(If("FLOAT_TEST" \in c, floattest_init))
    BY <1>3, NamedApart
  <2> QED
    BY <2>1, <2>2 DEF riscv_main
<1>6. Free(riscv_echoTask)
  BY DEF riscv_echoTask
<1> QED
  BY <1>4, <1>5, <1>6, NamedApart DEF riscv_tasks

LEMMA polarfire_Apart ==
    ASSUME NEW c
    PROVE  /\ Named("polarfire", c, polarfire_main(c))
           /\ \A task \in DOMAIN [none |-> <<>>] :
                 Apart("polarfire", c, "none", [none |-> <<>>][task])
<1> USE MakeApart, SetApart, TwoApart, ThreeApart, StartApart, IfApart, JoinApart, FnApart
<1> DEFINE Of(name, D) == \A d \in D : Own("polarfire", c, name, d)
           In(storage, task, stack, room) == Housed("polarfire", c, storage, task, stack, room)
           Mine(s) == Apart("polarfire", c, "main", s)
           Free(s) == Apart("polarfire", c, "none", s)
<1>1. Of("main", {"sbi"})
  BY DEF Own, Owner, Shared
<1>2. /\ In("testTask", "floatTest", 1024, 1024) /\ In("testTask2", "floatTest2", 1024, 1024)
      /\ In("taskMan", "taskManTask", 1024, 512)
  BY SMTT(20) DEF Housed, Lives, Lease
<1>3. Named("polarfire", c, floattest_init)
  BY <1>2 DEF floattest_init
<1>4. Named("polarfire", c, polarfire_main(c))
  BY <1>1, <1>2, <1>3, ConsoleApart, ManagerApart, NamedApart DEF polarfire_main
<1> QED
  BY <1>4, EmptyApart

BoardNames == {"vf610", "s32k", "kv4x", "stm32", "am57xx", "imx6", "linux", "c28x", "m0", "riscv-qemu", "polarfire"}

\* A configuration is a shipped one, or what Kconfig allows of a selection of the options.
LEMMA ConfigIs ==
    ASSUME NEW b, NEW c \in Configs(b)
    PROVE  c \in Shipped(b) \/ \E choice \in Variants(b) : \E o : c = Allowed(b, o) /\ o \subseteq Options(b) \union choice
<1> DEFINE all == Options(b)
           Offs == UNION {kSubset(k, all) : k \in 0 .. MaxOff}
           Reduced == {Allowed(b, (all \union choice) \ off) : choice \in Variants(b), off \in Offs}
<1>1. Configs(b) = Shipped(b) \union Reduced
  BY DEF Configs
<1> HIDE DEF all, Offs
<1>2. ASSUME c \in Reduced
      PROVE  \E choice \in Variants(b) : \E o : c = Allowed(b, o) /\ o \subseteq all \union choice
  <2>1. PICK choice \in Variants(b), off \in Offs : c = Allowed(b, (all \union choice) \ off)
    BY <1>2
  <2>2. (all \union choice) \ off \subseteq all \union choice
    OBVIOUS
  <2> QED
    BY <2>1, <2>2
<1> HIDE DEF Reduced
<1> QED
  BY <1>1, <1>2 DEF all

\* Kconfig keeps the UART test of the s32k from the UART of the console.
LEMMA ConsoleIsFree ==
    ASSUME NEW c \in Configs("s32k")
    PROVE  ~({"LPUART_TEST", "STDOUT_UART1"} \subseteq c)
<1>1. CASE c \in Shipped("s32k")
  BY <1>1 DEF Shipped
<1>2. CASE \E o : c = Allowed("s32k", o)
  BY <1>2 DEF Allowed
<1> QED
  BY <1>1, <1>2, ConfigIs

LEMMA ProgramsApart ==
    ASSUME NEW b \in BoardNames, NEW c \in Configs(b)
    PROVE  /\ Apart(b, c, "none", Main(b, c))
           /\ \A task : (<<b, task>> = <<"vf610", "mputest_initTask">> => "MPUTEST" \in c)
                        => Apart(b, c, "none", Task(b, c, task))
<1> USE NamedApart, EmptyApart
<1>1. CASE b = "vf610"
  BY <1>1, vf610_Apart DEF Main, Tasks, Task
<1>2. CASE b = "s32k"
  BY <1>2, ConsoleIsFree, s32k_Apart DEF Main, Tasks, Task
<1>3. CASE b = "kv4x"
  BY <1>3, kv4x_Apart DEF Main, Tasks, Task
<1>4. CASE b = "stm32"
  BY <1>4, stm32_Apart DEF Main, Tasks, Task
<1>5. CASE b = "am57xx"
  BY <1>5, am57xx_Apart DEF Main, Tasks, Task
<1>6. CASE b = "imx6"
  BY <1>6, imx6_Apart DEF Main, Tasks, Task
<1>7. CASE b = "linux"
  BY <1>7, linux_Apart DEF Main, Tasks, Task
<1>8. CASE b = "c28x"
  BY <1>8, c28x_Apart DEF Main, Tasks, Task
<1>9. CASE b = "m0"
  BY <1>9, m0_Apart DEF Main, Tasks, Task
<1>10. CASE b = "riscv-qemu"
  BY <1>10, riscv_Apart DEF Main, Tasks, Task
<1>11. CASE b = "polarfire"
  BY <1>11, polarfire_Apart DEF Main, Tasks, Task
<1> QED
  BY <1>1, <1>2, <1>3, <1>4, <1>5, <1>6, <1>7, <1>8, <1>9, <1>10, <1>11 DEF BoardNames

\* What runs obtains only what is its own, and so did what ran before.
ApartInv ==
    /\ board \in BoardNames /\ config \in Configs(board)
    /\ pc \in Nat /\ pc > 0 /\ Apart(board, config, "none", code)
    /\ \E S : ready \in Seq(S)
    /\ \A k \in 1 .. Len(ready) : <<board, ready[k]>> = <<"vf610", "mputest_initTask">> => "MPUTEST" \in config
    /\ \A x \in claims : \E d, name : x = <<d, name>> /\ Own(board, config, name, d)
    /\ \A x \in stored : \E storage, task, stack, room :
          x = <<storage, task, stack, room>> /\ <<task, stack, room>> \in Lives(board, config, storage)

LEMMA ApartFirst == ASSUME BootInit PROVE ApartInv
<1>1. board \in BoardNames /\ config \in Configs(board) /\ code = Main(board, config)
  BY BootAssumption DEF BootInit, BoardNames
<1>2. Apart(board, config, "none", code)
  BY <1>1, ProgramsApart
<1>3. ready \in Seq({}) /\ 1 .. Len(ready) = {}
  BY DEF BootInit
<1> QED
  BY <1>1, <1>2, <1>3 DEF ApartInv, BootInit

LEMMA ApartSucceeds ==
    ASSUME ApartInv, pc <= Len(code), Succeed, UNCHANGED <<board, config, code>>
    PROVE  ApartInv'
<1>1. Modest(board, config, "none", Now) /\ Now.skip \in Nat
  <2>1. pc \in 1 .. Len(code)
    BY DEF ApartInv, Apart
  <2> QED
    BY <2>1 DEF ApartInv, Apart, Now, Modest, IsStep
<1>2. pc' \in Nat /\ pc' > 0
  BY DEF Succeed, ApartInv
<1>3. CASE Now.stack = 0 /\ Now.storage = "none"
  <2>1. \A d \in Now.makes : Own(board, config, Now.by, d)
    BY <1>1, <1>3 DEF Modest
  <2>2. ready' = ready /\ stored' = stored /\ claims' = claims \union {<<d, Now.by>> : d \in Now.makes}
    BY <1>3 DEF Succeed
  <2> QED
    BY <1>2, <2>1, <2>2 DEF ApartInv
<1>4. CASE Now.stack > 0
  <2>1. PICK task : Now.makes = {task} /\ Housed(board, config, Now.storage, task, Now.stack, Now.room)
    BY <1>1, <1>4 DEF Modest
  <2>2. claims' = claims /\ ready' = Append(ready, task)
    BY <1>4, <2>1 DEF Succeed
  <2>3. stored' \subseteq stored \union {<<Now.storage, task, Now.stack, Now.room>>}
        /\ (Now.storage = "none" => stored' = stored)
    BY <2>1 DEF Succeed
  <2>4. PICK S : ready \in Seq(S)
    BY DEF ApartInv
  <2>5. /\ ready' \in Seq(S \union {task})
        /\ \A k \in 1 .. Len(ready') : ready'[k] = task \/ (k \in 1 .. Len(ready) /\ ready'[k] = ready[k])
    <3> DEFINE T == S \union {task}
    <3>1. ready \in Seq(T) /\ task \in T
      BY <2>4
    <3> HIDE DEF T
    <3>2. Append(ready, task) \in Seq(T) /\ Len(Append(ready, task)) = Len(ready) + 1
      BY <3>1
    <3>3. \A k \in 1 .. Len(ready) + 1 :
             Append(ready, task)[k] = task \/ (k \in 1 .. Len(ready) /\ Append(ready, task)[k] = ready[k])
      BY <3>1
    <3> QED
      BY <2>2, <3>2, <3>3 DEF T
  <2>6. \A k \in 1 .. Len(ready') : <<board, ready'[k]>> = <<"vf610", "mputest_initTask">> => "MPUTEST" \in config
    BY <2>1, <2>5 DEF ApartInv, Housed
  <2>7. \A x \in stored' : \E storage, t, stack, room :
          x = <<storage, t, stack, room>> /\ <<t, stack, room>> \in Lives(board, config, storage)
    BY <2>1, <2>3 DEF ApartInv, Housed
  <2> QED
    BY <1>2, <2>2, <2>5, <2>6, <2>7 DEF ApartInv
<1> QED
  BY <1>1, <1>3, <1>4 DEF Modest

LEMMA ApartKept == ASSUME ApartInv, [BootNext]_bootVars PROVE ApartInv'
<1>1. CASE Call
  <2>1. CASE Succeed
    BY <1>1, <2>1, ApartSucceeds DEF Call
  <2>2. ASSUME Fail PROVE ApartInv'
    <3>1. pc \in 1 .. Len(code)
      BY <1>1 DEF Call, ApartInv, Apart
    <3>2. Now.skip \in Nat
      BY <3>1 DEF ApartInv, Apart, Now, Modest, IsStep
    <3>3. pc' \in Nat /\ pc' > 0
      <4> DEFINE l == Now.skip
      <4>1. l \in Nat /\ pc \in Nat /\ pc > 0
        BY <3>2 DEF ApartInv
      <4>2. pc' \in {pc, pc + 1, pc + 1 + l}
        BY <2>2 DEF Fail
      <4> HIDE DEF l
      <4> QED
        BY <4>1, <4>2
    <3> QED
      BY <1>1, <2>2, <3>3 DEF Call, Fail, ApartInv
  <2>3. CASE UNCHANGED <<pc, made, claims, stored, ready, failures>>
    BY <1>1, <2>3 DEF Call, ApartInv
  <2> QED
    BY <1>1, <2>1, <2>2, <2>3 DEF Call
<1>2. CASE Schedule
  <2>1. CASE ready = <<>>
    BY <1>2, <2>1 DEF Schedule, ApartInv
  <2>2. CASE ready # <<>>
    <3>1. PICK S : ready \in Seq(S)
      BY DEF ApartInv
    <3>2. /\ 1 \in 1 .. Len(ready) /\ Head(ready) = ready[1] /\ Tail(ready) \in Seq(S)
          /\ \A k \in 1 .. Len(Tail(ready)) : k + 1 \in 1 .. Len(ready) /\ Tail(ready)[k] = ready[k + 1]
      BY <2>2, <3>1
    <3>3. code' = Task(board, config, ready[1]) /\ ready' = Tail(ready) /\ pc' = 1
          /\ UNCHANGED <<board, config, claims, stored>>
      BY <1>2, <2>2, <3>2 DEF Schedule
    <3>4. Apart(board, config, "none", code')
      BY <3>2, <3>3, ProgramsApart DEF ApartInv
    <3>5. \A k \in 1 .. Len(ready') : <<board, ready'[k]>> = <<"vf610", "mputest_initTask">> => "MPUTEST" \in config
      <4>1. ASSUME NEW k \in 1 .. Len(ready')
            PROVE  <<board, ready'[k]>> = <<"vf610", "mputest_initTask">> => "MPUTEST" \in config
        <5>1. k + 1 \in 1 .. Len(ready) /\ ready'[k] = ready[k + 1]
          BY <3>2, <3>3
        <5> QED
          BY <5>1 DEF ApartInv
      <4> QED
        BY <4>1
    <3>6. (\E T : ready' \in Seq(T)) /\ pc' \in Nat /\ pc' > 0
      BY <3>2, <3>3
    <3> QED
      BY <3>3, <3>4, <3>5, <3>6 DEF ApartInv
  <2> QED
    BY <2>1, <2>2
<1>3. CASE Ended \/ UNCHANGED bootVars
  BY <1>3 DEF Ended, bootVars, ApartInv
<1> QED
  BY <1>1, <1>2, <1>3 DEF BootNext

LEMMA ApartOwned == ASSUME ApartInv PROVE DevicesOwned
<1> SUFFICES ASSUME NEW x \in claims, NEW y \in claims, x[1] = y[1], x[1] \notin Shared(board, config)
             PROVE  x = y
  BY DEF DevicesOwned
<1>1. PICK d, name : x = <<d, name>> /\ Own(board, config, name, d)
  BY DEF ApartInv
<1>2. PICK e, other : y = <<e, other>> /\ Own(board, config, other, e)
  BY DEF ApartInv
<1> QED
  BY <1>1, <1>2 DEF Own

LEMMA ApartStored == ASSUME ApartInv PROVE StorageOwned
<1>1. ASSUME NEW storage, NEW task, NEW stack, NEW room, <<task, stack, room>> \in Lives(board, config, storage), room < stack
      PROVE  <<board, task>> \in {<<"vf610", "mputest_task">>, <<"polarfire", "taskManTask">>}
  BY <1>1 DEF Lives, Lease
<1>2. ASSUME NEW storage, NEW u \in Lives(board, config, storage), NEW v \in Lives(board, config, storage)
      PROVE  u = v \/ ({"PWM_TEST", "RC"} \subseteq config /\ {u[1], v[1]} = {"rcTask", "pwmTask"})
  BY <1>2 DEF Lives, Lease
<1> SUFFICES ASSUME NEW x \in stored
             PROVE  /\ x[4] < x[3] => <<board, x[2]>> \in {<<"vf610", "mputest_task">>, <<"polarfire", "taskManTask">>}
                    /\ \A y \in stored : x[1] = y[1] =>
                           x = y \/ ({"PWM_TEST", "RC"} \subseteq config /\ {x[2], y[2]} = {"rcTask", "pwmTask"})
  BY DEF StorageOwned
<1>3. PICK storage, task, stack, room :
          x = <<storage, task, stack, room>> /\ <<task, stack, room>> \in Lives(board, config, storage)
  BY DEF ApartInv
<1>4. x[4] < x[3] => <<board, x[2]>> \in {<<"vf610", "mputest_task">>, <<"polarfire", "taskManTask">>}
  BY <1>1, <1>3
<1>5. ASSUME NEW y \in stored, x[1] = y[1]
      PROVE  x = y \/ ({"PWM_TEST", "RC"} \subseteq config /\ {x[2], y[2]} = {"rcTask", "pwmTask"})
  <2>1. PICK place2, t, m, l : y = <<place2, t, m, l>> /\ <<t, m, l>> \in Lives(board, config, place2)
    BY DEF ApartInv
  <2>2. place2 = storage
    BY <1>3, <1>5, <2>1
  <2> DEFINE u == <<task, stack, room>>
             v == <<t, m, l>>
  <2>3. u = v \/ ({"PWM_TEST", "RC"} \subseteq config /\ {u[1], v[1]} = {"rcTask", "pwmTask"})
    BY <1>2, <1>3, <2>1, <2>2
  <2> QED
    BY <1>3, <2>1, <2>2, <2>3
<1> QED
  BY <1>4, <1>5

\* TestsKeepApart holds of every start of every board, whatever its
\* configuration, however many options are off and however many calls fail.
THEOREM BoardsKeepApart == BootSpec => []TestsKeepApart
<1>1. BootInit => ApartInv
  BY ApartFirst
<1>2. ApartInv /\ [BootNext]_bootVars => ApartInv'
  BY ApartKept
<1>3. ApartInv => TestsKeepApart
  BY ApartOwned, ApartStored DEF TestsKeepApart
<1> QED
  BY <1>1, <1>2, <1>3, PTL DEF BootSpec

-----------------------------------------------------------------------------
(* What a board uses, it has obtained (module Boot).  A program runs from   *)
(* what it has if, at every step, what the step uses was there or has been  *)
(* made by a step that no early return leaves out, but for the devices the  *)
(* tables Holes and Unchecked name (Runs).  The mains run from nothing, the *)
(* tasks from what there is when they start (Given), and a step that starts *)
(* a task asks for that: the lemmas <board>_Runs, one statement for a start *)
(* in which nothing fails (faults = 0) and one for any other.               *)

\* What a task uses and does not make itself.
vf610_Given(c, task) ==
    CASE task = "ledTask" -> When("PWM" \in c /\ "PWM_TEST" \notin c /\ "FLEXTIMER" \in c, {"pwm3"})
                             \union When("GPIO" \in c, {"PTB17"})
      [] task = "spiTask" -> {"spi1.0", "spi1.1", "spi1.2"}
      [] task = "mputest_task" -> {"mpu"}
      [] task = "adctestTask" -> {"adc0"}
      [] task = "tpstest_task" -> {"tps", "adc1"}
      [] task = "pwmTask" -> {"pwm0", "pwm1", "pwm2"}
      [] task \in {"rcTask", "rcTestTask"} -> {"rc"}
      [] task = "lcTask" -> {"lc.RX"}
      [] OTHER -> {}
s32k_Given(task) ==
    CASE task = "echoTask" -> {"lpuart1"}
      [] task = "adc_task" -> {"adc0"}
      [] task = "spiTask" -> {"lpspi0.0"}
      [] task = "can_task" -> {"can"}
      [] OTHER -> {}
stm32_Given(c, task) ==
    IF task = "ledTask"
    THEN When("PWM" \in c, {"pwm4.4"}) \union When("GPIO" \in c, {IF "DISCOVERY" \in c THEN "PTD14" ELSE "PTA5"})
    ELSE {}
am57xx_Given(c, task) ==
    CASE task = "mailbox_testTask" -> {"mailbox5.2", "mailbox5.3"}
      [] task = "boardtest_task" -> {"board.pins", "GPMC_A17"}
                                    \union When("TIMER_TEST" \notin c, {"MCASP1_AXR13", "MCASP1_AXR14"})
      [] task = "spiTask" -> {"spi4.0", "spi4.1", "spi4.3"}
      [] task = "timertest_task" -> {"timer10"} \union When("TIMER11_CAPTURE" \in c, {"timer11", "capture11"})
      [] task = "mputest_task" -> {"mpu"}
      [] task = "rtctest_task" -> {"rtc", "timer14"}
      [] task = "softwareCaptureTest_task" -> {"rtc", "timer2", "capture", "MCASP1_AXR13"}
      [] task = "can_task" -> {"dcan1"}
      [] OTHER -> {}
imx6_Given(c, task) ==
    CASE task = "ledTask" -> When("GPIO" \in c, {"PTA5"})
      [] task = "mailbox_testTask" -> {"mailbox0"}
      [] task = "phytest_task" -> {"mii"}
      [] task = "enettest_task" -> {"enet1", "enet2"}
      [] OTHER -> {}
Given(b, c, task) ==
    CASE b = "vf610" -> vf610_Given(c, task) [] b = "s32k" -> s32k_Given(task)
      [] b = "kv4x" -> When(task = "can_task", {"can"})
      [] b = "stm32" -> stm32_Given(c, task) [] b = "am57xx" -> am57xx_Given(c, task)
      [] b = "imx6" -> imx6_Given(c, task)
      [] b = "linux" -> When(task = "adc_task", {"adc1", "adc2"})
      [] b = "riscv-qemu" -> When(task = "echoTask", {"uart0"})
      [] OTHER -> {}

\* What may be used although it does not exist, when no call has failed (faults = 0) and when
\* some have.
Excused(b, c, faults) == Holes(b, c) \union (IF faults # 0 THEN Unchecked(b) ELSE {})
\* What exists behind a step, unless the step has left the function.
Gain(faults, step) == IF faults # 0 /\ step.fail \notin {"assert", "return", "retry"} THEN {} ELSE step.makes
\* What must exist for a step: what it uses, and what the task it starts is given.
Asks(b, c, step) == step.uses \union (IF step.stack > 0 THEN UNION {Given(b, c, task) : task \in step.makes} ELSE {})
\* An early return at h has left out j on the way to k.
LeavesOut(s, h, j, k) ==
    s[h].fail = "return" /\ s[h].by # "none" /\ j <= h + s[h].skip /\ h + s[h].skip < k
\* The steps whose result there is at step k, what exists there (Before), at the end (Gains),
\* and with what there was at the start (After).
Passed(faults, s, k) == {j \in 1 .. k - 1 : faults # 0 => \A h \in 1 .. j : ~LeavesOut(s, h, j, k)}
Before(faults, s, k) == UNION {Gain(faults, s[j]) : j \in Passed(faults, s, k)}
Gains(faults, s) == Before(faults, s, Len(s) + 1)
After(faults, have, s) == have \union Gains(faults, s)
\* A sequence of steps; an early return leaves out only steps of this sequence.
IsProgram(s) ==
    /\ \E S : s \in Seq(S)
    /\ \A k \in 1 .. Len(s) : IsStep(s[k]) /\ ((s[k].fail = "return" /\ s[k].by # "none") => k + s[k].skip <= Len(s))
\* From what it has, s makes what it uses before it uses it.
Runs(b, c, faults, have, s) ==
    /\ IsProgram(s)
    /\ \A k \in 1 .. Len(s) : Asks(b, c, s[k]) \subseteq have \union Before(faults, s, k) \union Excused(b, c, faults)

\* What a step asks for is there.
Finds(b, c, faults, have, D) == \A x \in D : x \in have \/ x \in Excused(b, c, faults)

LEMMA EmptyRuns == \A b, c, faults, have : Runs(b, c, faults, have, <<>>)
<1>1. <<>> \in Seq({}) /\ 1 .. Len(<<>>) = {}
  OBVIOUS
<1> QED
  BY <1>1 DEF Runs, IsProgram

LEMMA JoinIsProgram ==
    ASSUME NEW s, NEW t, IsProgram(s), IsProgram(t)
    PROVE  /\ IsProgram(s \o t) /\ Len(s) \in Nat /\ Len(t) \in Nat /\ Len(s \o t) = Len(s) + Len(t)
           /\ \A k \in 1 .. Len(s) : (s \o t)[k] = s[k]
           /\ \A k \in 1 .. Len(t) : (s \o t)[Len(s) + k] = t[k]
<1> DEFINE m == Len(s)
           l == Len(t)
           st == s \o t
<1>1. PICK S, T : s \in Seq(S) /\ t \in Seq(T)
  BY DEF IsProgram
<1>2. s \in Seq(S \union T) /\ t \in Seq(S \union T)
  BY <1>1
<1>3. /\ st \in Seq(S \union T) /\ m \in Nat /\ l \in Nat /\ Len(st) = m + l
      /\ \A k \in 1 .. m : st[k] = s[k]
      /\ \A k \in 1 .. l : st[m + k] = t[k]
      /\ \A k \in m + 1 .. m + l : k - m \in 1 .. l /\ st[k] = t[k - m]
  BY <1>2
<1>4. /\ \A k \in 1 .. m : IsStep(s[k]) /\ ((s[k].fail = "return" /\ s[k].by # "none") => k + s[k].skip <= m)
      /\ \A k \in 1 .. l : IsStep(t[k]) /\ ((t[k].fail = "return" /\ t[k].by # "none") => k + t[k].skip <= l)
  BY DEF IsProgram
<1> HIDE DEF m, l, st
<1>5. ASSUME NEW k \in 1 .. m + l
      PROVE  IsStep(st[k]) /\ ((st[k].fail = "return" /\ st[k].by # "none") => k + st[k].skip <= m + l)
  <2>1. CASE k <= m
    <3>1. k \in 1 .. m
      BY <1>3, <2>1
    <3>2. st[k].skip \in Nat /\ IsStep(st[k]) /\ ((st[k].fail = "return" /\ st[k].by # "none") => k + st[k].skip <= m)
      BY <1>3, <1>4, <3>1 DEF IsStep
    <3> QED
      BY <1>3, <3>2
  <2>2. CASE k > m
    <3> DEFINE j == k - m
    <3>1. j \in 1 .. l /\ st[k] = t[j] /\ k = m + j
      BY <1>3, <2>2
    <3> HIDE DEF j
    <3>2. t[j].skip \in Nat /\ IsStep(t[j]) /\ ((t[j].fail = "return" /\ t[j].by # "none") => j + t[j].skip <= l)
      BY <1>4, <3>1 DEF IsStep
    <3>3. j + t[j].skip <= l => k + t[j].skip <= m + l
      BY <1>3, <3>1, <3>2
    <3> QED
      BY <3>1, <3>2, <3>3
  <2> QED
    BY <1>3, <2>1, <2>2
<1>6. IsProgram(st)
  BY <1>3, <1>5 DEF IsProgram
<1> QED
  BY <1>3, <1>6 DEF st, m, l

LEMMA JoinBefore ==
    ASSUME NEW s, NEW t, IsProgram(s), IsProgram(t), NEW faults
    PROVE  /\ \A k \in 1 .. Len(s) : Before(faults, s, k) \subseteq Before(faults, s \o t, k)
           /\ \A k \in 1 .. Len(t) + 1 :
                 Gains(faults, s) \union Before(faults, t, k) \subseteq Before(faults, s \o t, Len(s) + k)
<1> DEFINE m == Len(s)
           l == Len(t)
           st == s \o t
<1>1. /\ m \in Nat /\ l \in Nat
      /\ \A k \in 1 .. m : st[k] = s[k]
      /\ \A k \in 1 .. l : st[m + k] = t[k]
  BY JoinIsProgram
<1>2. /\ \A k \in 1 .. m : IsStep(s[k]) /\ ((s[k].fail = "return" /\ s[k].by # "none") => k + s[k].skip <= m)
      /\ \A k \in 1 .. l : IsStep(t[k])
  BY DEF IsProgram
<1> HIDE DEF st
<1>3. ASSUME NEW k \in 1 .. m, NEW j \in Passed(faults, s, k) PROVE j \in Passed(faults, st, k) /\ st[j] = s[j]
  <2>1. j \in 1 .. k - 1 /\ j \in 1 .. m /\ \A h \in 1 .. j : h \in 1 .. m
    BY <1>1 DEF Passed
  <2>2. \A h \in 1 .. j : LeavesOut(st, h, j, k) => LeavesOut(s, h, j, k)
    BY <1>1, <2>1 DEF LeavesOut
  <2> QED
    BY <1>1, <2>1, <2>2 DEF Passed
<1>4. ASSUME NEW k \in 1 .. l + 1, NEW j \in Passed(faults, s, m + 1) PROVE j \in Passed(faults, st, m + k) /\ st[j] = s[j]
  <2>1. j \in 1 .. m /\ m + k > m /\ m + k \in Nat /\ j \in 1 .. m + k - 1
    BY <1>1 DEF Passed
  <2>2. ASSUME faults # 0, NEW h \in 1 .. j, LeavesOut(st, h, j, m + k) PROVE FALSE
    <3>1. h \in 1 .. m /\ st[h] = s[h] /\ s[h].skip \in Nat
      BY <1>1, <1>2, <2>1 DEF IsStep
    <3>2. h + s[h].skip <= m
      BY <1>2, <2>2, <3>1 DEF LeavesOut
    <3>3. h + s[h].skip < m + 1
      BY <1>1, <3>1, <3>2
    <3>4. LeavesOut(s, h, j, m + 1)
      BY <2>2, <3>1, <3>3 DEF LeavesOut
    <3> QED
      BY <2>2, <3>4 DEF Passed
  <2> QED
    BY <1>1, <2>1, <2>2 DEF Passed
<1>5. ASSUME NEW k \in 1 .. l + 1, NEW j \in Passed(faults, t, k)
      PROVE  m + j \in Passed(faults, st, m + k) /\ st[m + j] = t[j]
  <2>1. j \in 1 .. l /\ m + j \in 1 .. m + k - 1 /\ st[m + j] = t[j] /\ j < k
    BY <1>1 DEF Passed
  <2>2. ASSUME faults # 0, NEW h \in 1 .. m + j, LeavesOut(st, h, m + j, m + k) PROVE FALSE
    <3>1. CASE h <= m
      <4>1. h \in 1 .. m /\ st[h] = s[h] /\ s[h].skip \in Nat
        BY <1>1, <1>2, <3>1 DEF IsStep
      <4>2. h + s[h].skip <= m
        BY <1>2, <2>2, <4>1 DEF LeavesOut
      <4> QED
        BY <1>1, <2>1, <2>2, <4>1, <4>2 DEF LeavesOut
    <3>2. CASE h > m
      <4> DEFINE p == h - m
      <4>1. p \in 1 .. j /\ h = m + p /\ p \in 1 .. l
        BY <1>1, <2>1, <3>2
      <4> HIDE DEF p
      <4>2. st[h] = t[p] /\ t[p].skip \in Nat
        BY <1>1, <1>2, <4>1 DEF IsStep
      <4> DEFINE e == t[p].skip
      <4>3. m + j <= h + e /\ h + e < m + k /\ e \in Nat
        BY <2>2, <4>2 DEF LeavesOut
      <4> HIDE DEF e
      <4>4. j <= p + e /\ p + e < k
        BY <1>1, <2>1, <4>1, <4>3
      <4>5. LeavesOut(t, p, j, k)
        BY <2>2, <4>2, <4>4 DEF LeavesOut, e
      <4> QED
        BY <2>2, <4>1, <4>5 DEF Passed
    <3> QED
      BY <1>1, <2>1, <3>1, <3>2
  <2> QED
    BY <1>1, <2>1, <2>2 DEF Passed
<1>6. \A k \in 1 .. m : Before(faults, s, k) \subseteq Before(faults, st, k)
  BY <1>3 DEF Before
<1>7. \A k \in 1 .. l + 1 : Gains(faults, s) \subseteq Before(faults, st, m + k)
  BY <1>4 DEF Before, Gains
<1>8. \A k \in 1 .. l + 1 : Before(faults, t, k) \subseteq Before(faults, st, m + k)
  BY <1>5 DEF Before
<1> QED
  BY <1>6, <1>7, <1>8 DEF st

LEMMA JoinRuns ==
    \A b, c, have, s, t, faults :
        Runs(b, c, faults, have, s) /\ Runs(b, c, faults, After(faults, have, s), t)
          => Runs(b, c, faults, have, s \o t)
<1> SUFFICES ASSUME NEW b, NEW c, NEW have, NEW s, NEW t, NEW faults,
                    Runs(b, c, faults, have, s), Runs(b, c, faults, After(faults, have, s), t)
             PROVE  Runs(b, c, faults, have, s \o t)
  OBVIOUS
<1> DEFINE m == Len(s)
           l == Len(t)
           st == s \o t
           from == Excused(b, c, faults)
<1>0. IsProgram(s) /\ IsProgram(t)
  BY DEF Runs
<1>1. /\ IsProgram(st) /\ m \in Nat /\ l \in Nat /\ Len(st) = m + l
      /\ \A k \in 1 .. m : st[k] = s[k]
      /\ \A k \in 1 .. l : st[m + k] = t[k]
  BY <1>0, JoinIsProgram
<1>2. /\ \A k \in 1 .. m : Before(faults, s, k) \subseteq Before(faults, st, k)
      /\ \A k \in 1 .. l + 1 : Gains(faults, s) \union Before(faults, t, k) \subseteq Before(faults, st, m + k)
  BY <1>0, JoinBefore
<1>3. /\ \A k \in 1 .. m : Asks(b, c, s[k]) \subseteq have \union Before(faults, s, k) \union from
      /\ \A k \in 1 .. l : Asks(b, c, t[k]) \subseteq (have \union Gains(faults, s)) \union Before(faults, t, k) \union from
  BY DEF Runs, After
<1> HIDE DEF m, l, st, from
<1>4. ASSUME NEW k \in 1 .. m + l PROVE Asks(b, c, st[k]) \subseteq have \union Before(faults, st, k) \union from
  <2>1. CASE k <= m
    <3>1. k \in 1 .. m
      BY <1>1, <2>1
    <3> QED
      BY <1>1, <1>2, <1>3, <3>1
  <2>2. CASE k > m
    <3> DEFINE j == k - m
    <3>1. j \in 1 .. l /\ j \in 1 .. l + 1 /\ k = m + j
      BY <1>1, <2>2
    <3> HIDE DEF j
    <3>2. Asks(b, c, t[j]) \subseteq (have \union Gains(faults, s)) \union Before(faults, t, j) \union from
      BY <1>3, <3>1
    <3>3. Gains(faults, s) \union Before(faults, t, j) \subseteq Before(faults, st, k)
      BY <1>2, <3>1
    <3> QED
      BY <1>1, <3>1, <3>2, <3>3
  <2> QED
    BY <1>1, <2>1, <2>2
<1>5. Runs(b, c, faults, have, st)
  BY <1>1, <1>4 DEF Runs, from
<1> QED
  BY <1>5 DEF st

LEMMA AfterHas == \A faults, have, s, d : d \in have \/ d \in Gains(faults, s) => d \in After(faults, have, s)
BY DEF After

LEMMA JoinGains ==
    \A s, t, d, faults :
        IsProgram(s) /\ IsProgram(t) /\ (d \in Gains(faults, s) \/ d \in Gains(faults, t)) => d \in Gains(faults, s \o t)
<1> SUFFICES ASSUME NEW s, NEW t, NEW faults, IsProgram(s), IsProgram(t)
             PROVE  Gains(faults, s) \union Gains(faults, t) \subseteq Gains(faults, s \o t)
  OBVIOUS
<1>1. IsProgram(s \o t) /\ Len(s) \in Nat /\ Len(t) \in Nat /\ Len(s \o t) = Len(s) + Len(t)
  BY JoinIsProgram
<1>2. Len(t) + 1 \in 1 .. Len(t) + 1 /\ Len(s) + (Len(t) + 1) = Len(s \o t) + 1
  BY <1>1
<1> QED
  BY <1>1, <1>2, JoinBefore DEF Gains

LEMMA RunsIsProgram == \A b, c, faults, have, s : Runs(b, c, faults, have, s) => IsProgram(s)
BY DEF Runs

\* One step.
LEMMA OneRuns ==
    ASSUME NEW step, IsStep(step), step.by = "none"
    PROVE  /\ IsProgram(<<step>>)
           /\ \A b, c, have, faults :
                 Finds(b, c, faults, have, Asks(b, c, step)) => Runs(b, c, faults, have, <<step>>)
           /\ \A faults : Gain(faults, step) \subseteq Gains(faults, <<step>>)
<1> DEFINE s == <<step>>
<1>1. s \in Seq({step}) /\ 1 .. Len(s) = {1} /\ s[1] = step /\ Len(s) + 1 = 2
  OBVIOUS
<1> HIDE DEF s
<1>2. IsProgram(s)
  BY <1>1 DEF IsProgram
<1>3. \A faults : 1 \in Passed(faults, s, 2)
  BY <1>1 DEF Passed, LeavesOut
<1>4. \A faults : Gain(faults, s[1]) \subseteq Gains(faults, s)
  BY <1>1, <1>3 DEF Gains, Before
<1>5. \A b, c, have, faults : Finds(b, c, faults, have, Asks(b, c, step)) => Runs(b, c, faults, have, s)
  BY <1>1, <1>2 DEF Runs, Finds
<1> QED
  BY <1>1, <1>2, <1>4, <1>5 DEF s

Stays(fail) == fail \in {"assert", "return", "retry"}

LEMMA StepAsks ==
    ASSUME NEW makes, NEW uses, NEW fail
    PROVE  LET step == Step(makes, uses, fail) IN
           /\ IsStep(step) /\ step.by = "none"
           /\ \A b, c : Asks(b, c, step) = uses
           /\ \A faults : faults = 0 \/ Stays(fail) => Gain(faults, step) = makes
BY DEF Step, IsStep, Asks, Gain, Stays

LEMMA MakeSteps ==
    ASSUME NEW d, NEW uses, NEW fail
    PROVE  /\ IsProgram(Make(d, uses, fail))
           /\ \A b, c, have, faults : Finds(b, c, faults, have, uses) => Runs(b, c, faults, have, Make(d, uses, fail))
           /\ \A faults : faults = 0 \/ Stays(fail) => d \in Gains(faults, Make(d, uses, fail))
<1> DEFINE step == Step({d}, uses, fail)
<1>1. /\ IsStep(step) /\ step.by = "none"
      /\ \A b, c : Asks(b, c, step) = uses
      /\ \A faults : faults = 0 \/ Stays(fail) => Gain(faults, step) = {d}
  BY StepAsks
<1>2. Make(d, uses, fail) = <<step>>
  BY DEF Make
<1> HIDE DEF step
<1> QED
  BY <1>1, <1>2, OneRuns

LEMMA ChannelSteps ==
    ASSUME NEW d, NEW pin, NEW fail
    PROVE  /\ IsProgram(Channel(d, pin, fail))
           /\ \A b, c, have, faults : Runs(b, c, faults, have, Channel(d, pin, fail))
           /\ \A faults : faults = 0 \/ Stays(fail) => d \in Gains(faults, Channel(d, pin, fail))
<1> DEFINE step == Step({d, pin}, {}, fail)
<1>1. /\ IsStep(step) /\ step.by = "none"
      /\ \A b, c : Asks(b, c, step) = {}
      /\ \A faults : faults = 0 \/ Stays(fail) => Gain(faults, step) = {d, pin}
  BY StepAsks
<1>2. Channel(d, pin, fail) = <<step>>
  BY DEF Channel
<1> HIDE DEF step
<1>3. \A b, c, have, faults : Finds(b, c, faults, have, Asks(b, c, step))
  BY <1>1 DEF Finds
<1> QED
  BY <1>1, <1>2, <1>3, OneRuns

LEMMA StartSteps ==
    ASSUME NEW task, NEW uses, NEW fail, NEW storage, NEW stack, NEW room
    PROVE  /\ IsProgram(Start(task, uses, fail, storage, stack, room))
           /\ \A b, c, have, faults :
                 Finds(b, c, faults, have, uses) /\ Finds(b, c, faults, have, Given(b, c, task))
                    => Runs(b, c, faults, have, Start(task, uses, fail, storage, stack, room))
<1> DEFINE step == [Step({task}, uses, fail) EXCEPT !.storage = storage, !.stack = stack, !.room = room]
<1>1. IsStep(step) /\ step.by = "none" /\ step.uses = uses /\ step.makes = {task}
  BY DEF Step, IsStep
<1>2. Start(task, uses, fail, storage, stack, room) = <<step>>
  BY DEF Start
<1> HIDE DEF step
<1>3. \A b, c : Asks(b, c, step) \subseteq uses \union Given(b, c, task)
  BY <1>1 DEF Asks
<1>4. \A b, c, have, faults :
         Finds(b, c, faults, have, uses) /\ Finds(b, c, faults, have, Given(b, c, task))
            => Finds(b, c, faults, have, Asks(b, c, step))
  BY <1>3 DEF Finds
<1> QED
  BY <1>1, <1>2, <1>4, OneRuns

LEMMA SetSteps ==
    ASSUME NEW uses, NEW fail, NEW times \in Nat
    PROVE  /\ IsProgram(Set(uses, fail, times))
           /\ \A b, c, have, faults : Finds(b, c, faults, have, uses) => Runs(b, c, faults, have, Set(uses, fail, times))
<1> DEFINE step == Step({}, uses, fail)
           s == [k \in 1 .. times |-> step]
<1>1. IsStep(step) /\ step.by = "none" /\ \A b, c : Asks(b, c, step) = uses
  BY StepAsks
<1>2. Set(uses, fail, times) = s
  BY DEF Set
<1> HIDE DEF step
<1>3. s \in Seq({step}) /\ Len(s) = times /\ \A k \in 1 .. times : s[k] = step
  OBVIOUS
<1> HIDE DEF s
<1> QED
  BY <1>1, <1>2, <1>3 DEF Runs, IsProgram, Finds

LEMMA EachSteps ==
    ASSUME NEW D, NEW ds \in Seq(D), NEW uses, NEW fail
    PROVE  /\ IsProgram(Each(ds, uses, fail))
           /\ \A b, c, have, faults : Finds(b, c, faults, have, uses) => Runs(b, c, faults, have, Each(ds, uses, fail))
           /\ \A faults : faults = 0 \/ Stays(fail) =>
                 \A k \in 1 .. Len(ds) : ds[k] \in Gains(faults, Each(ds, uses, fail))
<1> DEFINE one(d) == Step({d}, uses, fail)
           s == Each(ds, uses, fail)
<1>1. \A d : /\ IsStep(one(d)) /\ one(d).by = "none"
             /\ \A b, c : Asks(b, c, one(d)) = uses
             /\ \A faults : faults = 0 \/ Stays(fail) => Gain(faults, one(d)) = {d}
  BY StepAsks
<1>2. s = [k \in 1 .. Len(ds) |-> one(ds[k])]
  BY DEF Each
<1> HIDE DEF one, s
<1>3. s \in Seq({one(d) : d \in D}) /\ Len(s) = Len(ds) /\ Len(ds) \in Nat
  BY <1>2
<1>4. \A k \in 1 .. Len(ds) : s[k] = one(ds[k])
  BY <1>2
<1>5. IsProgram(s)
  BY <1>1, <1>3, <1>4 DEF IsProgram
<1>6. \A b, c, have, faults : Finds(b, c, faults, have, uses) => Runs(b, c, faults, have, s)
  BY <1>1, <1>3, <1>4, <1>5 DEF Runs, Finds
<1>7. ASSUME NEW faults, faults = 0 \/ Stays(fail), NEW k \in 1 .. Len(ds) PROVE ds[k] \in Gains(faults, s)
  <2>1. k \in Passed(faults, s, Len(s) + 1)
    BY <1>1, <1>3, <1>4 DEF Passed, LeavesOut
  <2>2. ds[k] \in Gain(faults, s[k])
    BY <1>1, <1>4, <1>7
  <2> QED
    BY <2>1, <2>2 DEF Gains, Before
<1> QED
  BY <1>5, <1>6, <1>7 DEF s

LEMMA TwoSteps ==
    ASSUME NEW d, NEW e, NEW uses, NEW fail
    PROVE  LET s == Each(<<d, e>>, uses, fail) IN
           /\ IsProgram(s)
           /\ \A b, c, have, faults : Finds(b, c, faults, have, uses) => Runs(b, c, faults, have, s)
           /\ \A faults : faults = 0 \/ Stays(fail) => d \in Gains(faults, s) /\ e \in Gains(faults, s)
<1> DEFINE ds == <<d, e>>
<1>1. ds \in Seq({d, e}) /\ 1 \in 1 .. Len(ds) /\ ds[1] = d /\ 2 \in 1 .. Len(ds) /\ ds[2] = e
  OBVIOUS
<1> HIDE DEF ds
<1>2. /\ IsProgram(Each(ds, uses, fail))
      /\ \A b, c, have, faults : Finds(b, c, faults, have, uses) => Runs(b, c, faults, have, Each(ds, uses, fail))
      /\ \A faults : faults = 0 \/ Stays(fail) =>
            d \in Gains(faults, Each(ds, uses, fail)) /\ e \in Gains(faults, Each(ds, uses, fail))
  BY <1>1, EachSteps
<1> QED
  BY <1>2 DEF ds

LEMMA ThreeSteps ==
    ASSUME NEW d, NEW e, NEW f, NEW uses, NEW fail
    PROVE  LET s == Each(<<d, e, f>>, uses, fail) IN
           /\ IsProgram(s)
           /\ \A b, c, have, faults : Finds(b, c, faults, have, uses) => Runs(b, c, faults, have, s)
           /\ \A faults : faults = 0 \/ Stays(fail) =>
                 d \in Gains(faults, s) /\ e \in Gains(faults, s) /\ f \in Gains(faults, s)
<1> DEFINE ds == <<d, e, f>>
<1>1. /\ ds \in Seq({d, e, f}) /\ 1 \in 1 .. Len(ds) /\ ds[1] = d /\ 2 \in 1 .. Len(ds) /\ ds[2] = e
      /\ 3 \in 1 .. Len(ds) /\ ds[3] = f
  OBVIOUS
<1> HIDE DEF ds
<1>2. /\ IsProgram(Each(ds, uses, fail))
      /\ \A b, c, have, faults : Finds(b, c, faults, have, uses) => Runs(b, c, faults, have, Each(ds, uses, fail))
      /\ \A faults : faults = 0 \/ Stays(fail) =>
            /\ d \in Gains(faults, Each(ds, uses, fail)) /\ e \in Gains(faults, Each(ds, uses, fail))
            /\ f \in Gains(faults, Each(ds, uses, fail))
  BY <1>1, EachSteps
<1> QED
  BY <1>2 DEF ds

LEMMA FnSteps ==
    ASSUME NEW name, name # "none", NEW s, IsProgram(s)
    PROVE  /\ IsProgram(Fn(name, s))
           /\ \A b, c, faults, have : Runs(b, c, faults, have, s) => Runs(b, c, faults, have, Fn(name, s))
           /\ \A faults : faults = 0 => Gains(faults, s) \subseteq Gains(faults, Fn(name, s))
           /\ \A faults : Gains(faults, s) \subseteq Gains(faults, Asserted(Fn(name, s)))
<1> DEFINE m == Len(s)
           f == Fn(name, s)
           g == Asserted(f)
<1>1. /\ m \in Nat /\ DOMAIN s = 1 .. m
      /\ \A k \in 1 .. m : IsStep(s[k]) /\ ((s[k].fail = "return" /\ s[k].by # "none") => k + s[k].skip <= m)
  BY DEF IsProgram
<1>2. f \in Seq({f[k] : k \in 1 .. m}) /\ Len(f) = m /\ DOMAIN f = 1 .. m
  <2>1. f = [k \in 1 .. m |-> f[k]]
    BY <1>1 DEF Fn
  <2> HIDE DEF f
  <2>2. [k \in 1 .. m |-> f[k]] \in [1 .. m -> {f[k] : k \in 1 .. m}]
    OBVIOUS
  <2> QED
    BY <1>1, <2>1, <2>2
<1>3. ASSUME NEW k \in 1 .. m
      PROVE  /\ IsStep(f[k]) /\ f[k].makes = s[k].makes /\ f[k].uses = s[k].uses
             /\ f[k].fail = s[k].fail /\ f[k].stack = s[k].stack
             /\ s[k].by # "none" => f[k] = s[k]
             /\ s[k].by = "none" /\ s[k].fail = "return" => k + f[k].skip = m
  <2> DEFINE l == IF s[k].fail = "return" THEN m - k ELSE 0
             new == [s[k] EXCEPT !.by = name, !.skip = l]
  <2>1. f[k] = IF s[k].by # "none" THEN s[k] ELSE new
    BY <1>1 DEF Fn
  <2>2. l \in Nat /\ IsStep(s[k]) /\ (s[k].fail = "return" => k + l = m)
    BY <1>1
  <2> HIDE DEF l
  <2>3. /\ IsStep(new) /\ new.makes = s[k].makes /\ new.uses = s[k].uses
        /\ new.fail = s[k].fail /\ new.stack = s[k].stack /\ new.skip = l
    BY <2>2 DEF IsStep
  <2> HIDE DEF new
  <2> QED
    BY <2>1, <2>2, <2>3
<1>4. g \in Seq({g[k] : k \in 1 .. m}) /\ Len(g) = m
  <2>1. g = [k \in 1 .. m |-> g[k]]
    BY <1>2 DEF Asserted
  <2> HIDE DEF g
  <2>2. [k \in 1 .. m |-> g[k]] \in [1 .. m -> {g[k] : k \in 1 .. m}]
    OBVIOUS
  <2> QED
    BY <1>1, <2>1, <2>2
<1>5. ASSUME NEW k \in 1 .. m
      PROVE  /\ g[k].makes = s[k].makes /\ g[k].fail # "return"
             /\ g[k].fail = IF s[k].fail = "return" THEN "assert" ELSE s[k].fail
  <2> DEFINE new == IF f[k].fail = "return" THEN "assert" ELSE f[k].fail
  <2>1. IsStep(f[k]) /\ f[k].makes = s[k].makes /\ f[k].fail = s[k].fail
    BY <1>3
  <2> HIDE DEF f
  <2>2. g[k] = [f[k] EXCEPT !.fail = new]
    BY <1>2, <2>1 DEF Asserted, IsStep
  <2> HIDE DEF g
  <2> QED
    BY <2>1, <2>2 DEF IsStep
<1> HIDE DEF m, f, g
<1>6. IsProgram(f)
  <2>1. ASSUME NEW k \in 1 .. m, f[k].fail = "return", f[k].by # "none" PROVE k + f[k].skip <= m
    <3>1. CASE s[k].by = "none"
      BY <1>1, <1>3, <2>1, <3>1
    <3>2. CASE s[k].by # "none"
      BY <1>1, <1>3, <2>1, <3>2
    <3> QED
      BY <3>1, <3>2
  <2> QED
    BY <1>2, <1>3, <2>1 DEF IsProgram
<1>7. ASSUME NEW faults, NEW k \in 1 .. m, NEW j \in Passed(faults, s, k) PROVE j \in Passed(faults, f, k)
  <2>1. j \in 1 .. k - 1 /\ \A h \in 1 .. j : h \in 1 .. m
    BY <1>1 DEF Passed
  <2>2. ASSUME faults # 0, NEW h \in 1 .. j, LeavesOut(f, h, j, k) PROVE FALSE
    <3>1. CASE s[h].by # "none"
      BY <1>3, <2>1, <2>2, <3>1 DEF LeavesOut, Passed
    <3>2. CASE s[h].by = "none"
      <4>1. h + f[h].skip = m
        BY <1>3, <2>1, <2>2, <3>2 DEF LeavesOut
      <4> QED
        BY <1>1, <2>2, <4>1 DEF LeavesOut
    <3> QED
      BY <3>1, <3>2
  <2> QED
    BY <2>1, <2>2 DEF Passed
<1>8. \A faults : \A k \in 1 .. m : Before(faults, s, k) \subseteq Before(faults, f, k)
  <2> SUFFICES ASSUME NEW faults, NEW k \in 1 .. m, NEW j \in Passed(faults, s, k)
               PROVE  Gain(faults, s[j]) \subseteq Before(faults, f, k)
    BY DEF Before
  <2>1. j \in 1 .. m
    BY <1>1 DEF Passed
  <2>2. Gain(faults, f[j]) = Gain(faults, s[j])
    BY <1>3, <2>1 DEF Gain
  <2>3. j \in Passed(faults, f, k)
    BY <1>7
  <2> QED
    BY <2>2, <2>3 DEF Before
<1>9. \A b, c, faults, have : Runs(b, c, faults, have, s) => Runs(b, c, faults, have, f)
  <2>1. \A b, c : \A k \in 1 .. m : Asks(b, c, f[k]) = Asks(b, c, s[k])
    BY <1>3 DEF Asks
  <2> QED
    BY <1>2, <1>6, <1>8, <2>1 DEF Runs, m
<1>10. \A faults : faults = 0 => Gains(faults, s) \subseteq Gains(faults, f)
  <2> SUFFICES ASSUME NEW faults, faults = 0, NEW j \in 1 .. m PROVE Gain(faults, s[j]) \subseteq Gains(faults, f)
    BY <1>1 DEF Gains, Before, Passed, m
  <2>1. j \in Passed(faults, f, m + 1) /\ Gain(faults, f[j]) = Gain(faults, s[j])
    BY <1>1, <1>3 DEF Gain, Passed
  <2> QED
    BY <1>2, <2>1 DEF Gains, Before
<1>11. \A faults : Gains(faults, s) \subseteq Gains(faults, g)
  <2> SUFFICES ASSUME NEW faults, NEW j \in Passed(faults, s, m + 1) PROVE Gain(faults, s[j]) \subseteq Gains(faults, g)
    BY DEF Gains, Before, m
  <2>1. j \in 1 .. m /\ \A h \in 1 .. j : h \in 1 .. m
    BY <1>1 DEF Passed
  <2>2. j \in Passed(faults, g, m + 1)
    BY <1>1, <1>5, <2>1 DEF Passed, LeavesOut
  <2>3. Gain(faults, g[j]) = Gain(faults, s[j])
    BY <1>5, <2>1 DEF Gain
  <2> QED
    BY <1>4, <2>2, <2>3 DEF Gains, Before
<1> QED
  BY <1>6, <1>9, <1>10, <1>11 DEF f, g

LEMMA AssertedSteps ==
    ASSUME NEW s, IsProgram(s)
    PROVE  /\ IsProgram(Asserted(s))
           /\ \A b, c, faults, have : Runs(b, c, faults, have, s) => Runs(b, c, faults, have, Asserted(s))
<1> DEFINE m == Len(s)
           g == Asserted(s)
<1>1. m \in Nat /\ DOMAIN s = 1 .. m /\ \A k \in 1 .. m : IsStep(s[k])
  BY DEF IsProgram
<1>2. g \in Seq({g[k] : k \in 1 .. m}) /\ Len(g) = m
  <2>1. g = [k \in 1 .. m |-> g[k]]
    BY <1>1 DEF Asserted
  <2> HIDE DEF g
  <2>2. [k \in 1 .. m |-> g[k]] \in [1 .. m -> {g[k] : k \in 1 .. m}]
    OBVIOUS
  <2> QED
    BY <1>1, <2>1, <2>2
<1>3. ASSUME NEW k \in 1 .. m
      PROVE  /\ IsStep(g[k]) /\ g[k].makes = s[k].makes /\ g[k].uses = s[k].uses /\ g[k].stack = s[k].stack
             /\ g[k].fail # "return" /\ g[k].fail = IF s[k].fail = "return" THEN "assert" ELSE s[k].fail
  <2> DEFINE new == IF s[k].fail = "return" THEN "assert" ELSE s[k].fail
  <2>1. g[k] = [s[k] EXCEPT !.fail = new] /\ IsStep(s[k])
    BY <1>1 DEF Asserted, IsStep
  <2> HIDE DEF g
  <2> QED
    BY <2>1 DEF IsStep
<1> HIDE DEF m, g
<1>4. IsProgram(g)
  BY <1>2, <1>3 DEF IsProgram
<1>5. \A faults : \A k \in 1 .. m : Before(faults, s, k) \subseteq Before(faults, g, k)
  <2> SUFFICES ASSUME NEW faults, NEW k \in 1 .. m, NEW j \in Passed(faults, s, k)
               PROVE  Gain(faults, s[j]) \subseteq Before(faults, g, k)
    BY DEF Before
  <2>1. j \in 1 .. m /\ \A h \in 1 .. j : h \in 1 .. m
    BY <1>1 DEF Passed
  <2>2. j \in Passed(faults, g, k)
    BY <1>3, <2>1 DEF Passed, LeavesOut
  <2>3. Gain(faults, g[j]) = Gain(faults, s[j])
    BY <1>3, <2>1 DEF Gain
  <2> QED
    BY <2>2, <2>3 DEF Before
<1>6. \A b, c, faults, have : Runs(b, c, faults, have, s) => Runs(b, c, faults, have, g)
  <2>1. \A b, c : \A k \in 1 .. m : Asks(b, c, g[k]) = Asks(b, c, s[k])
    BY <1>3 DEF Asks
  <2> QED
    BY <1>2, <1>4, <1>5, <2>1 DEF Runs, m
<1> QED
  BY <1>4, <1>6 DEF g

\* The parts of a program: that they are programs,
LEMMA PartsArePrograms ==
    /\ \A d, uses, fail : IsProgram(Make(d, uses, fail))
    /\ \A d, pin, fail : IsProgram(Channel(d, pin, fail))
    /\ \A uses, fail, times : times \in Nat => IsProgram(Set(uses, fail, times))
    /\ \A d, e, uses, fail : IsProgram(Each(<<d, e>>, uses, fail))
    /\ \A d, e, f, uses, fail : IsProgram(Each(<<d, e, f>>, uses, fail))
    /\ \A task, uses, fail, storage, stack, room : IsProgram(Start(task, uses, fail, storage, stack, room))
    /\ \A cond, s : (cond => IsProgram(s)) => IsProgram(If(cond, s))
    /\ \A s, t : IsProgram(s) /\ IsProgram(t) => IsProgram(s \o t)
    /\ \A name, s : name # "none" /\ IsProgram(s) => IsProgram(Fn(name, s))
    /\ \A s : IsProgram(s) => IsProgram(Asserted(s))
<1>1. \A d, uses, fail : IsProgram(Make(d, uses, fail))
  BY MakeSteps
<1>2. \A uses, fail, times : times \in Nat => IsProgram(Set(uses, fail, times))
  BY SetSteps
<1>3. \A d, e, uses, fail : IsProgram(Each(<<d, e>>, uses, fail))
  BY TwoSteps
<1>4. \A d, e, f, uses, fail : IsProgram(Each(<<d, e, f>>, uses, fail))
  BY ThreeSteps
<1>5. \A task, uses, fail, storage, stack, room : IsProgram(Start(task, uses, fail, storage, stack, room))
  BY StartSteps
<1>6. IsProgram(<<>>)
  BY EmptyRuns, RunsIsProgram
<1>7. \A cond, s : (cond => IsProgram(s)) => IsProgram(If(cond, s))
  BY <1>6 DEF If
<1>8. \A s, t : IsProgram(s) /\ IsProgram(t) => IsProgram(s \o t)
  BY JoinIsProgram
<1>9. \A name, s : name # "none" /\ IsProgram(s) => IsProgram(Fn(name, s))
  BY FnSteps
<1>10. \A s : IsProgram(s) => IsProgram(Asserted(s))
  BY AssertedSteps
<1>11. \A d, pin, fail : IsProgram(Channel(d, pin, fail))
  BY ChannelSteps
<1> QED
  BY <1>1, <1>2, <1>3, <1>4, <1>5, <1>7, <1>8, <1>9, <1>10, <1>11

\* that they run where they find what they use,
LEMMA PartsRun ==
    /\ \A b, c, faults, have, d, uses, fail :
          Finds(b, c, faults, have, uses) => Runs(b, c, faults, have, Make(d, uses, fail))
    /\ \A b, c, faults, have, d, pin, fail : Runs(b, c, faults, have, Channel(d, pin, fail))
    /\ \A b, c, faults, have, uses, fail, times :
          times \in Nat /\ Finds(b, c, faults, have, uses) => Runs(b, c, faults, have, Set(uses, fail, times))
    /\ \A b, c, faults, have, d, e, uses, fail :
          Finds(b, c, faults, have, uses) => Runs(b, c, faults, have, Each(<<d, e>>, uses, fail))
    /\ \A b, c, faults, have, d, e, f, uses, fail :
          Finds(b, c, faults, have, uses) => Runs(b, c, faults, have, Each(<<d, e, f>>, uses, fail))
    /\ \A b, c, faults, have, task, uses, fail, storage, stack, room :
          Finds(b, c, faults, have, uses) /\ Finds(b, c, faults, have, Given(b, c, task))
             => Runs(b, c, faults, have, Start(task, uses, fail, storage, stack, room))
    /\ \A b, c, faults, have, cond, s :
          (cond => Runs(b, c, faults, have, s)) => Runs(b, c, faults, have, If(cond, s))
    /\ \A b, c, faults, have, s, t :
          Runs(b, c, faults, have, s) /\ Runs(b, c, faults, After(faults, have, s), t) => Runs(b, c, faults, have, s \o t)
    /\ \A b, c, faults, have, name, s :
          name # "none" /\ Runs(b, c, faults, have, s) => Runs(b, c, faults, have, Fn(name, s))
    /\ \A b, c, faults, have, s : Runs(b, c, faults, have, s) => Runs(b, c, faults, have, Asserted(s))
<1>1. \A b, c, faults, have, d, uses, fail :
         Finds(b, c, faults, have, uses) => Runs(b, c, faults, have, Make(d, uses, fail))
  BY MakeSteps
<1>2. \A b, c, faults, have, uses, fail, times :
         times \in Nat /\ Finds(b, c, faults, have, uses) => Runs(b, c, faults, have, Set(uses, fail, times))
  BY SetSteps
<1>3. \A b, c, faults, have, d, e, uses, fail :
         Finds(b, c, faults, have, uses) => Runs(b, c, faults, have, Each(<<d, e>>, uses, fail))
  BY TwoSteps
<1>4. \A b, c, faults, have, d, e, f, uses, fail :
         Finds(b, c, faults, have, uses) => Runs(b, c, faults, have, Each(<<d, e, f>>, uses, fail))
  BY ThreeSteps
<1>5. \A b, c, faults, have, task, uses, fail, storage, stack, room :
         Finds(b, c, faults, have, uses) /\ Finds(b, c, faults, have, Given(b, c, task))
            => Runs(b, c, faults, have, Start(task, uses, fail, storage, stack, room))
  BY StartSteps
<1>6. \A b, c, faults, have, cond, s :
         (cond => Runs(b, c, faults, have, s)) => Runs(b, c, faults, have, If(cond, s))
  BY EmptyRuns DEF If
<1>7. \A b, c, faults, have, name, s :
         name # "none" /\ Runs(b, c, faults, have, s) => Runs(b, c, faults, have, Fn(name, s))
  BY FnSteps, RunsIsProgram
<1>8. \A b, c, faults, have, s : Runs(b, c, faults, have, s) => Runs(b, c, faults, have, Asserted(s))
  BY AssertedSteps, RunsIsProgram
<1>9. \A b, c, faults, have, d, pin, fail : Runs(b, c, faults, have, Channel(d, pin, fail))
  BY ChannelSteps
<1> QED
  BY <1>1, <1>2, <1>3, <1>4, <1>5, <1>6, <1>7, <1>8, <1>9, JoinRuns

\* and what exists behind them.
LEMMA PartsGain ==
    /\ \A faults, have, s, d : d \in have \/ d \in Gains(faults, s) => d \in After(faults, have, s)
    /\ \A faults, d, uses, fail : faults = 0 \/ Stays(fail) => d \in Gains(faults, Make(d, uses, fail))
    /\ \A faults, d, pin, fail : faults = 0 \/ Stays(fail) => d \in Gains(faults, Channel(d, pin, fail))
    /\ \A faults, d, e, uses, fail : faults = 0 \/ Stays(fail) =>
          d \in Gains(faults, Each(<<d, e>>, uses, fail)) /\ e \in Gains(faults, Each(<<d, e>>, uses, fail))
    /\ \A faults, d, e, f, uses, fail : faults = 0 \/ Stays(fail) =>
          /\ d \in Gains(faults, Each(<<d, e, f>>, uses, fail)) /\ e \in Gains(faults, Each(<<d, e, f>>, uses, fail))
          /\ f \in Gains(faults, Each(<<d, e, f>>, uses, fail))
    /\ \A faults, cond, s, d : cond /\ d \in Gains(faults, s) => d \in Gains(faults, If(cond, s))
    /\ \A faults, s, t, d :
          IsProgram(s) /\ IsProgram(t) /\ (d \in Gains(faults, s) \/ d \in Gains(faults, t)) => d \in Gains(faults, s \o t)
    /\ \A faults, name, s, d :
          faults = 0 /\ name # "none" /\ IsProgram(s) /\ d \in Gains(faults, s) => d \in Gains(faults, Fn(name, s))
    /\ \A faults, name, s, d :
          name # "none" /\ IsProgram(s) /\ d \in Gains(faults, s) => d \in Gains(faults, Asserted(Fn(name, s)))
<1>1. \A faults, d, uses, fail : faults = 0 \/ Stays(fail) => d \in Gains(faults, Make(d, uses, fail))
  BY MakeSteps
<1>2. \A faults, d, e, uses, fail : faults = 0 \/ Stays(fail) =>
         d \in Gains(faults, Each(<<d, e>>, uses, fail)) /\ e \in Gains(faults, Each(<<d, e>>, uses, fail))
  BY TwoSteps
<1>3. \A faults, d, e, f, uses, fail : faults = 0 \/ Stays(fail) =>
         /\ d \in Gains(faults, Each(<<d, e, f>>, uses, fail)) /\ e \in Gains(faults, Each(<<d, e, f>>, uses, fail))
         /\ f \in Gains(faults, Each(<<d, e, f>>, uses, fail))
  BY ThreeSteps
<1>4. \A faults, cond, s, d : cond /\ d \in Gains(faults, s) => d \in Gains(faults, If(cond, s))
  BY DEF If
<1>5. \A faults, name, s, d :
         faults = 0 /\ name # "none" /\ IsProgram(s) /\ d \in Gains(faults, s) => d \in Gains(faults, Fn(name, s))
  BY FnSteps
<1>6. \A faults, name, s, d :
         name # "none" /\ IsProgram(s) /\ d \in Gains(faults, s) => d \in Gains(faults, Asserted(Fn(name, s)))
  BY FnSteps
<1>7. \A faults, d, pin, fail : faults = 0 \/ Stays(fail) => d \in Gains(faults, Channel(d, pin, fail))
  BY ChannelSteps
<1> QED
  BY <1>1, <1>2, <1>3, <1>4, <1>5, <1>6, <1>7, AfterHas, JoinGains

LEMMA ConsoleRuns ==
    /\ \A c, uart, fail : IsProgram(Console(c, uart, fail))
    /\ \A b, c, faults, have, uart, fail :
          /\ "NEWLIB" \in c => "UART" \in c
          /\ "NLIBC" \in c => "UART" \in c
          /\ faults # 0 => Stays(fail) \/ uart \in Excused(b, c, faults)
          => Runs(b, c, faults, have, Console(c, uart, fail))
<1>1. \A c, uart, fail : IsProgram(Console(c, uart, fail))
  BY PartsArePrograms DEF Console
<1>2. ASSUME NEW b, NEW c, NEW faults, NEW have, NEW uart, NEW fail,
             "NEWLIB" \in c => "UART" \in c, "NLIBC" \in c => "UART" \in c,
             faults # 0 => Stays(fail) \/ uart \in Excused(b, c, faults)
      PROVE  Runs(b, c, faults, have, Console(c, uart, fail))
  <2> USE PartsArePrograms, PartsRun, PartsGain DEF Finds
  <2>1. CASE "UART" \in c
    BY <1>2, <2>1 DEF Console
  <2>2. CASE "UART" \notin c
    BY <1>2, <2>2 DEF Console
  <2> QED
    BY <2>1, <2>2
<1> QED
  BY <1>1, <1>2

LEMMA ManagerRuns ==
    /\ \A c, stack, fail : IsProgram(Manager(c, stack, fail))
    /\ \A b, c, faults, have, stack, fail :
          Given(b, c, "taskManTask") = {} => Runs(b, c, faults, have, Manager(c, stack, fail))
<1>1. \A c, stack, fail : IsProgram(Manager(c, stack, fail))
  BY PartsArePrograms DEF Manager
<1>2. ASSUME NEW b, NEW c, NEW faults, NEW have, NEW stack, NEW fail, Given(b, c, "taskManTask") = {}
      PROVE  Runs(b, c, faults, have, Manager(c, stack, fail))
  BY <1>2, PartsRun DEF Manager, Finds
<1> QED
  BY <1>1, <1>2

\* Every early return has a function to leave.
Settled(s) == \A k \in 1 .. Len(s) : s[k].fail = "return" => s[k].by # "none"

LEMMA PartsSettle ==
    /\ Settled(<<>>)
    /\ \A uses, fail, times : times \in Nat /\ fail # "return" => Settled(Set(uses, fail, times))
    /\ \A cond, s : (cond => Settled(s)) => Settled(If(cond, s))
    /\ \A s, t : IsProgram(s) /\ IsProgram(t) /\ Settled(s) /\ Settled(t) => Settled(s \o t)
    /\ \A name, s : name # "none" /\ IsProgram(s) => Settled(Fn(name, s))
<1>1. Settled(<<>>)
  BY DEF Settled
<1>2. ASSUME NEW uses, NEW fail, NEW times \in Nat, fail # "return" PROVE Settled(Set(uses, fail, times))
  <2> DEFINE step == Step({}, uses, fail)
             s == [k \in 1 .. times |-> step]
  <2>1. step.fail # "return"
    BY <1>2 DEF Step
  <2>2. Set(uses, fail, times) = s
    BY DEF Set
  <2> HIDE DEF step
  <2>3. Len(s) = times /\ \A k \in 1 .. times : s[k] = step
    OBVIOUS
  <2> HIDE DEF s
  <2> QED
    BY <2>1, <2>2, <2>3 DEF Settled
<1>3. \A cond, s : (cond => Settled(s)) => Settled(If(cond, s))
  BY <1>1 DEF If
<1>4. ASSUME NEW s, NEW t, IsProgram(s), IsProgram(t), Settled(s), Settled(t) PROVE Settled(s \o t)
  <2> DEFINE m == Len(s)
             l == Len(t)
             st == s \o t
  <2>1. /\ m \in Nat /\ l \in Nat /\ Len(st) = m + l
        /\ \A k \in 1 .. m : st[k] = s[k]
        /\ \A k \in 1 .. l : st[m + k] = t[k]
    BY <1>4, JoinIsProgram
  <2>2. /\ \A k \in 1 .. m : s[k].fail = "return" => s[k].by # "none"
        /\ \A k \in 1 .. l : t[k].fail = "return" => t[k].by # "none"
    BY <1>4 DEF Settled
  <2> HIDE DEF m, l, st
  <2>3. ASSUME NEW k \in 1 .. m + l PROVE st[k].fail = "return" => st[k].by # "none"
    <3>1. CASE k <= m
      BY <2>1, <2>2, <3>1
    <3>2. CASE k > m
      <4> DEFINE j == k - m
      <4>1. j \in 1 .. l /\ k = m + j
        BY <2>1, <3>2
      <4> HIDE DEF j
      <4> QED
        BY <2>1, <2>2, <4>1
    <3> QED
      BY <2>1, <3>1, <3>2
  <2>4. Settled(st)
    BY <2>1, <2>3 DEF Settled
  <2> QED
    BY <2>4 DEF st
<1>5. ASSUME NEW name, NEW s, name # "none", IsProgram(s) PROVE Settled(Fn(name, s))
  <2> DEFINE m == Len(s)
             f == Fn(name, s)
  <2>1. m \in Nat /\ DOMAIN s = 1 .. m /\ \A k \in 1 .. m : IsStep(s[k])
    BY <1>5 DEF IsProgram
  <2>2. DOMAIN f = 1 .. m
    BY <2>1 DEF Fn
  <2>3. ASSUME NEW k \in 1 .. m PROVE f[k].by # "none"
    <3> DEFINE skip == IF s[k].fail = "return" THEN m - k ELSE 0
               new == [s[k] EXCEPT !.by = name, !.skip = skip]
    <3>1. f[k] = IF s[k].by # "none" THEN s[k] ELSE new
      BY <2>1 DEF Fn
    <3> HIDE DEF skip
    <3>2. new.by = name
      BY <2>1 DEF IsStep
    <3> QED
      BY <1>5, <3>1, <3>2
  <2> HIDE DEF m, f
  <2>4. Len(f) = m
    <3>1. IsProgram(f)
      BY <1>5, PartsArePrograms DEF f
    <3>2. PICK S : f \in Seq(S)
      BY <3>1 DEF IsProgram
    <3>3. DOMAIN f = 1 .. Len(f) /\ Len(f) \in Nat
      BY <3>2
    <3> QED
      BY <2>1, <2>2, <3>3
  <2>5. Settled(f)
    BY <2>3, <2>4 DEF Settled
  <2> QED
    BY <2>5 DEF f
<1> QED
  BY <1>1, <1>2, <1>3, <1>4, <1>5

LEMMA vf610_Runs ==
    ASSUME NEW c, NEW faults, "PPM" \in c => "GPIO" \in c, "NEWLIB" \in c \/ "NLIBC" \in c => "UART" \in c
    PROVE  /\ Runs("vf610", c, faults, {}, vf610_main(c)) /\ Settled(vf610_main(c))
           /\ \A task \in DOMAIN vf610_tasks(c) :
                 Runs("vf610", c, faults, Given("vf610", c, task), vf610_tasks(c)[task]) /\ Settled(vf610_tasks(c)[task])
<1> USE PartsArePrograms, PartsRun, PartsGain DEF Stays, Finds
<1> DEFINE Fine(have, s) == Runs("vf610", c, faults, have, s)
           Goes(s) == IsProgram(s) /\ \A have : Fine(have, s)
           First(s) == IsProgram(s) /\ Fine({}, s)
           Gets(task, D) == \A x \in Given("vf610", c, task) : x \in D
<1>1. /\ \A d \in {"rc", "uart0", "uart1", "timer0", "timer1", "ppm"} : faults = 0 \/ d \in Excused("vf610", c, faults)
      /\ "PWM" \in c /\ ("PWM_TEST" \in c \/ "FLEXTIMER" \notin c) => "pwm3" \in Excused("vf610", c, faults)
  BY DEF Excused, Holes, Unchecked, When
<1>2. /\ \A task \in {"buffer1Test", "buffer2Test", "buffer3Test", "buffer4Test", "bufferIRQTest", "bufferTTYTest",
                       "pingTask", "ppm_task", "speedtest_task", "mputest_initTask", "tpstest_initTask",
                       "uart_test1", "uart_test2", "taskManTask"} : Gets(task, {})
      /\ Gets("spiTask", {"spi1.0", "spi1.1", "spi1.2"}) /\ Gets("mputest_task", {"mpu"})
      /\ Gets("adctestTask", {"adc0"}) /\ Gets("tpstest_task", {"tps", "adc1"})
      /\ Gets("pwmTask", {"pwm0", "pwm1", "pwm2"}) /\ Gets("rcTask", {"rc"}) /\ Gets("rcTestTask", {"rc"})
      /\ Gets("lcTask", {"lc.RX"}) /\ Given("vf610", c, "taskManTask") = {}
      /\ \A x \in Given("vf610", c, "ledTask") :
            \/ "PWM" \in c /\ "PWM_TEST" \notin c /\ "FLEXTIMER" \in c /\ x = "pwm3"
            \/ "GPIO" \in c /\ x = "PTB17"
  BY DEF Given, vf610_Given, When
<1>3. Goes(vf610_initGPIO(c))
  BY DEF vf610_initGPIO
<1>4. Goes(vf610_bufferInit(c))
  <2> DEFINE A == If("BUFFERTEST_SELF" \in c,
                     Each(<<"buffer1", "buffer2">>, {}, "assert")
                     \o Start("buffer1Test", {}, "drop", "buffer1TestTask", 512, 512)
                     \o Start("buffer2Test", {}, "drop", "buffer2TestTask", 512, 512))
             B == If("BUFFERTEST_IRQ" \in c, Start("bufferIRQTest", {}, "drop", "bufferIRQTask", 512, 512))
             C == If("TTY_BUFFERTEST" \in c, Start("bufferTTYTest", {}, "drop", "bufferTTYTask", 512, 512))
  <2>1. Goes(Each(<<"buffer1", "buffer2">>, {}, "assert")
                     \o Start("buffer1Test", {}, "drop", "buffer1TestTask", 512, 512)
                     \o Start("buffer2Test", {}, "drop", "buffer2TestTask", 512, 512))
    BY <1>2
  <2>2. Goes(A)
    BY <2>1
  <2>3. Goes(B)
    BY <1>2
  <2>4. Goes(C)
    BY <1>2
  <2>5. vf610_bufferInit(c) = Fn("bufferInit", A \o Each(<<"bufferRX", "bufferTX">>, {}, "assert") \o B \o C)
    BY DEF vf610_bufferInit
  <2> HIDE DEF A, B, C
  <2> QED
    BY <2>2, <2>3, <2>4, <2>5
<1>5. Goes(vf610_irqtest_init)
  BY <1>2 DEF vf610_irqtest_init
<1>6. Goes(vf610_bufferInit2)
  BY <1>2 DEF vf610_bufferInit2
<1>7. IsProgram(vf610_ppm_init) /\ \A have : "PTA19" \in have => Fine(have, vf610_ppm_init)
  BY <1>1, <1>2 DEF vf610_ppm_init
<1>8. Goes(vf610_pwmtest_init(c))
  <2> DEFINE A == Make("timer1", {}, "drop") \o Make("timer0", {}, "return") \o Set({"timer0"}, "assert", 1)
             B == A \o Channel("pwm0", "PTB0", "assert") \o Each(<<"pwm2", "pwm1">>, {}, "assert")
             C == B \o Set({"pwm0"}, "assert", 1) \o Set({"pwm1"}, "assert", 1) \o Set({"pwm2"}, "assert", 1)
             D == Make("rc", {"timer1"}, "drop") \o Make("capture2", {}, "assert")
                  \o Set({"rc", "capture2"}, "assert", 1)
                  \o Start("rcTask", {"rc"}, "drop", "rcTestTask", 512, 512)
             E == Make("timer3", {}, "return") \o Set({"timer3"}, "assert", 4)
             F == IF "RC" \notin c THEN E ELSE D
  <2>1. /\ Goes(A)
        /\ faults = 0 => "timer1" \in Gains(faults, A)
    BY <1>1
  <2>2. vf610_pwmtest_init(c) = Fn("pwmtest_init", C \o F \o Start("pwmTask", {}, "drop", "rcTestTask", 512, 512))
    BY Zenon DEF vf610_pwmtest_init
  <2> HIDE DEF A
  <2>3. /\ Goes(B)
        /\ \A d \in {"pwm0", "pwm1", "pwm2"} : d \in Gains(faults, B)
        /\ faults = 0 => "timer1" \in Gains(faults, B)
    BY <2>1
  <2> HIDE DEF B
  <2>4. /\ Goes(C)
        /\ \A d \in {"pwm0", "pwm1", "pwm2"} : d \in Gains(faults, C)
        /\ faults = 0 => "timer1" \in Gains(faults, C)
    BY <2>3
  <2> HIDE DEF C
  <2>5. IsProgram(D) /\ \A have : faults # 0 \/ "timer1" \in have => Fine(have, D)
    BY <1>1, <1>2
  <2>6. Goes(E)
    OBVIOUS
  <2> HIDE DEF D, E
  <2>7. IsProgram(F) /\ \A have : faults # 0 \/ "timer1" \in have => Fine(have, F)
    BY <2>5, <2>6
  <2> HIDE DEF F
  <2> QED
    BY <1>2, <2>2, <2>4, <2>7
<1>9. Goes(adctest_init)
  BY <1>2 DEF adctest_init
<1>10. Goes(vf610_mputest_init)
  BY <1>2 DEF vf610_mputest_init
<1>11. Goes(vf610_spitest_init)
  BY <1>2 DEF vf610_spitest_init
<1>12. Goes(vf610_mputest_initTask)
  BY <1>2 DEF vf610_mputest_initTask
<1>13. Goes(tpstest_init)
  BY <1>2 DEF tpstest_init
<1>14. Goes(tpstest_initTask)
  BY <1>2 DEF tpstest_initTask
<1>15. Goes(uarttest_init)
  BY <1>2 DEF uarttest_init
<1>16. Goes(lc_init)
  BY <1>2 DEF lc_init
<1>17. Goes(speedtest_init)
  BY <1>1, <1>2 DEF speedtest_init
<1>18. IsProgram(rcInit) /\ \A have : "timer1" \in have => Fine(have, rcInit)
  <2> DEFINE D == {"capture5", "capture4", "capture3", "capture2", "capture7", "capture6"}
             ds == <<"capture5", "capture4", "capture3", "capture2", "capture7", "capture6">>
             A == Each(ds, {}, "assert")
  <2>1. ds \in Seq(D)
    OBVIOUS
  <2> HIDE DEF D, ds
  <2>2. Goes(A)
    BY <2>1, EachSteps
  <2>3. rcInit = Fn("rcInit", Make("rc", {"timer1"}, "drop") \o A \o Set({"rc"}, "assert", 6)
                              \o Start("rcTestTask", {"rc"}, "drop", "rcTask", 512, 512))
    BY DEF rcInit, ds
  <2> HIDE DEF A
  <2> QED
    BY <1>1, <1>2, <2>2, <2>3
<1>19. First(vf610_main(c)) /\ Settled(vf610_main(c))
  <2> DEFINE A == Set({}, "assert", 1) \o Console(c, "uart1", "drop")
             B == A \o If("GPIO" \in c, Asserted(vf610_initGPIO(c)))
             C == B \o If("BUFFERTEST" \in c, vf610_bufferInit(c)) \o If("IRQTEST" \in c, vf610_irqtest_init)
             D == C \o If("PPM" \in c, vf610_ppm_init \o Set({"ppm", "timer0"}, "drop", 1))
             E == D \o If("PWM_TEST" \in c, vf610_pwmtest_init(c))
             timer == Each(<<"timer1", "pwm3">>, {}, "assert") \o Set({"pwm3"}, "assert", 2)
             F == E \o If("PWM_TEST" \notin c /\ "FLEXTIMER" \in c, timer \o If("RCTEST" \in c, rcInit))
             G == F \o If({"GPIO", "PWM"} \intersect c # {}, Start("ledTask", {}, "drop", "taskLED", 128, 128))
                  \o Manager(c, 512, "drop")
  <2>1. Goes(A)
    BY <1>1, ConsoleRuns
  <2>2. /\ Goes(Asserted(vf610_initGPIO(c)))
        /\ \A d \in {"PTA19", "PTB17"} : d \in Gains(faults, Asserted(vf610_initGPIO(c)))
    BY <1>3 DEF vf610_initGPIO
  <2>3. vf610_main(c) = Fn("main", G \o If("SPITEST" \in c, vf610_spitest_init)
       \o If("MPUTEST" \in c, vf610_mputest_init)
       \o If("ADCTEST" \in c, adctest_init)
       \o If("TPSTEST" \in c, tpstest_init)
       \o If("UARTTEST" \in c, uarttest_init)
       \o If("LINUX_CON" \in c, lc_init)
       \o If("SPEEDTEST" \in c, speedtest_init))
    BY DEF vf610_main
  <2> HIDE DEF A
  <2>4. First(B) /\ ("GPIO" \in c => \A d \in {"PTA19", "PTB17"} : d \in Gains(faults, B))
    BY <2>1, <2>2
  <2> HIDE DEF B
  <2>5. First(C) /\ ("GPIO" \in c => \A d \in {"PTA19", "PTB17"} : d \in Gains(faults, C))
    BY <1>4, <1>5, <2>4
  <2>6. faults = 0 => \A d \in {"ppm", "timer0"} : d \in Gains(faults, vf610_ppm_init)
    BY <1>2 DEF vf610_ppm_init
  <2> HIDE DEF C
  <2>7. First(D) /\ ("GPIO" \in c => "PTB17" \in Gains(faults, D))
    BY <1>1, <1>7, <2>5, <2>6
  <2> HIDE DEF D
  <2>8. First(E) /\ ("GPIO" \in c => "PTB17" \in Gains(faults, E))
    BY <1>8, <2>7
  <2> HIDE DEF E
  <2>9. Goes(timer) /\ (\A d \in {"timer1", "pwm3"} : d \in Gains(faults, timer))
    OBVIOUS
  <2> HIDE DEF timer
  <2>10. (Goes(timer \o If("RCTEST" \in c, rcInit)))
         /\ "pwm3" \in Gains(faults, timer \o If("RCTEST" \in c, rcInit))
    BY <1>18, <2>9
  <2>11. /\ First(F) /\ ("GPIO" \in c => "PTB17" \in Gains(faults, F))
         /\ "PWM_TEST" \notin c /\ "FLEXTIMER" \in c => "pwm3" \in Gains(faults, F)
    BY <2>8, <2>10
  <2> HIDE DEF F
  <2>12. IsProgram(Start("ledTask", {}, "drop", "taskLED", 128, 128))
         /\ \A have : ({"GPIO", "PWM"} \intersect c # {} => 
                         ("GPIO" \in c => "PTB17" \in have)
                         /\ ("PWM" \in c => "pwm3" \in have \/ "pwm3" \in Excused("vf610", c, faults)))
                      => Fine(have, If({"GPIO", "PWM"} \intersect c # {}, Start("ledTask", {}, "drop", "taskLED", 128, 128)))
    BY <1>2
  <2>13. First(G)
    BY <1>1, <1>2, <2>11, <2>12, ManagerRuns
  <2> HIDE DEF G
  <2> QED
    BY PartsSettle, <2>3, <2>13, <1>9, <1>10, <1>11, <1>13, <1>15, <1>16, <1>17
<1>20. IsProgram(uart_test1) /\ IsProgram(uart_test2) /\ Goes(uart_test1) /\ Goes(uart_test2)
  BY <1>1 DEF uart_test1, uart_test2
<1>21. /\ Settled(vf610_mputest_initTask) /\ Settled(tpstest_initTask) /\ Settled(vf610_bufferInit2)
       /\ Settled(uart_test1) /\ Settled(uart_test2)
  BY PartsSettle DEF vf610_mputest_initTask, tpstest_initTask, vf610_bufferInit2, uart_test1, uart_test2
<1>22. /\ Settled(vf610_ledRound(c)) /\ Settled(vf610_spiTask) /\ Settled(vf610_mputest_task) /\ Settled(adctestTask)
       /\ Settled(tpstest_task) /\ Settled(pwmRound) /\ Settled(rcTestTask) /\ Settled(rcTask)
       /\ Settled(Set({"lc.RX"}, "drop", 1))
  BY PartsSettle DEF vf610_ledRound, vf610_spiTask, vf610_mputest_task, adctestTask, tpstest_task, pwmRound,
                     rcTestTask, rcTask
<1>23. /\ Fine(Given("vf610", c, "ledTask"), vf610_ledRound(c))
       /\ Fine({"spi1.0", "spi1.1", "spi1.2"}, vf610_spiTask) /\ Fine({"mpu"}, vf610_mputest_task)
       /\ Fine({"adc0"}, adctestTask) /\ Fine({"tps", "adc1"}, tpstest_task)
       /\ Fine({"pwm0", "pwm1", "pwm2"}, pwmRound) /\ Fine({"rc"}, rcTestTask) /\ Fine({"rc"}, rcTask)
       /\ Fine({"lc.RX"}, Set({"lc.RX"}, "drop", 1))
  <2>1. Fine({"spi1.0", "spi1.1", "spi1.2"}, vf610_spiTask)
    BY DEF vf610_spiTask
  <2>2. Fine({"pwm0", "pwm1", "pwm2"}, pwmRound)
    BY DEF pwmRound
  <2>3. /\ "PWM" \in c => "pwm3" \in Given("vf610", c, "ledTask") \/ "pwm3" \in Excused("vf610", c, faults)
        /\ "GPIO" \in c => "PTB17" \in Given("vf610", c, "ledTask")
    BY <1>1 DEF Given, vf610_Given, When
  <2>4. Fine(Given("vf610", c, "ledTask"), vf610_ledRound(c))
    BY <2>3 DEF vf610_ledRound
  <2> QED
    BY <2>1, <2>2, <2>4 DEF vf610_mputest_task, adctestTask, tpstest_task, rcTestTask, rcTask
<1>24. /\ Given("vf610", c, "spiTask") = {"spi1.0", "spi1.1", "spi1.2"} /\ Given("vf610", c, "mputest_task") = {"mpu"}
       /\ Given("vf610", c, "adctestTask") = {"adc0"} /\ Given("vf610", c, "tpstest_task") = {"tps", "adc1"}
       /\ Given("vf610", c, "pwmTask") = {"pwm0", "pwm1", "pwm2"} /\ Given("vf610", c, "rcTestTask") = {"rc"}
       /\ Given("vf610", c, "rcTask") = {"rc"} /\ Given("vf610", c, "lcTask") = {"lc.RX"}
  BY DEF Given, vf610_Given
<1>25. ASSUME NEW task \in DOMAIN vf610_tasks(c)
       PROVE  Fine(Given("vf610", c, task), vf610_tasks(c)[task]) /\ Settled(vf610_tasks(c)[task])
  <2> DEFINE given(t) == Given("vf610", c, t)
  <2> HIDE PartsArePrograms, PartsRun, PartsGain
  <2> HIDE DEF Fine, given
  <2>1. /\ Fine(given("ledTask"), vf610_ledRound(c)) /\ Fine(given("spiTask"), vf610_spiTask)
        /\ Fine(given("mputest_initTask"), vf610_mputest_initTask) /\ Fine(given("mputest_task"), vf610_mputest_task)
        /\ Fine(given("adctestTask"), adctestTask) /\ Fine(given("tpstest_initTask"), tpstest_initTask)
        /\ Fine(given("tpstest_task"), tpstest_task) /\ Fine(given("uart_test1"), uart_test1)
        /\ Fine(given("uart_test2"), uart_test2) /\ Fine(given("buffer2Test"), vf610_bufferInit2)
        /\ Fine(given("pwmTask"), pwmRound) /\ Fine(given("rcTestTask"), rcTestTask)
        /\ Fine(given("rcTask"), rcTask) /\ Fine(given("lcTask"), Set({"lc.RX"}, "drop", 1))
    BY <1>6, <1>12, <1>14, <1>20, <1>23, <1>24 DEF given
  <2>2. Fine(given(task), vf610_tasks(c)[task])
    BY <2>1 DEF vf610_tasks
  <2>3. Settled(vf610_tasks(c)[task])
    BY <1>21, <1>22 DEF vf610_tasks
  <2> QED
    BY <2>2, <2>3 DEF given
<1> QED
  BY <1>19, <1>25

LEMMA s32k_Runs ==
    ASSUME NEW c, NEW faults, "NEWLIB" \in c \/ "NLIBC" \in c => "UART" \in c, "TIMER_TEST" \in c => "GPIO" \in c
    PROVE  /\ Runs("s32k", c, faults, {}, s32k_main(c)) /\ Settled(s32k_main(c))
           /\ \A task \in DOMAIN s32k_tasks(c) :
                 Runs("s32k", c, faults, Given("s32k", c, task), s32k_tasks(c)[task]) /\ Settled(s32k_tasks(c)[task])
<1> USE PartsArePrograms, PartsRun, PartsGain DEF Stays, Finds
<1> DEFINE Fine(have, s) == Runs("s32k", c, faults, have, s)
           Goes(s) == IsProgram(s) /\ \A have : Fine(have, s)
           First(s) == IsProgram(s) /\ Fine({}, s)
           Lit(have) == \A x \in s32k_leds(c) : x \in have \/ x \in Excused("s32k", c, faults)
<1>1. /\ faults # 0 => "lpspi0" \in Excused("s32k", c, faults)
      /\ "PWM" \in c => "pwm.PTC15" \in Excused("s32k", c, faults)
      /\ "TIMER_TEST" \in c => "noLED" \in Excused("s32k", c, faults)
  BY DEF Excused, Holes, Unchecked, When
<1>2. /\ Given("s32k", c, "echoTask") = {"lpuart1"} /\ Given("s32k", c, "adc_task") = {"adc0"}
      /\ Given("s32k", c, "spiTask") = {"lpspi0.0"} /\ Given("s32k", c, "can_task") = {"can"}
      /\ Given("s32k", c, "ledTask") = {} /\ Given("s32k", c, "taskManTask") = {}
  BY DEF Given, s32k_Given
<1>3. /\ Goes(Asserted(s32k_initGPIO(c)))
      /\ "EVM" \in c => \A x \in {"PTD15", "PTD16", "PTD0"} : x \in Gains(faults, Asserted(s32k_initGPIO(c)))
      /\ "BMS_R0" \in c => \A x \in {"PTC17", "PTC16", "PTC15"} : x \in Gains(faults, Asserted(s32k_initGPIO(c)))
  <2> DEFINE A == Make("PTC12", {"gpio"}, "return") \o Set({"PTC12"}, "return", 2)
                  \o Each(<<"PTD15", "PTD16", "PTD0">>, {"gpio"}, "return")
             B == Each(<<"PTC17", "PTC16", "PTC15">>, {"gpio"}, "return")
             All == Make("gpio", {}, "return") \o If("EVM" \in c, A) \o If("BMS_R0" \in c, B)
             Pins(s) == IsProgram(s) /\ \A have : "gpio" \in have => Fine(have, s)
  <2>1. s32k_initGPIO(c) = Fn("initGPIO", All)
    BY DEF s32k_initGPIO
  <2>2. Pins(A) /\ \A x \in {"PTD15", "PTD16", "PTD0"} : x \in Gains(faults, A)
    OBVIOUS
  <2>3. Pins(B) /\ \A x \in {"PTC17", "PTC16", "PTC15"} : x \in Gains(faults, B)
    OBVIOUS
  <2> HIDE DEF A, B
  <2>4. /\ Goes(All)
        /\ "EVM" \in c => \A x \in {"PTD15", "PTD16", "PTD0"} : x \in Gains(faults, All)
        /\ "BMS_R0" \in c => \A x \in {"PTC17", "PTC16", "PTC15"} : x \in Gains(faults, All)
    BY <2>2, <2>3
  <2> HIDE DEF All
  <2> QED
    BY <2>1, <2>4
<1>4. Goes(lpuarttest_init)
  BY <1>2 DEF lpuarttest_init
<1>5. IsProgram(s32k_timertest_init(c)) /\ \A have : Lit(have) => Fine(have, s32k_timertest_init(c))
  <2> HIDE DEF Lit
  <2> DEFINE A == Make("flextimer0", {}, "assert") \o Set({"flextimer0"}, "assert", 1)
             B == Each(<<"PTD15", "PTD16", "PTD0">>, {}, "assert") \o Set({"PTD15"}, "assert", 1)
             C == Set(s32k_leds(c), "drop", 1) \o Set({"flextimer0"}, "assert", 1)
             D == IF "TIMER_TEST_PWM" \in c THEN B ELSE C
             E == If("CAPTURE_TEST" \in c, Make("PTC3", {}, "assert") \o Set({"PTC3"}, "assert", 1))
  <2>1. s32k_timertest_init(c) = Fn("timertest_init", A \o D \o E)
    BY Zenon DEF s32k_timertest_init
  <2>2. Goes(A) /\ "flextimer0" \in Gains(faults, A)
    OBVIOUS
  <2>3. Goes(B) /\ Goes(E)
    OBVIOUS
  <2>4. IsProgram(C) /\ \A have : Lit(have) /\ "flextimer0" \in have => Fine(have, C)
    BY DEF Lit
  <2> HIDE DEF A, B, C, E
  <2>5. IsProgram(D) /\ \A have : Lit(have) /\ "flextimer0" \in have => Fine(have, D)
    BY <2>3, <2>4
  <2> HIDE DEF D
  <2>6. \A have : Lit(have) => Lit(After(faults, have, A))
    BY DEF Lit
  <2> QED
    BY <2>1, <2>2, <2>3, <2>5, <2>6
<1>6. Goes(s32k_spitest_init(c))
  <2> DEFINE A == Make("lpspi0", {}, "drop") \o Make("lpspi0.0", {"lpspi0"}, "assert")
             B == If("SINGLE_BYTE" \in c, Make("gpio", {}, "assert") \o Make("PTB5", {"gpio"}, "assert"))
  <2>1. s32k_spitest_init(c) = Fn("spitest_init", A \o B \o Start("spiTask", {"lpspi0.0"}, "drop", "taskSPI", 512, 512))
    BY DEF s32k_spitest_init
  <2>2. Goes(A) /\ "lpspi0.0" \in Gains(faults, A)
    BY <1>1
  <2>3. Goes(B)
    OBVIOUS
  <2> HIDE DEF A, B
  <2> QED
    BY <1>2, <2>1, <2>2, <2>3
<1>7. Goes(ltc6811_test) /\ Goes(can_test) /\ Goes(adc_test)
  BY <1>2 DEF ltc6811_test, can_test, adc_test
<1>8. First(s32k_main(c)) /\ Settled(s32k_main(c))
  <2> DEFINE uart == IF "STDOUT_UART1" \in c THEN "lpuart1" ELSE "stdout"
             A == Set({}, "assert", 1) \o Console(c, uart, "assert")
             B == A \o If("GPIO" \in c, Asserted(s32k_initGPIO(c)))
             pwm == Make("flextimer1", {}, "assert") \o Channel("pwm.PTC15", "PTC15", "assert")
                    \o Set({"pwm.PTC15"}, "assert", 2)
             task == Start("ledTask", {}, "drop", "taskLED", 128, 128)
             C == B \o If(s32k_PWM(c), pwm)
                  \o If(("GPIO" \in c \/ {"PWM", "PTC15"} \subseteq c) /\ "DELAY_UNTIL" \in c /\ "TIMER_TEST" \notin c, task)
                  \o Manager(c, 512, "drop") \o If("LPUART_TEST" \in c, lpuarttest_init)
  <2>1. s32k_main(c) = Fn("main", C \o If("TIMER_TEST" \in c, s32k_timertest_init(c))
       \o If("SPI_TEST" \in c, s32k_spitest_init(c))
       \o If("LTC6811_TEST" \in c, ltc6811_test)
       \o If("CAN_TEST" \in c, can_test)
       \o If("ADC_TEST" \in c, adc_test))
    BY DEF s32k_main
  <2> HIDE DEF uart
  <2>2. Goes(A)
    BY ConsoleRuns
  <2> HIDE DEF A
  <2>3. First(B) /\ ("TIMER_TEST" \in c => Lit(Gains(faults, B)))
    BY <1>1, <1>3, <2>2 DEF s32k_leds
  <2> HIDE DEF B
  <2>4. Goes(pwm)
    OBVIOUS
  <2>5. Goes(task)
    BY <1>2
  <2>6. Goes(Manager(c, 512, "drop"))
    BY <1>2, ManagerRuns
  <2> HIDE DEF pwm, task
  <2>7. First(C) /\ ("TIMER_TEST" \in c => Lit(Gains(faults, C)))
    BY <1>4, <2>3, <2>4, <2>5, <2>6
  <2> HIDE DEF C
  <2>8. "TIMER_TEST" \in c => Lit(After(faults, {}, C))
    BY <2>7
  <2> HIDE DEF Lit
  <2> QED
    BY PartsSettle, <1>5, <1>6, <1>7, <2>1, <2>7, <2>8
<1>9. /\ Fine({}, s32k_ledRound(c)) /\ Fine({"lpuart1"}, s32k_echoTask) /\ Fine({"adc0"}, adc_task)
      /\ Fine({"lpspi0.0"}, s32k_spiTask) /\ Fine({"can"}, Set({"can"}, "assert", 2))
      /\ Settled(s32k_ledRound(c)) /\ Settled(s32k_echoTask) /\ Settled(adc_task)
      /\ Settled(s32k_spiTask) /\ Settled(Set({"can"}, "assert", 2))
  BY <1>1, PartsSettle DEF s32k_ledRound, s32k_echoTask, adc_task, s32k_spiTask
<1>10. ASSUME NEW task \in DOMAIN s32k_tasks(c)
       PROVE  Fine(Given("s32k", c, task), s32k_tasks(c)[task]) /\ Settled(s32k_tasks(c)[task])
  <2> HIDE PartsArePrograms, PartsRun, PartsGain
  <2> HIDE DEF Fine
  <2> QED
    BY <1>2, <1>9 DEF s32k_tasks
<1> QED
  BY <1>8, <1>10

LEMMA kv4x_Runs ==
    ASSUME NEW c, NEW faults, "NEWLIB" \in c \/ "NLIBC" \in c => "UART" \in c
    PROVE  /\ Runs("kv4x", c, faults, {}, kv4x_main(c)) /\ Settled(kv4x_main(c))
           /\ \A task \in DOMAIN kv4x_tasks(c) :
                 Runs("kv4x", c, faults, Given("kv4x", c, task), kv4x_tasks(c)[task]) /\ Settled(kv4x_tasks(c)[task])
<1> USE PartsArePrograms, PartsRun, PartsGain DEF Stays, Finds
<1> DEFINE Fine(have, s) == Runs("kv4x", c, faults, have, s)
           Goes(s) == IsProgram(s) /\ \A have : Fine(have, s)
<1>1. /\ Given("kv4x", c, "can_task") = {"can"} /\ Given("kv4x", c, "ledTask") = {}
      /\ Given("kv4x", c, "taskManTask") = {}
  BY DEF Given, When
<1>2. Goes(kv4x_initGPIO(c))
  <2> DEFINE ds == kv4x_leds(c)
             D == {"PTA4", "PTA5", "PTA12", "PTB16", "PTB17"}
             S == Each(ds, {"gpio"}, "return")
  <2>1. /\ <<"PTA4", "PTA5", "PTA12">> \in Seq(D) /\ <<"PTB16", "PTB17">> \in Seq(D) /\ <<>> \in Seq(D)
    OBVIOUS
  <2>2. ds \in Seq(D)
    BY Zenon, <2>1 DEF kv4x_leds
  <2> HIDE DEF ds, D
  <2>3. IsProgram(S) /\ \A have : "gpio" \in have => Fine(have, S)
    BY <2>2, EachSteps
  <2>4. kv4x_initGPIO(c) = Fn("initGPIO", Make("gpio", {}, "return") \o S)
    BY DEF kv4x_initGPIO, ds
  <2> HIDE DEF S
  <2> QED
    BY <2>3, <2>4
<1>3. Goes(can_test)
  BY <1>1 DEF can_test
<1>4. Goes(kv4x_main(c)) /\ Settled(kv4x_main(c))
  <2> DEFINE A == Set({}, "assert", 1) \o Console(c, "stdout", "assert")
             B == Asserted(kv4x_initGPIO(c)) \o Start("ledTask", {}, "drop", "taskLED", 128, 128)
  <2>1. Goes(A)
    BY ConsoleRuns
  <2>2. Goes(B)
    BY <1>1, <1>2
  <2>3. Goes(Manager(c, 512, "drop"))
    BY <1>1, ManagerRuns
  <2>4. kv4x_main(c) = Fn("main", A \o If("LED_TASK" \in c, B) \o Manager(c, 512, "drop") \o If("CAN_TEST" \in c, can_test))
    BY DEF kv4x_main
  <2> HIDE DEF A, B
  <2> QED
    BY PartsSettle, <1>3, <2>1, <2>2, <2>3, <2>4
<1>5. Fine({"can"}, Set({"can"}, "assert", 2)) /\ Settled(Set({"can"}, "assert", 2))
  BY PartsSettle
<1> QED
  BY <1>1, <1>4, <1>5 DEF kv4x_tasks

LEMMA stm32_Runs ==
    ASSUME NEW c, NEW faults, "NEWLIB" \in c \/ "NLIBC" \in c => "UART" \in c
    PROVE  /\ Runs("stm32", c, faults, {}, stm32_main(c)) /\ Settled(stm32_main(c))
           /\ \A task \in DOMAIN stm32_tasks(c) :
                 Runs("stm32", c, faults, Given("stm32", c, task), stm32_tasks(c)[task]) /\ Settled(stm32_tasks(c)[task])
<1> USE PartsArePrograms, PartsRun, PartsGain DEF Stays, Finds
<1> DEFINE Fine(have, s) == Runs("stm32", c, faults, have, s)
           Goes(s) == IsProgram(s) /\ \A have : Fine(have, s)
           First(s) == IsProgram(s) /\ Fine({}, s)
           button == IF "DISCOVERY" \in c THEN "PTA0" ELSE "PTC13"
           led1 == IF "DISCOVERY" \in c THEN "PTD14" ELSE "PTA5"
<1>1. /\ faults # 0 => "stdout" \in Excused("stm32", c, faults)
      /\ Given("stm32", c, "taskManTask") = {}
      /\ \A x \in Given("stm32", c, "ledTask") : ("PWM" \in c /\ x = "pwm4.4") \/ ("GPIO" \in c /\ x = led1)
      /\ "PWM" \in c => "pwm4.4" \in Given("stm32", c, "ledTask")
      /\ "GPIO" \in c => led1 \in Given("stm32", c, "ledTask")
  BY DEF Excused, Holes, Unchecked, Given, stm32_Given, When
<1>2. Goes(Asserted(stm32_initGPIO(c))) /\ led1 \in Gains(faults, Asserted(stm32_initGPIO(c)))
  <2> DEFINE A == Make("gpio", {}, "return") \o Set({}, "return", 1)
                  \o Make(button, {"gpio"}, "return") \o Set({button}, "return", 2)
                  \o Make(led1, {"gpio"}, "return")
  <2>1. stm32_initGPIO(c) = Fn("initGPIO", A)
    BY DEF stm32_initGPIO
  <2> HIDE DEF led1, button
  <2>2. Goes(A) /\ led1 \in Gains(faults, A)
    OBVIOUS
  <2> HIDE DEF A
  <2> QED
    BY <2>1, <2>2
<1>3. stm32_ledRound(c) = If("PWM" \in c, Set({"pwm4.4"}, "assert", 1)) \o If("GPIO" \in c, Set({led1}, "drop", 1))
  BY DEF stm32_ledRound
<1> HIDE DEF led1
<1>4. First(stm32_main(c)) /\ Settled(stm32_main(c))
  <2> DEFINE A == Set({}, "assert", 1) \o Console(c, "stdout", "drop")
             B == A \o If("GPIO" \in c, Asserted(stm32_initGPIO(c)))
             pwm == Each(<<"timer4", "pwm4.4">>, {}, "assert") \o Set({"pwm4.4"}, "assert", 2)
             C == B \o If("PWM" \in c /\ "TIMER_TEST" \notin c, pwm)
             task == Start("ledTask", {}, "drop", "taskLED", 128, 128)
             is == {"GPIO", "PWM"} \intersect c # {} /\ "DELAY_UNTIL" \in c /\ "TIMER_TEST" \notin c
  <2>1. stm32_main(c) = Fn("main", C \o If(is, task) \o Manager(c, 512, "drop"))
    BY DEF stm32_main
  <2>2. Goes(A)
    BY <1>1, ConsoleRuns
  <2> HIDE DEF A
  <2>3. First(B) /\ ("GPIO" \in c => led1 \in Gains(faults, B))
    BY <1>2, <2>2
  <2> HIDE DEF B
  <2>4. Goes(pwm) /\ "pwm4.4" \in Gains(faults, pwm)
    OBVIOUS
  <2> HIDE DEF pwm
  <2>5. /\ First(C) /\ ("GPIO" \in c => led1 \in Gains(faults, C))
        /\ "PWM" \in c /\ "TIMER_TEST" \notin c => "pwm4.4" \in Gains(faults, C)
    BY <2>3, <2>4
  <2>6. /\ IsProgram(task)
        /\ \A have : ("GPIO" \in c => led1 \in have) /\ ("PWM" \in c => "pwm4.4" \in have) => Fine(have, task)
    BY <1>1
  <2>7. is => "TIMER_TEST" \notin c
    OBVIOUS
  <2>8. Goes(Manager(c, 512, "drop"))
    BY <1>1, ManagerRuns
  <2> HIDE DEF C, task, is
  <2>9. First(C \o If(is, task))
    BY <2>5, <2>6, <2>7
  <2> QED
    BY PartsSettle, <2>1, <2>8, <2>9
<1>5. Fine(Given("stm32", c, "ledTask"), stm32_ledRound(c))
  BY <1>1, <1>3
<1>6. Settled(stm32_ledRound(c))
  BY <1>3, PartsSettle
<1> QED
  BY <1>4, <1>5, <1>6 DEF stm32_tasks

LEMMA am57xx_Runs ==
    ASSUME NEW c, NEW faults, "NEWLIB" \in c \/ "NLIBC" \in c => "UART" \in c
    PROVE  /\ Runs("am57xx", c, faults, {}, am57xx_main(c)) /\ Settled(am57xx_main(c))
           /\ \A task \in DOMAIN am57xx_tasks(c) :
                 Runs("am57xx", c, faults, Given("am57xx", c, task), am57xx_tasks(c)[task]) /\ Settled(am57xx_tasks(c)[task])
<1> USE PartsArePrograms, PartsRun, PartsGain DEF Stays, Finds
<1> DEFINE Fine(have, s) == Runs("am57xx", c, faults, have, s)
           Goes(s) == IsProgram(s) /\ \A have : Fine(have, s)
           First(s) == IsProgram(s) /\ Fine({}, s)
           given(task) == Given("am57xx", c, task)
<1>1. \A d \in {"timer10", "trace", "dcan1", "gpio"} : faults = 0 \/ d \in Excused("am57xx", c, faults)
  BY DEF Excused, Holes, Unchecked
<1>2. /\ given("ledTask") = {} /\ given("mailbox_testTask") = {"mailbox5.2", "mailbox5.3"}
      /\ given("spiTask") = {"spi4.0", "spi4.1", "spi4.3"}
      /\ given("mputest_initTask") = {} /\ given("mputest_task") = {"mpu"} /\ given("rtctest_task") = {"rtc", "timer14"}
      /\ given("softwareCaptureTest_task") = {"rtc", "timer2", "capture", "MCASP1_AXR13"}
      /\ given("can_task") = {"dcan1"} /\ given("taskManTask") = {}
  BY DEF Given, am57xx_Given
<1>3. /\ \A x \in given("timertest_task") : x = "timer10" \/ ("TIMER11_CAPTURE" \in c /\ x \in {"timer11", "capture11"})
      /\ "timer10" \in given("timertest_task")
      /\ "TIMER11_CAPTURE" \in c => "timer11" \in given("timertest_task") /\ "capture11" \in given("timertest_task")
  BY DEF Given, am57xx_Given, When
<1> HIDE DEF given
<1>4. Goes(Asserted(am57xx_initGPIO))
  BY DEF am57xx_initGPIO
<1>5. Goes(am57xx_mailbox_test)
  BY <1>2 DEF am57xx_mailbox_test, given
<1>6. Goes(am57xx_rprocTest_init(c))
  BY DEF am57xx_rprocTest_init
<1>7. Goes(am57xx_boardtest_init(c)) /\ Fine(given("boardtest_task"), boardtest_task(c)) /\ Settled(boardtest_task(c))
  <2> DEFINE both == {"MCASP1_AXR13", "MCASP1_AXR14"}
             firsts == boardtest_pins(c)
             A == Make("gpio", {}, "assert") \o firsts
             B == A \o Make("GPMC_A17", {"gpio"}, "assert")
             last == Start("boardtest_task", {}, "assert", "boardTask", 512, 512)
             Has(s) == /\ "board.pins" \in Gains(faults, s)
                       /\ "TIMER_TEST" \notin c => \A d \in both : d \in Gains(faults, s)
  <2>1. /\ \A x \in given("boardtest_task") : x \in {"board.pins", "GPMC_A17"} \/ ("TIMER_TEST" \notin c /\ x \in both)
        /\ "board.pins" \in given("boardtest_task") /\ "GPMC_A17" \in given("boardtest_task")
        /\ "TIMER_TEST" \notin c => \A d \in both : d \in given("boardtest_task")
    BY DEF given, Given, am57xx_Given, When
  <2>2. /\ IsProgram(firsts) /\ \A have : "gpio" \in have => Fine(have, firsts)
        /\ Has(firsts)
    BY DEF boardtest_pins
  <2>3. am57xx_boardtest_init(c) = Fn("boardtest_init", B \o firsts \o Set({"board.pins"}, "assert", 1) \o last)
    BY DEF am57xx_boardtest_init
  <2> HIDE DEF firsts
  <2>4. Goes(A) /\ "gpio" \in Gains(faults, A) /\ Has(A)
    BY <2>2
  <2> HIDE DEF A
  <2>5. Goes(B) /\ "gpio" \in Gains(faults, B) /\ "GPMC_A17" \in Gains(faults, B) /\ Has(B)
    BY <2>4
  <2>6. /\ IsProgram(last)
        /\ \A have : /\ "board.pins" \in have /\ "GPMC_A17" \in have
                     /\ "TIMER_TEST" \notin c => \A d \in both : d \in have
                     => Fine(have, last)
    BY <2>1 DEF given
  <2> HIDE DEF B, last
  <2>7. Goes(am57xx_boardtest_init(c))
    BY <2>2, <2>3, <2>5, <2>6
  <2>8. Fine(given("boardtest_task"), boardtest_task(c)) /\ Settled(boardtest_task(c))
    BY PartsSettle, <2>1 DEF boardtest_task
  <2> QED
    BY <2>7, <2>8
<1>8. Goes(am57xx_spitest_init)
  BY <1>2 DEF am57xx_spitest_init, given
<1>9. Goes(am57xx_timertest_init(c))
  <2> DEFINE A == If("TIMER10_PWM" \notin c, Make("gpio", {}, "drop")) \o Make("timer10", {}, "drop")
             P == Make("MCASP1_AXR13", {"gpio"}, "assert") \o Set({"timer10"}, "assert", 1)
             Q == Make("pwm10", {}, "assert") \o Set({"pwm10"}, "assert", 2)
             B == IF "TIMER10_PWM" \notin c THEN P ELSE Q
             C == Each(<<"timer11", "capture11">>, {}, "assert") \o Set({"capture11"}, "assert", 2)
             D == Each(<<"timer11", "pwm11">>, {}, "assert") \o Set({"pwm11"}, "assert", 2)
             E == Make("gpio", {}, "assert") \o Make("MCASP1_AXR14", {"gpio"}, "assert") \o Set({"MCASP1_AXR14"}, "assert", 2)
             both == {"TIMER11_CAPTURE", "TIMER11_PWM"} \intersect c
             AB == A \o B
             ABC == AB \o If("TIMER11_CAPTURE" \in c, C)
             All == ABC \o If("TIMER11_PWM" \in c, D) \o If(both = {}, E)
             Has(s, x) == faults # 0 \/ x \in Gains(faults, s)
  <2>1. am57xx_timertest_init(c) =
            Fn("timertest_init", All \o Set({"timer10"}, "assert", 1) \o If(both # {}, Set({"timer11"}, "assert", 1))
                                 \o Start("timertest_task", {}, "refuse", "timerTask", 786, 786))
    BY Zenon DEF am57xx_timertest_init
  <2>2. Goes(A) /\ Has(A, "timer10") /\ ("TIMER10_PWM" \notin c => Has(A, "gpio"))
    OBVIOUS
  <2>3. /\ Goes(Q) /\ IsProgram(P)
        /\ \A have : faults # 0 \/ ("gpio" \in have /\ "timer10" \in have) => Fine(have, P)
    BY <1>1
  <2> HIDE DEF A, P, Q
  <2>4. IsProgram(B) /\ \A have : faults # 0 \/ ("TIMER10_PWM" \notin c => "gpio" \in have /\ "timer10" \in have) => Fine(have, B)
    BY <2>3
  <2> HIDE DEF B
  <2>5. Goes(AB) /\ Has(AB, "timer10")
    BY <2>2, <2>4
  <2> HIDE DEF AB
  <2>6. /\ Goes(C) /\ "timer11" \in Gains(faults, C) /\ "capture11" \in Gains(faults, C)
        /\ Goes(D) /\ "timer11" \in Gains(faults, D) /\ Goes(E)
    OBVIOUS
  <2> HIDE DEF C, D, E
  <2>7. /\ Goes(ABC) /\ Has(ABC, "timer10")
        /\ "TIMER11_CAPTURE" \in c => "timer11" \in Gains(faults, ABC) /\ "capture11" \in Gains(faults, ABC)
    BY <2>5, <2>6
  <2>8. both # {} => "TIMER11_CAPTURE" \in c \/ "TIMER11_PWM" \in c
    OBVIOUS
  <2> HIDE DEF ABC, both
  <2>9. /\ Goes(All) /\ Has(All, "timer10")
        /\ "TIMER11_CAPTURE" \in c => "timer11" \in Gains(faults, All) /\ "capture11" \in Gains(faults, All)
        /\ both # {} => "timer11" \in Gains(faults, All)
    BY <2>6, <2>7, <2>8
  <2> DEFINE last == Start("timertest_task", {}, "refuse", "timerTask", 786, 786)
             F == All \o Set({"timer10"}, "assert", 1)
  <2> HIDE DEF All
  <2>10. /\ IsProgram(last)
         /\ \A have : /\ faults # 0 \/ "timer10" \in have
                      /\ "TIMER11_CAPTURE" \in c => "timer11" \in have /\ "capture11" \in have
                      => Fine(have, last)
    BY <1>1, <1>3 DEF given
  <2>11. /\ Goes(F) /\ Has(F, "timer10")
         /\ "TIMER11_CAPTURE" \in c => "timer11" \in Gains(faults, F) /\ "capture11" \in Gains(faults, F)
         /\ both # {} => "timer11" \in Gains(faults, F)
    BY <1>1, <2>9
  <2>12. am57xx_timertest_init(c) = Fn("timertest_init", F \o If(both # {}, Set({"timer11"}, "assert", 1)) \o last)
    BY <2>1
  <2> HIDE DEF F, last
  <2> QED
    BY <2>10, <2>11, <2>12
<1>10. Goes(am57xx_mputest_init)
  BY <1>2 DEF am57xx_mputest_init, given
<1>11. Goes(am57xx_mputest_initTask)
  BY <1>2 DEF am57xx_mputest_initTask, given
<1>12. Goes(rtctest_init)
  BY <1>2 DEF rtctest_init, given
<1>13. Goes(softwareCaptureTest_init)
  <2> DEFINE A == Make("gpio", {}, "assert") \o Make("MCASP1_AXR13", {"gpio"}, "assert")
  <2>1. softwareCaptureTest_init =
            Fn("softwareCaptureTest_init", A \o Each(<<"timer2", "rtc", "capture">>, {}, "assert")
               \o Start("softwareCaptureTest_task", {}, "assert", "captureTask", 500, 500))
    BY DEF softwareCaptureTest_init
  <2>2. Goes(A) /\ "MCASP1_AXR13" \in Gains(faults, A)
    OBVIOUS
  <2> HIDE DEF A
  <2> QED
    BY <1>2, <2>1, <2>2 DEF given
<1>14. Goes(dcan_can_test)
  BY <1>1, <1>2 DEF dcan_can_test, given
<1>15. First(am57xx_main(c)) /\ Settled(am57xx_main(c))
  <2> DEFINE A == Set({}, "assert", 1) \o Console(c, "trace", "drop")
             B == A \o If("GPIO" \in c, Asserted(am57xx_initGPIO))
             blinks == {"GPIO", "DELAY_UNTIL"} \subseteq c
             C == B \o If(blinks, Start("ledTask", {}, "assert", "taskLED", 128, 128))
             D == Make("gpio", {}, "drop") \o Make("DCAN1_TX", {"gpio"}, "assert")
             E == C \o Manager(c, 512, "assert")
                  \o If("MAILBOX_TEST" \in c, am57xx_mailbox_test)
                  \o If("RPROC_TEST" \in c, am57xx_rprocTest_init(c))
                  \o If("BOARD_TEST" \in c, am57xx_boardtest_init(c))
                  \o If("SPI_TEST" \in c, am57xx_spitest_init)
                  \o If("TIMER_TEST" \in c, am57xx_timertest_init(c))
  <2>1. am57xx_main(c) = Fn("main", E
       \o If("MPU_TEST" \in c, am57xx_mputest_init)
       \o If("RTC_SOFTWARE_TEST" \in c, rtctest_init)
       \o If("SOFTWARE_CAPTURE_TEST" \in c, softwareCaptureTest_init)
       \o If("CAN_TEST" \in c, dcan_can_test)
       \o If("CAN_DISABLE" \in c, D))
    BY DEF am57xx_main
  <2>2. Goes(A)
    BY <1>1, ConsoleRuns
  <2> HIDE DEF A
  <2>3. First(B)
    BY <1>4, <2>2
  <2> HIDE DEF B, blinks
  <2>4. First(C)
    BY <1>2, <2>3 DEF given
  <2>5. Goes(D)
    BY <1>1
  <2>6. Goes(Manager(c, 512, "assert"))
    BY <1>2, ManagerRuns DEF given
  <2> HIDE DEF C, D
  <2>7. First(E)
    BY <1>5, <1>6, <1>7, <1>8, <1>9, <2>4, <2>6
  <2> HIDE DEF E
  <2> QED
    BY PartsSettle, <1>10, <1>12, <1>13, <1>14, <2>1, <2>5, <2>7
<1>16. /\ Fine(given("mailbox_testTask"), am57xx_mailbox_testTask)
       /\ Fine(given("boardtest_task"), boardtest_task(c)) /\ Fine(given("spiTask"), am57xx_spiTask)
       /\ Fine(given("mputest_initTask"), am57xx_mputest_initTask) /\ Fine(given("mputest_task"), am57xx_mputest_task)
       /\ Fine(given("can_task"), Set({"dcan1"}, "assert", 3))
  <2>1. Fine(given("spiTask"), am57xx_spiTask)
    BY <1>2 DEF am57xx_spiTask
  <2>2. Fine(given("mailbox_testTask"), am57xx_mailbox_testTask)
    BY <1>2 DEF am57xx_mailbox_testTask
  <2> QED
    BY <1>2, <1>7, <1>11, <2>1, <2>2 DEF am57xx_mputest_task
<1>17. Fine(given("timertest_task"), timertest_task(c))
  BY <1>3 DEF timertest_task
<1>18. Fine(given("rtctest_task"), rtctest_task)
  BY <1>2 DEF rtctest_task
<1>19. Fine(given("softwareCaptureTest_task"), softwareCaptureTest_task)
  BY <1>2 DEF softwareCaptureTest_task
<1>20. /\ Settled(am57xx_mailbox_testTask) /\ Settled(boardtest_task(c)) /\ Settled(am57xx_spiTask)
       /\ Settled(timertest_task(c)) /\ Settled(am57xx_mputest_task) /\ Settled(rtctest_task)
       /\ Settled(softwareCaptureTest_task) /\ Settled(Set({"dcan1"}, "assert", 3))
  BY PartsSettle, <1>7 DEF am57xx_mailbox_testTask, am57xx_spiTask, timertest_task, am57xx_mputest_task,
                     rtctest_task, softwareCaptureTest_task
<1>21. Settled(am57xx_mputest_initTask)
  BY PartsSettle DEF am57xx_mputest_initTask
<1>22. ASSUME NEW task \in DOMAIN am57xx_tasks(c)
       PROVE  Fine(given(task), am57xx_tasks(c)[task]) /\ Settled(am57xx_tasks(c)[task])
  <2> HIDE PartsArePrograms, PartsRun, PartsGain
  <2> HIDE DEF Fine
  <2>1. Fine(given(task), am57xx_tasks(c)[task])
    BY <1>16, <1>17, <1>18, <1>19 DEF am57xx_tasks
  <2>2. Settled(am57xx_tasks(c)[task])
    BY <1>20, <1>21 DEF am57xx_tasks
  <2> QED
    BY <2>1, <2>2
<1> QED
  BY <1>15, <1>22 DEF given

LEMMA imx6_Runs ==
    ASSUME NEW c, NEW faults, "NEWLIB" \in c \/ "NLIBC" \in c => "UART" \in c
    PROVE  /\ Runs("imx6", c, faults, {}, imx6_main(c)) /\ Settled(imx6_main(c))
           /\ \A task \in DOMAIN imx6_tasks(c) :
                 Runs("imx6", c, faults, Given("imx6", c, task), imx6_tasks(c)[task]) /\ Settled(imx6_tasks(c)[task])
<1> USE PartsArePrograms, PartsRun, PartsGain DEF Stays, Finds
<1> DEFINE Fine(have, s) == Runs("imx6", c, faults, have, s)
           Goes(s) == IsProgram(s) /\ \A have : Fine(have, s)
           First(s) == IsProgram(s) /\ Fine({}, s)
           given(task) == Given("imx6", c, task)
<1>1. /\ \A d \in {"mii", "clock", "enet2", "uart2"} : faults = 0 \/ d \in Excused("imx6", c, faults)
      /\ "pwm" \in Excused("imx6", c, faults)
  BY DEF Excused, Holes, Unchecked
<1>2. /\ given("mailbox_testTask") = {"mailbox0"} /\ given("phytest_task") = {"mii"}
      /\ given("enettest_task") = {"enet1", "enet2"} /\ given("taskManTask") = {}
  BY DEF Given, imx6_Given
<1>3. /\ \A x \in given("ledTask") : x = "PTA5" /\ "GPIO" \in c
      /\ "GPIO" \in c => "PTA5" \in given("ledTask")
  BY DEF Given, imx6_Given, When
<1> HIDE DEF given
<1>4. Goes(Asserted(imx6_initGPIO)) /\ "PTA5" \in Gains(faults, Asserted(imx6_initGPIO))
  BY DEF imx6_initGPIO
<1>5. Goes(imx6_mailbox_test)
  BY <1>2 DEF imx6_mailbox_test, given
<1>6. Goes(imx6_rprocTest_init)
  BY DEF imx6_rprocTest_init
<1>7. Goes(phytest_init)
  BY <1>1, <1>2 DEF phytest_init, given
<1>8. Goes(enettest_init)
  BY <1>1, <1>2 DEF enettest_init, given
<1>9. IsProgram(enettest_task) /\ Fine({"enet1", "enet2"}, enettest_task)
  <2> DEFINE A == Each(<<"eth0", "eth1">>, {}, "assert") \o Make("phys", {"enet1"}, "assert")
             B == A \o Set({"phys"}, "assert", 3) \o Set({"enet1", "phys"}, "assert", 1)
             C == B \o Set({"enet1", "phys", "eth0"}, "assert", 1) \o Set({"enet2", "phys", "eth1"}, "assert", 1)
             have == {"enet1", "enet2"}
             All(s) == IsProgram(s) /\ Fine(have, s) /\ \A x \in {"eth0", "eth1", "phys"} : x \in Gains(faults, s)
  <2>1. enettest_task = Fn("enettest_task", C \o Set({"enet1"}, "assert", 1) \o Set({"enet2"}, "assert", 1)
                                            \o Set({"eth0", "enet1"}, "assert", 2 * 10))
    BY DEF enettest_task
  <2>2. All(A)
    OBVIOUS
  <2> HIDE DEF A
  <2>3. All(B)
    BY <2>2
  <2> HIDE DEF B
  <2>4. All(C)
    BY <2>3
  <2> HIDE DEF C
  <2> QED
    BY <2>1, <2>4
<1>10. First(imx6_main(c)) /\ Settled(imx6_main(c))
  <2> DEFINE A == Set({}, "assert", 1) \o Console(c, "uart2", "drop")
             B == A \o If("GPIO" \in c, Asserted(imx6_initGPIO))
             blinks == {"GPIO", "PWM"} \intersect c # {} /\ "DELAY_UNTIL" \in c
             task == Start("ledTask", {}, "assert", "taskLED", 128, 128)
  <2>1. imx6_main(c) = Fn("main", B \o If(blinks, task) \o Manager(c, 512, "assert")
       \o If("MAILBOX_TEST" \in c, imx6_mailbox_test)
       \o If("RPROC_TEST" \in c, imx6_rprocTest_init)
       \o If("PHY_TEST" \in c, phytest_init)
       \o If("ENET_TEST" \in c, enettest_init))
    BY DEF imx6_main
  <2>2. Goes(A)
    BY <1>1, ConsoleRuns
  <2> HIDE DEF A
  <2>3. First(B) /\ ("GPIO" \in c => "PTA5" \in Gains(faults, B))
    BY <1>4, <2>2
  <2> HIDE DEF B
  <2>4. IsProgram(task) /\ \A have : ("GPIO" \in c => "PTA5" \in have) => Fine(have, task)
    BY <1>3 DEF given
  <2>5. Goes(Manager(c, 512, "assert"))
    BY <1>2, ManagerRuns DEF given
  <2> HIDE DEF blinks, task
  <2>6. First(B \o If(blinks, task))
    BY <2>3, <2>4
  <2> QED
    BY PartsSettle, <1>5, <1>6, <1>7, <1>8, <2>1, <2>5, <2>6
<1>11. /\ Fine(given("ledTask"), imx6_ledRound(c)) /\ Fine(given("mailbox_testTask"), Set({"mailbox0"}, "assert", 2))
       /\ Fine(given("phytest_task"), phytest_task) /\ Fine(given("enettest_task"), enettest_task)
  <2>1. Fine(given("ledTask"), imx6_ledRound(c))
    BY <1>1, <1>3 DEF imx6_ledRound
  <2> QED
    BY <1>2, <1>9, <2>1 DEF phytest_task
<1>12. Settled(imx6_ledRound(c)) /\ Settled(Set({"mailbox0"}, "assert", 2)) /\ Settled(phytest_task) /\ Settled(enettest_task)
  BY PartsSettle DEF imx6_ledRound, phytest_task, enettest_task
<1>13. ASSUME NEW task \in DOMAIN imx6_tasks(c)
       PROVE  Fine(given(task), imx6_tasks(c)[task]) /\ Settled(imx6_tasks(c)[task])
  <2> HIDE PartsArePrograms, PartsRun, PartsGain
  <2> HIDE DEF Fine
  <2> QED
    BY <1>11, <1>12 DEF imx6_tasks
<1> QED
  BY <1>10, <1>13 DEF given

LEMMA linux_Runs ==
    ASSUME NEW c, NEW faults
    PROVE  /\ Runs("linux", c, faults, {}, linux_main(c)) /\ Settled(linux_main(c))
           /\ \A task \in DOMAIN linux_tasks(c) :
                 Runs("linux", c, faults, Given("linux", c, task), linux_tasks(c)[task]) /\ Settled(linux_tasks(c)[task])
<1> USE PartsArePrograms, PartsRun, PartsGain DEF Stays, Finds
<1> DEFINE Fine(have, s) == Runs("linux", c, faults, have, s)
           Goes(s) == IsProgram(s) /\ \A have : Fine(have, s)
<1>1. Given("linux", c, "adc_task") = {"adc1", "adc2"} /\ Given("linux", c, "taskManTask") = {}
  BY DEF Given, When
<1>2. Goes(Asserted(linux_initGPIO))
  BY DEF linux_initGPIO
<1>3. Goes(linux_adc_test)
  BY <1>1 DEF linux_adc_test
<1>4. Goes(Manager(c, 512, "drop"))
  BY <1>1, ManagerRuns
<1>5. Goes(linux_main(c)) /\ Settled(linux_main(c))
  BY PartsSettle, <1>2, <1>3, <1>4 DEF linux_main
<1>6. Fine({"adc1", "adc2"}, linux_adc_task) /\ Settled(linux_adc_task)
  BY PartsSettle DEF linux_adc_task
<1> QED
  BY <1>1, <1>5, <1>6 DEF linux_tasks

LEMMA c28x_Runs ==
    ASSUME NEW c, NEW faults
    PROVE  /\ Runs("c28x", c, faults, {}, c28x_main(c)) /\ Settled(c28x_main(c))
           /\ \A task \in DOMAIN c28x_tasks(c) :
                 Runs("c28x", c, faults, Given("c28x", c, task), c28x_tasks(c)[task]) /\ Settled(c28x_tasks(c)[task])
<1> USE PartsArePrograms, PartsRun, PartsGain DEF Stays, Finds
<1> DEFINE Fine(have, s) == Runs("c28x", c, faults, have, s)
           Goes(s) == IsProgram(s) /\ \A have : Fine(have, s)
<1>1. /\ Given("c28x", c, "testTask") = {} /\ Given("c28x", c, "can_task") = {}
      /\ \A d \in {"gpio", "can_test_messages"} : faults = 0 \/ d \in Excused("c28x", c, faults)
  BY DEF Given, Excused, Unchecked
<1>2. Goes(c28x_main(c)) /\ Settled(c28x_main(c))
  <2> DEFINE A == Set({}, "assert", 1) \o Make("sci0", {}, "assert") \o Set({"sci0"}, "assert", 1)
             B == Start("testTask", {}, "assert", "test", 1000, 1000)
             C == Make("gpio", {}, "drop") \o Make("GPIO_31", {"gpio"}, "assert")
             D == Start("can_task", {}, "assert", "canTest", 2048, 2048)
  <2>1. Goes(A) /\ Goes(B) /\ Goes(C) /\ Goes(D)
    BY <1>1
  <2>2. c28x_main(c) = Fn("main", A \o B \o If("CAN_DISABLE" \in c, C) \o If("CAN_TEST" \in c, D))
    BY DEF c28x_main
  <2> HIDE DEF A, B, C, D
  <2> QED
    BY PartsSettle, <2>1, <2>2
<1>3. Goes(c28x_testTask) /\ Settled(c28x_testTask)
  BY <1>1, PartsSettle DEF c28x_testTask
<1>4. Goes(c28x_can_task(c)) /\ Settled(c28x_can_task(c))
  <2> DEFINE kept == If("CAN_TEST_ECHO" \in c, Make("can_test_messages", {}, "drop"))
             any == {"CAN_TEST_ECHO", "CAN_TEST_RECV", "CAN_TEST_SEND"} \intersect c # {}
             A == Make("can0", {}, "assert") \o Set({"can0"}, "assert", 1)
             B == Set({"can0"}, "assert", 2) \o Set({"can0", "can_test_messages"}, "drop", 3)
             C == Set({"can0"}, "assert", 1)
             two == {"CAN_TEST_RECV", "CAN_TEST_SEND"} \intersect c # {}
             D == Set({"can0"}, "drop", 1)
             E == Make("gpio", {}, "drop") \o Each(<<"GPIO_31", "GPIO_30">>, {"gpio"}, "assert")
                  \o Set({"GPIO_31"}, "drop", 2) \o Set({"GPIO_30"}, "assert", 1)
             F == kept \o If(any, A)
             G == F \o If("CAN_TEST_ECHO" \in c, B)
             Sees(have) == any => "can0" \in have
  <2>1. c28x_can_task(c) = Fn("can_task", G \o If("CAN_TEST_RECV" \in c, C) \o If(two, D)
                                          \o If("CAN_TEST_TOGGLE_PIN" \in c, E))
    BY DEF c28x_can_task
  <2>2. ("CAN_TEST_ECHO" \in c => any) /\ ("CAN_TEST_RECV" \in c => any) /\ (two => any)
    OBVIOUS
  <2> HIDE DEF any, two
  <2>3. /\ Goes(kept) /\ Goes(A) /\ "can0" \in Gains(faults, A)
        /\ "CAN_TEST_ECHO" \in c /\ faults = 0 => "can_test_messages" \in Gains(faults, kept)
    OBVIOUS
  <2>4. IsProgram(B) /\ \A have : "can0" \in have /\ (faults = 0 => "can_test_messages" \in have) => Fine(have, B)
    BY <1>1
  <2>5. /\ IsProgram(C) /\ IsProgram(D) /\ Goes(E)
        /\ \A have : "can0" \in have => Fine(have, C) /\ Fine(have, D)
    BY <1>1
  <2> HIDE DEF kept, A, B, C, D, E
  <2>6. /\ Goes(F) /\ (any => "can0" \in Gains(faults, F))
        /\ "CAN_TEST_ECHO" \in c /\ faults = 0 => "can_test_messages" \in Gains(faults, F)
    BY <2>3
  <2> HIDE DEF F
  <2>7. Goes(G) /\ (any => "can0" \in Gains(faults, G))
    BY <2>2, <2>4, <2>6
  <2> HIDE DEF G
  <2> QED
    BY PartsSettle, <2>1, <2>2, <2>5, <2>7
<1>5. ASSUME NEW task \in DOMAIN c28x_tasks(c)
      PROVE  Fine(Given("c28x", c, task), c28x_tasks(c)[task]) /\ Settled(c28x_tasks(c)[task])
  <2> HIDE PartsArePrograms, PartsRun, PartsGain
  <2> HIDE DEF Fine
  <2> QED
    BY <1>1, <1>3, <1>4 DEF c28x_tasks
<1> QED
  BY <1>2, <1>5

LEMMA m0_Runs ==
    ASSUME NEW c, NEW faults, "NEWLIB" \in c \/ "NLIBC" \in c => "UART" \in c
    PROVE  Runs("m0", c, faults, {}, m0_main(c)) /\ Settled(m0_main(c))
<1> USE PartsArePrograms, PartsRun, PartsGain DEF Stays, Finds
<1> DEFINE Goes(s) == IsProgram(s) /\ \A have : Runs("m0", c, faults, have, s)
<1>1. /\ Given("m0", c, "testTask") = {} /\ Given("m0", c, "taskManTask") = {}
      /\ faults = 0 \/ "uart0" \in Excused("m0", c, faults)
  BY DEF Given, Excused, Unchecked
<1>2. Goes(Console(c, "uart0", "drop")) /\ Goes(Manager(c, 512, "drop"))
  BY <1>1, ConsoleRuns, ManagerRuns
<1> QED
  BY PartsSettle, <1>1, <1>2 DEF m0_main

LEMMA floattest_Runs ==
    ASSUME NEW b, NEW c, NEW faults, Given(b, c, "floatTest") = {}, Given(b, c, "floatTest2") = {}
    PROVE  IsProgram(floattest_init) /\ \A have : Runs(b, c, faults, have, floattest_init)
BY PartsArePrograms, PartsRun DEF floattest_init, Finds

LEMMA riscv_Runs ==
    ASSUME NEW c, NEW faults, "NEWLIB" \in c \/ "NLIBC" \in c => "UART" \in c
    PROVE  /\ Runs("riscv-qemu", c, faults, {}, riscv_main(c)) /\ Settled(riscv_main(c))
           /\ \A task \in DOMAIN riscv_tasks(c) :
                 Runs("riscv-qemu", c, faults, Given("riscv-qemu", c, task), riscv_tasks(c)[task]) /\ Settled(riscv_tasks(c)[task])
<1> USE PartsArePrograms, PartsRun, PartsGain DEF Stays, Finds
<1> DEFINE Fine(have, s) == Runs("riscv-qemu", c, faults, have, s)
           Goes(s) == IsProgram(s) /\ \A have : Fine(have, s)
<1>1. /\ Given("riscv-qemu", c, "echoTask") = {"uart0"}
      /\ \A task \in {"timerTask", "floatTest", "floatTest2", "taskManTask"} : Given("riscv-qemu", c, task) = {}
  BY DEF Given, When
<1>2. Goes(uartTest_init)
  BY <1>1 DEF uartTest_init
<1>3. Goes(timertest_init)
  BY <1>1 DEF timertest_init
<1>4. Goes(floattest_init)
  BY <1>1, floattest_Runs
<1>5. Goes(riscv_main(c)) /\ Settled(riscv_main(c))
  <2> DEFINE uart == IF "STDOUT_UART0" \in c THEN "uart0" ELSE "sbi"
             A == Set({}, "assert", 1) \o Console(c, uart, "assert") \o Manager(c, 512, "drop")
  <2>1. riscv_main(c) = Fn("main", A \o If("UART_TEST" \in c, uartTest_init) \o If("TIMER_TEST" \in c, timertest_init)
                                   \o If("FLOAT_TEST" \in c, floattest_init))
    BY DEF riscv_main
  <2> HIDE DEF uart
  <2>2. Goes(A)
    BY <1>1, ConsoleRuns, ManagerRuns
  <2> HIDE DEF A
  <2> QED
    BY PartsSettle, <1>2, <1>3, <1>4, <2>1, <2>2
<1>6. Fine({"uart0"}, riscv_echoTask) /\ Goes(timerTask)
  BY DEF riscv_echoTask, timerTask
<1>7. Settled(riscv_echoTask) /\ Settled(timerTask)
  BY PartsSettle DEF riscv_echoTask, timerTask
<1> HIDE PartsArePrograms, PartsRun, PartsGain
<1> QED
  BY <1>1, <1>5, <1>6, <1>7 DEF riscv_tasks

LEMMA polarfire_Runs ==
    ASSUME NEW c, NEW faults, "NEWLIB" \in c \/ "NLIBC" \in c => "UART" \in c
    PROVE  Runs("polarfire", c, faults, {}, polarfire_main(c)) /\ Settled(polarfire_main(c))
<1> USE PartsArePrograms, PartsRun, PartsGain DEF Stays, Finds
<1> DEFINE Goes(s) == IsProgram(s) /\ \A have : Runs("polarfire", c, faults, have, s)
<1>1. \A task \in {"floatTest", "floatTest2", "taskManTask"} : Given("polarfire", c, task) = {}
  BY DEF Given
<1>2. Goes(Console(c, "sbi", "assert")) /\ Goes(Manager(c, 1024, "drop")) /\ Goes(floattest_init)
  BY <1>1, ConsoleRuns, ManagerRuns, floattest_Runs
<1> QED
  BY PartsSettle, <1>2 DEF polarfire_main

\* What Kconfig makes a configuration contain for what it selects.
LEMMA ConfigsFit ==
    ASSUME NEW b \in BoardNames, NEW c \in Configs(b)
    PROVE  /\ "NEWLIB" \in c \/ "NLIBC" \in c => "UART" \in c
           /\ b = "vf610" => ("PPM" \in c => "GPIO" \in c)
           /\ b = "s32k" => ("TIMER_TEST" \in c => "GPIO" \in c)
<1>1. CASE c \in Shipped(b)
  BY <1>1 DEF Shipped, BoardNames, Common
<1>2. ASSUME NEW choice \in Variants(b), NEW o, c = Allowed(b, o), o \subseteq Options(b) \union choice
      PROVE  /\ "NEWLIB" \in c \/ "NLIBC" \in c => "UART" \in c
             /\ b = "vf610" => ("PPM" \in c => "GPIO" \in c)
             /\ b = "s32k" => ("TIMER_TEST" \in c => "GPIO" \in c)
  <2>1. c \subseteq o /\ \A x \in c : x \in DOMAIN Needs(b) => Needs(b)[x] \subseteq o
    BY <1>2 DEF Allowed
  <2>2. "NLIBC" \notin Options(b) /\ "NLIBC" \notin choice
    BY DEF Options, Variants, BoardNames, Common
  <2>3. /\ "UART" \notin DOMAIN Needs(b) /\ "GPIO" \notin DOMAIN Needs(b)
        /\ "NEWLIB" \in DOMAIN Needs(b) /\ Needs(b)["NEWLIB"] = {"UART"}
        /\ "PPM" \in DOMAIN Needs(b) /\ Needs(b)["PPM"] = {"GPIO"}
        /\ "TIMER_TEST" \in DOMAIN Needs(b) /\ (b = "s32k" => Needs(b)["TIMER_TEST"] = {"GPIO"})
    BY DEF Needs
  <2> QED
    BY <1>2, <2>1, <2>2, <2>3 DEF Allowed
<1> QED
  BY <1>1, <1>2, ConfigIs

LEMMA ProgramsRun ==
    ASSUME NEW b \in BoardNames, NEW c \in Configs(b), NEW faults
    PROVE  /\ Runs(b, c, faults, {}, Main(b, c)) /\ Settled(Main(b, c))
           /\ \A task : Runs(b, c, faults, Given(b, c, task), Task(b, c, task)) /\ Settled(Task(b, c, task))
<1>0. /\ "NEWLIB" \in c \/ "NLIBC" \in c => "UART" \in c
      /\ b = "vf610" => ("PPM" \in c => "GPIO" \in c)
      /\ b = "s32k" => ("TIMER_TEST" \in c => "GPIO" \in c)
  BY ConfigsFit
<1> USE EmptyRuns, PartsSettle
<1>1. CASE b = "vf610"
  BY <1>0, <1>1, vf610_Runs DEF Main, Tasks, Task
<1>2. CASE b = "s32k"
  BY <1>0, <1>2, s32k_Runs DEF Main, Tasks, Task
<1>3. CASE b = "kv4x"
  BY <1>0, <1>3, kv4x_Runs DEF Main, Tasks, Task
<1>4. CASE b = "stm32"
  BY <1>0, <1>4, stm32_Runs DEF Main, Tasks, Task
<1>5. CASE b = "am57xx"
  BY <1>0, <1>5, am57xx_Runs DEF Main, Tasks, Task
<1>6. CASE b = "imx6"
  BY <1>0, <1>6, imx6_Runs DEF Main, Tasks, Task
<1>7. CASE b = "linux"
  BY <1>0, <1>7, linux_Runs DEF Main, Tasks, Task
<1>8. CASE b = "c28x"
  BY <1>0, <1>8, c28x_Runs DEF Main, Tasks, Task
<1>9. CASE b = "m0"
  BY <1>0, <1>9, m0_Runs DEF Main, Tasks, Task
<1>10. CASE b = "riscv-qemu"
  BY <1>0, <1>10, riscv_Runs DEF Main, Tasks, Task
<1>11. CASE b = "polarfire"
  BY <1>0, <1>11, polarfire_Runs DEF Main, Tasks, Task
<1> QED
  BY <1>1, <1>2, <1>3, <1>4, <1>5, <1>6, <1>7, <1>8, <1>9, <1>10, <1>11 DEF BoardNames

\* A step creates one task or none.
LEMMA NowTask ==
    ASSUME ApartInv, pc \in 1 .. Len(code)
    PROVE  Now.stack = 0 \/ (Now.stack > 0 /\ \E task : Now.makes = {task})
BY DEF ApartInv, Apart, Now, Modest

\* What runs finds what it uses, as far as nothing failed (faults = 0) or whatever failed (1).
Provided(faults) ==
    /\ missing \subseteq Excused(board, config, faults)
    /\ \A k \in 1 .. Len(ready) : Given(board, config, ready[k]) \subseteq made \union Excused(board, config, faults)
    /\ \E have : /\ Runs(board, config, faults, have, code)
                 /\ have \union Before(faults, code, pc) \subseteq made \union Excused(board, config, faults)
ExistsInv ==
    /\ failures \in Nat /\ Settled(code)
    /\ failures = 0 => Provided(0)
    /\ Provided(1)

LEMMA ExistsFirst == ASSUME BootInit, ApartInv PROVE ExistsInv
<1>1. board \in BoardNames /\ config \in Configs(board) /\ code = Main(board, config)
  BY DEF BootInit, ApartInv
<1>2. Settled(code) /\ \A faults : Runs(board, config, faults, {}, code)
  BY <1>1, ProgramsRun
<1>3. \A faults : Before(faults, code, 1) = {}
  BY DEF Before, Passed
<1>4. \A faults : Provided(faults)
  BY <1>2, <1>3 DEF BootInit, Provided
<1> QED
  BY <1>2, <1>4 DEF ExistsInv, BootInit

\* The step after a step, and the step after an early return.
LEMMA BehindStep ==
    ASSUME NEW faults, NEW s, IsProgram(s), NEW k \in 1 .. Len(s)
    PROVE  /\ Before(faults, s, k + 1) \subseteq Before(faults, s, k) \union Gain(faults, s[k])
           /\ s[k].skip \in Nat
           /\ faults # 0 /\ s[k].fail = "return" /\ s[k].by # "none" =>
                 Before(faults, s, k + 1 + s[k].skip) \subseteq Before(faults, s, k)
<1>1. /\ Len(s) \in Nat /\ \A h \in 1 .. Len(s) : s[h].skip \in Nat
      /\ \A h \in 1 .. Len(s) : s[h].fail = "return" /\ s[h].by # "none" => h + s[h].skip <= Len(s)
  BY DEF IsProgram, IsStep
<1>2. ASSUME NEW l \in Nat, k < l, l <= Len(s) + 1, NEW j \in Passed(faults, s, l), j < k PROVE j \in Passed(faults, s, k)
  <2>1. j \in 1 .. k - 1 /\ \A h \in 1 .. j : h \in 1 .. Len(s)
    BY <1>1, <1>2 DEF Passed
  <2>2. \A h \in 1 .. j : LeavesOut(s, h, j, k) => LeavesOut(s, h, j, l)
    <3> SUFFICES ASSUME NEW h \in 1 .. j, LeavesOut(s, h, j, k) PROVE h + s[h].skip < l
      BY DEF LeavesOut
    <3> DEFINE e == s[h].skip
    <3>1. e \in Nat /\ h \in Nat /\ h + e < k
      BY <1>1, <2>1 DEF LeavesOut
    <3> HIDE DEF e
    <3>2. h + e < l
      BY <1>2, <3>1
    <3> QED
      BY <3>2 DEF e
  <2> QED
    BY <1>2, <2>1, <2>2 DEF Passed
<1>3. Before(faults, s, k + 1) \subseteq Before(faults, s, k) \union Gain(faults, s[k])
  <2> SUFFICES ASSUME NEW j \in Passed(faults, s, k + 1)
               PROVE  Gain(faults, s[j]) \subseteq Before(faults, s, k) \union Gain(faults, s[k])
    BY DEF Before
  <2>1. j \in 1 .. k /\ k + 1 \in Nat /\ k < k + 1 /\ k + 1 <= Len(s) + 1
    BY <1>1 DEF Passed
  <2>2. CASE j = k
    BY <2>2
  <2>3. CASE j < k
    <3>1. j \in Passed(faults, s, k)
      BY <1>2, <2>1, <2>3
    <3> QED
      BY <3>1 DEF Before
  <2> QED
    BY <2>1, <2>2, <2>3
<1>4. ASSUME faults # 0, s[k].fail = "return", s[k].by # "none"
      PROVE  Before(faults, s, k + 1 + s[k].skip) \subseteq Before(faults, s, k)
  <2> DEFINE e == s[k].skip
             l == k + 1 + e
  <2>1. e \in Nat /\ l \in Nat /\ k < l /\ l <= Len(s) + 1 /\ k + e < l
    BY <1>1, <1>4
  <2>2. ASSUME NEW j \in Passed(faults, s, l) PROVE j \in Passed(faults, s, k)
    <3>1. j \in 1 .. k + e
      BY <2>1 DEF Passed
    <3>2. CASE j < k
      BY <1>2, <2>1, <3>2
    <3>3. CASE j >= k
      <4>1. k \in 1 .. j /\ j <= k + e
        BY <3>1, <3>3
      <4>2. LeavesOut(s, k, j, l)
        BY <1>4, <2>1, <4>1 DEF LeavesOut
      <4> QED
        BY <1>4, <4>1, <4>2 DEF Passed
    <3> QED
      BY <2>1, <3>1, <3>2, <3>3
  <2> HIDE DEF l
  <2>3. Before(faults, s, l) \subseteq Before(faults, s, k)
    BY <2>2 DEF Before
  <2> QED
    BY <2>3 DEF l
<1> QED
  BY <1>1, <1>3, <1>4

\* A call, whatever comes of it.
LEMMA CallProvides ==
    ASSUME ApartInv, Settled(code), Call, NEW faults \in {0, 1}, Provided(faults), failures' = failures \/ faults = 1,
           failures \in Nat
    PROVE  Provided(faults)'
<1>1. PICK have : /\ Runs(board, config, faults, have, code)
                  /\ have \union Before(faults, code, pc) \subseteq made \union Excused(board, config, faults)
  BY DEF Provided
<1> DEFINE E == Excused(board, config, faults)
<1>2. UNCHANGED <<board, config, code>> /\ E' = E
  BY DEF Call, Excused
<1>3. pc \in 1 .. Len(code) /\ IsProgram(code)
  <2>1. IsProgram(code)
    BY <1>1 DEF Runs
  <2>2. Len(code) \in Nat
    BY <2>1 DEF IsProgram
  <2> QED
    BY <2>1, <2>2 DEF Call, ApartInv
<1>4. Asks(board, config, Now) \subseteq made \union E
  BY <1>1, <1>3 DEF Runs, Now
<1>5. missing' \subseteq E
  BY <1>4 DEF Call, Asks, Provided
<1>6. made \subseteq made' /\ (have \union Before(faults, code, pc')) \subseteq made' \union E
  <2>1. /\ Before(faults, code, pc + 1) \subseteq Before(faults, code, pc) \union Gain(faults, Now)
        /\ Now.skip \in Nat
        /\ faults # 0 /\ Now.fail = "return" /\ Now.by # "none" =>
              Before(faults, code, pc + 1 + Now.skip) \subseteq Before(faults, code, pc)
    BY <1>3, BehindStep DEF Now
  <2>2. Gain(faults, Now) \subseteq Now.makes
    BY DEF Gain
  <2>3. CASE Succeed
    <3>1. made' = made \union Now.makes /\ pc' \in {pc, pc + 1}
      BY <2>3 DEF Succeed
    <3> QED
      BY <1>1, <2>1, <2>2, <3>1
  <2>4. CASE Fail
    <3>1. made' = made /\ faults = 1
      BY <2>4 DEF Fail
    <3>2. \/ pc' = pc
          \/ pc' = pc + 1 + Now.skip /\ Now.fail = "return"
          \/ pc' = pc + 1 /\ Gain(faults, Now) = {}
      BY <2>4, <3>1 DEF Fail, Gain
    <3>3. Now.fail = "return" => Now.by # "none"
      BY <1>3 DEF Settled, Now
    <3> QED
      BY <1>1, <2>1, <3>1, <3>2, <3>3
  <2>5. CASE UNCHANGED <<pc, made, claims, stored, ready, failures>>
    BY <1>1, <2>5
  <2> QED
    BY <2>3, <2>4, <2>5 DEF Call
<1>7. \A k \in 1 .. Len(ready') : Given(board, config, ready'[k]) \subseteq made' \union E
  <2>1. CASE ready' = ready
    BY <1>6, <2>1 DEF Provided
  <2>2. CASE Succeed /\ Now.stack # 0
    <3>1. PICK task : Now.makes = {task}
      BY <1>3, <2>2, NowTask
    <3>2. Now.stack > 0
      BY <1>3, <2>2, NowTask
    <3>3. ready' = Append(ready, task)
      BY <2>2, <3>1 DEF Succeed
    <3>4. Given(board, config, task) \subseteq made' \union E
      <4>1. Given(board, config, task) \subseteq Asks(board, config, Now)
        BY <3>1, <3>2 DEF Asks
      <4> QED
        BY <1>4, <1>6, <4>1
    <3>5. PICK S : ready \in Seq(S)
      BY DEF ApartInv
    <3>6. \A k \in 1 .. Len(ready') : ready'[k] = task \/ (k \in 1 .. Len(ready) /\ ready'[k] = ready[k])
      <4> DEFINE T == S \union {task}
      <4>1. ready \in Seq(T) /\ task \in T
        BY <3>5
      <4> HIDE DEF T
      <4>2. Len(Append(ready, task)) = Len(ready) + 1
        BY <4>1
      <4>3. \A k \in 1 .. Len(ready) + 1 :
               Append(ready, task)[k] = task \/ (k \in 1 .. Len(ready) /\ Append(ready, task)[k] = ready[k])
        BY <4>1
      <4> QED
        BY <3>3, <4>2, <4>3
    <3>7. \A k \in 1 .. Len(ready) : Given(board, config, ready[k]) \subseteq made' \union E
      BY <1>6 DEF Provided
    <3> HIDE DEF E
    <3> QED
      BY <3>4, <3>6, <3>7
  <2> QED
    BY <2>1, <2>2 DEF Call, Succeed, Fail
<1> QED
  BY <1>1, <1>2, <1>5, <1>6, <1>7 DEF Provided

LEMMA ScheduleProvides ==
    ASSUME ApartInv, Schedule, NEW faults, Provided(faults)
    PROVE  Provided(faults)'
<1> DEFINE E == Excused(board, config, faults)
<1>1. UNCHANGED <<board, config, made, missing>>
  BY DEF Schedule
<1>2. E' = E
  BY <1>1 DEF Excused
<1>3. CASE ready = <<>>
  BY <1>1, <1>2, <1>3 DEF Schedule, Provided
<1>4. CASE ready # <<>>
  <2>1. PICK S : ready \in Seq(S)
    BY DEF ApartInv
  <2>2. /\ 1 \in 1 .. Len(ready) /\ Head(ready) = ready[1]
        /\ \A k \in 1 .. Len(Tail(ready)) : k + 1 \in 1 .. Len(ready) /\ Tail(ready)[k] = ready[k + 1]
    BY <1>4, <2>1
  <2>3. code' = Task(board, config, ready[1]) /\ ready' = Tail(ready) /\ pc' = 1
    BY <1>4, <2>2 DEF Schedule
  <2> DEFINE have == Given(board, config, ready[1])
  <2>4. Runs(board, config, faults, have, code') /\ have \subseteq made \union E
    BY <2>2, <2>3, ProgramsRun DEF ApartInv, Provided
  <2>5. Before(faults, code', 1) = {}
    BY DEF Before, Passed
  <2>6. ASSUME NEW k \in 1 .. Len(ready') PROVE Given(board, config, ready'[k]) \subseteq made \union E
    <3>1. k + 1 \in 1 .. Len(ready) /\ ready'[k] = ready[k + 1]
      BY <2>2, <2>3
    <3> QED
      BY <3>1 DEF Provided
  <2>7. \E given : Runs(board, config, faults, given, code') /\ given \union Before(faults, code', pc') \subseteq made \union E
    <3>1. have \union Before(faults, code', pc') \subseteq made \union E
      BY <2>3, <2>4, <2>5
    <3> HIDE DEF have, E
    <3> QED
      BY <2>4, <3>1
  <2>8. missing \subseteq E
    BY DEF Provided
  <2> HIDE DEF have, E
  <2> QED
    BY <1>1, <2>6, <2>7, <2>8 DEF Provided, E, Excused
<1> QED
  BY <1>3, <1>4

LEMMA ExistsKept ==
    ASSUME ApartInv, ExistsInv, [BootNext]_bootVars
    PROVE  ExistsInv'
<1>1. failures \in Nat /\ Settled(code) /\ (failures = 0 => Provided(0)) /\ Provided(1)
  BY DEF ExistsInv
<1>2. CASE Call
  <2>1. failures' \in Nat /\ (failures' = 0 => failures' = failures /\ failures = 0)
    BY <1>1, <1>2 DEF Call, Succeed, Fail
  <2>2. Provided(1)'
    BY <1>1, <1>2, CallProvides
  <2>3. failures' = 0 => Provided(0)'
    BY <1>1, <1>2, <2>1, CallProvides
  <2>4. Settled(code)'
    BY <1>1, <1>2 DEF Call, Settled
  <2> QED
    BY <2>1, <2>2, <2>3, <2>4 DEF ExistsInv
<1>3. CASE Schedule
  <2>1. failures' = failures
    BY <1>3 DEF Schedule
  <2>2. Provided(1)' /\ (failures = 0 => Provided(0)')
    BY <1>1, <1>3, ScheduleProvides
  <2>3. Settled(code)'
    <3>1. code' = code \/ \E task : code' = Task(board, config, task)
      BY <1>3 DEF Schedule
    <3>2. \A task : Settled(Task(board, config, task))
      BY ProgramsRun DEF ApartInv
    <3> QED
      BY <1>1, <3>1, <3>2 DEF Settled
  <2> QED
    BY <1>1, <2>1, <2>2, <2>3 DEF ExistsInv
<1>4. CASE Ended \/ UNCHANGED bootVars
  <2>1. UNCHANGED bootVars
    BY <1>4 DEF Ended
  <2> QED
    BY <1>1, <2>1 DEF bootVars, ExistsInv, Provided, Settled, Excused
<1> QED
  BY <1>2, <1>3, <1>4 DEF BootNext

\* UsesWhatExists holds of every start of every board, whatever its
\* configuration, however many options are off and however many calls fail.
THEOREM BoardsUseWhatExists == BootSpec => []UsesWhatExists
<1>1. BootInit => ApartInv /\ ExistsInv
  BY ApartFirst, ExistsFirst
<1>2. (ApartInv /\ ExistsInv) /\ [BootNext]_bootVars => (ApartInv /\ ExistsInv)'
  BY ApartKept, ExistsKept
<1>3. ApartInv /\ ExistsInv => UsesWhatExists
  BY DEF ExistsInv, Provided, Excused, UsesWhatExists
<1> QED
  BY <1>1, <1>2, <1>3, PTL DEF BootSpec

-----------------------------------------------------------------------------
\* What holds of each test holds of the specification that the runs check, for every value of
\* its constants.
THEOREM TestsHoldTogether ==
    TestSpec => [](/\ RampInv /\ NoFalseAlarm /\ OnlyColourLit /\ PairsPass /\ EchoCorrect
                   /\ AnswersMatch /\ ResetAnswered /\ TestsKeepApart /\ UsesWhatExists)
BY TestsImplementEach, RampIsTriangular, WireIsQuiet, LitIsTheColour, PairsDoPass, EchoIsFaithful,
   AnswersAreTheirOwn, CardAnswers, BoardsKeepApart, BoardsUseWhatExists, PTL
=============================================================================
