------------------------------ MODULE RgbTimer ------------------------------
(***************************************************************************)
(* The timer test of the s32k and the kv4x: one timer callback dims a light *)
(* of three LEDs up and down and goes on to the next of seven colours when  *)
(* it is dark.  Without CONFIG_TIMER_TEST_PWM the callback switches the     *)
(* pins itself (a high pin is dark), with it the callback sets three duty   *)
(* cycles (a full one is dark).                                             *)
(*                                                                          *)
(* The brightness n is counted in twentieths: the code adds 0.05 to a float *)
(* and clamps it to 0 and 1, which takes 20 additions either way.  It       *)
(* starts at 10500, which the first addition clamps to 1.  adc_val, the     *)
(* reading of the ADC test, is taken at a few values.                       *)
(***************************************************************************)
EXTENDS Integers

CONSTANT AdcValues      \* what adc_val may be, in per cent

Leds == {0, 1, 2}
MaxTime == 21000
Clamp(s) == IF s >= 20 THEN 20 ELSE IF s <= 0 THEN 0 ELSE s

VARIABLES
    rgbBoard, rgbPwm,   \* "s32k" or "kv4x"; with CONFIG_TIMER_TEST_PWM or without
    rgbPins, state,     \* the colour, and the place in the list of colours
    bright, rising,     \* n and up; bright is 210000 before the first interrupt
    on,
    pins, dutyOf,       \* the LEDs whose pin is high; the three duty cycles
    armed,              \* the period the timer has
    lastDark            \* (history) how long the LEDs were dark before they were lit, or -1
rgbVars == <<rgbBoard, rgbPwm, rgbPins, state, bright, rising, on, pins, dutyOf, armed, lastDark>>

RgbInit ==
    /\ rgbBoard \in {"s32k", "kv4x"} /\ rgbPwm \in BOOLEAN
    /\ rgbPins = {0} /\ state = 0 /\ bright = 20 * (MaxTime \div 2) /\ rising = TRUE /\ on = TRUE
    /\ pins = Leds /\ dutyOf = [i \in Leds |-> MaxTime]
    /\ armed = (IF rgbPwm THEN MaxTime ELSE MaxTime \div 2) /\ lastDark = -1

Colour(i) ==
    CASE i = 0 -> {0} [] i = 1 -> {1} [] i = 2 -> {2} [] i = 3 -> {0, 1}
      [] i = 4 -> {1, 2} [] i = 5 -> {2, 0} [] i = 6 -> {0, 1, 2}

\* (mutant) state is not incremented: the first colour for ever
NextColour_sticks ==
    LET s == IF state = 7 THEN 0 ELSE state IN state' = s /\ rgbPins' = Colour(s)
NextColour ==
    LET s == IF state = 7 THEN 0 ELSE state IN state' = s + 1 /\ rgbPins' = Colour(s)

\* One step of the brightness; at 0 the next colour.
Dim ==
    LET n == Clamp(IF rising THEN bright + 1 ELSE bright - 1) IN
    /\ bright' = n
    /\ rising' = IF n = 20 THEN FALSE ELSE IF n = 0 THEN TRUE ELSE rising
    /\ IF n = 0 THEN NextColour ELSE UNCHANGED <<state, rgbPins>>

\* (mutant) the colour also changes while the old one is lit
Switch_changesLit ==
    /\ pins' = IF on THEN pins \union rgbPins ELSE pins \ rgbPins
    /\ Dim /\ on' = ~on
Switch ==
    /\ pins' = IF on THEN pins \union rgbPins ELSE pins \ rgbPins
    /\ IF on THEN Dim ELSE UNCHANGED <<bright, rising, state, rgbPins>>
    /\ on' = ~on

\* The kv4x keeps off a period of 0, and with it off one of MaxTime.
Period(b, n) ==
    LET m == MaxTime - n * (MaxTime \div 20) IN
    IF b = "s32k" THEN m ELSE IF m = 0 THEN 100 ELSE IF m = MaxTime THEN MaxTime - 100 ELSE m

PinsIrq(b) ==
    /\ rgbBoard = b /\ ~rgbPwm
    /\ Switch
    /\ armed' = IF on THEN Period(b, bright') ELSE MaxTime - Period(b, bright')
    /\ lastDark' = IF on THEN lastDark ELSE armed
    /\ UNCHANGED <<rgbBoard, rgbPwm, dutyOf>>
PwmIrq(b) ==
    /\ rgbBoard = b /\ rgbPwm
    /\ Dim
    /\ \E adc \in AdcValues :
          dutyOf' = [i \in Leds |-> IF i \in rgbPins' THEN MaxTime - (315 * bright' * adc) \div 100 ELSE MaxTime]
    /\ UNCHANGED <<rgbBoard, rgbPwm, on, pins, armed, lastDark>>

s32k_irqhandle == PinsIrq("s32k") \/ PwmIrq("s32k")
kv4x_irqhandle == PinsIrq("kv4x") \/ PwmIrq("kv4x")
RgbNext == s32k_irqhandle \/ kv4x_irqhandle
RgbSpec == RgbInit /\ [][RgbNext]_rgbVars /\ WF_rgbVars(RgbNext)

-----------------------------------------------------------------------------
\* Only LEDs of the colour are lit, although the colour changes inside the interrupt that
\* switches them: in the dark half none, in the other those of the colour, all of them.
\* Dark and lit time make up one period, so the dimming does not flicker, and the board
\* that keeps off a period of 0 never arms one.
OnlyColourLit ==
    /\ ~rgbPwm => Leds \ pins = (IF on /\ lastDark >= 0 THEN rgbPins ELSE {})
    /\ rgbPwm => \A i \in Leds \ rgbPins : dutyOf[i] = MaxTime
    /\ ~rgbPwm /\ on /\ lastDark >= 0 => lastDark + armed = MaxTime
    /\ rgbBoard = "kv4x" => armed > 0

\* All seven colours come back for ever, whatever variant is built: state, taken around in
\* one place and incremented in another, never gets stuck.
ColoursRecur == \A i \in 0..6 : []<>(rgbPins = Colour(i))
=============================================================================
