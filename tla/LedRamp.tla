------------------------------ MODULE LedRamp ------------------------------
(***************************************************************************)
(* ledTask: the duty cycle of an LED goes up and down in steps of 400 of a  *)
(* period of 20000, waits a second at either end, and toggles a second LED  *)
(* there.  The mains of vf610, s32k, stm32, am57xx, imx6 and linux each     *)
(* have a copy; three of them have lost the toggling.  Which copy runs is   *)
(* chosen at the start.  The level before the first toggling is low.        *)
(***************************************************************************)
EXTENDS Naturals

VARIABLES
    copy,       \* the board
    duty, up,   \* n and up of the code
    led,        \* the level of the toggled pin
    wait,       \* waittime
    lastEnd     \* (history) the end of the ramp last reached, or "none"
rampVars == <<copy, duty, up, led, wait, lastEnd>>

Full == 20000
RampInit ==
    /\ copy \in {"vf610", "s32k", "stm32", "am57xx", "imx6", "linux"}
    /\ duty = 10000 /\ up = TRUE /\ led = FALSE /\ wait = 20 /\ lastEnd = "none"

\* (mutant) the code turns one step late
Turn_late == IF up THEN duty < Full ELSE duty = 0
Turn == IF up THEN duty < Full - 400 ELSE duty <= 400
Ramp(toggles) ==
    /\ up' = Turn
    /\ duty' = IF up THEN duty + 400 ELSE duty - 400
    /\ LET atEnd == duty' \in {0, Full} IN
       /\ wait' = IF atEnd THEN 1000 ELSE 20
       /\ led' = IF atEnd /\ toggles THEN ~led ELSE led
       /\ lastEnd' = IF ~atEnd THEN lastEnd ELSE IF duty' = 0 THEN "low" ELSE "high"
    /\ UNCHANGED copy

vf610_ledTask == copy = "vf610" /\ Ramp(TRUE)
s32k_ledTask == copy = "s32k" /\ Ramp(FALSE)
stm32_ledTask == copy = "stm32" /\ Ramp(TRUE)
am57xx_ledTask == copy = "am57xx" /\ Ramp(FALSE)
imx6_ledTask == copy = "imx6" /\ Ramp(TRUE)
linux_ledTask == copy = "linux" /\ Ramp(FALSE)

RampNext ==
    vf610_ledTask \/ s32k_ledTask \/ stm32_ledTask \/ am57xx_ledTask \/ imx6_ledTask \/ linux_ledTask
RampSpec == RampInit /\ [][RampNext]_rampVars

-----------------------------------------------------------------------------
Duties == {400 * k : k \in 0..50}

\* The duty cycle stays within the period (n is unsigned: one step below 0 would be a duty
\* cycle nothing accepts), hits both ends exactly, and the second LED of the copies that
\* toggle it is on from the upper end to the lower: a wave at half the ramp's frequency.
RampInv ==
    /\ duty \in Duties
    /\ up => duty < Full
    /\ ~up => duty > 0
    /\ wait = (IF duty \in {0, Full} THEN 1000 ELSE 20)
    /\ led <=> (lastEnd = "high" /\ copy \in {"vf610", "stm32", "imx6"})
    /\ duty = 0 => lastEnd = "low"
    /\ duty = Full => lastEnd = "high"
    /\ lastEnd = "none" => up /\ duty >= 10000
    /\ lastEnd = "low" => up
    /\ lastEnd = "high" => ~up
=============================================================================
