------------------------------ MODULE PwmTest ------------------------------
(***************************************************************************)
(* The PWM test of the vf610 without a remote control: pwmTask moves the    *)
(* duty cycle of the outputs up and down, an output is wired to a capture   *)
(* input, and captureIRQ asserts that each width measured is n or the rest  *)
(* of the period, give or take MAX_DIFF.                                    *)
(*                                                                          *)
(* Times are microseconds.  Task and PWM have the same period of 20 ms, so  *)
(* a task that is punctual runs at one place of every PWM period; which one *)
(* is chosen at the start, and it may be late within the period.  External: *)
(* a new duty cycle is output from the next period on, a duty cycle of 0 or *)
(* of the whole period has no edges, the capture counts modulo its own      *)
(* period of 30 ms, and an output can be stuck at one duty cycle.           *)
(***************************************************************************)
EXTENDS Integers

CONSTANTS
    Places,         \* sets of places in the period at which the task may run
    Offsets,        \* the capture counter when the first period begins
    Faults          \* whether the output may be stuck

PwmPeriod == 20000
CapturePeriod == 30000
MAX_DIFF == 510

ASSUME PwmAssumption == Offsets \subseteq 0 .. CapturePeriod - 1 /\ Faults \subseteq BOOLEAN

VARIABLES
    n, upward,          \* pwmTask: n and up
    us, usOld,          \* captureIRQ: the last two captures
    i, start,           \* captureIRQ: edges ignored at the start
    alarm,              \* the assertion of captureIRQ has stopped the board
    places, place,      \* where the task may run, and where it does in this period
    output,             \* the duty cycle the output has in this period
    stuck,              \* the output keeps its duty cycle
    base,               \* the capture counter at the start of this period
    ran, fell           \* the task has run, the output has fallen, in this period
pwmVars == <<n, upward, us, usOld, i, start, alarm, places, place, output, stuck, base, ran, fell>>

PwmInit ==
    /\ n = 10000 /\ upward = TRUE /\ us = 0 /\ usOld = 0 /\ i = 0 /\ start = TRUE /\ alarm = FALSE
    /\ places \in Places /\ place \in places /\ base \in Offsets /\ stuck \in Faults
    /\ output = 10000 /\ ran = FALSE /\ fell = FALSE

\* One round of the task.  crit is set from before the change of n until the three outputs
\* have it; an edge in between is not judged: see Falls.
pwmTask ==
    /\ ~alarm /\ ~ran /\ (~fell => output = 0 \/ place <= output)
    /\ n' = IF upward THEN n + 500 ELSE n - 500
    /\ upward' = IF upward THEN n < 19500 ELSE n <= 500
    /\ ran' = TRUE
    /\ UNCHANGED <<us, usOld, i, start, alarm, places, place, output, stuck, base, fell>>

Near(width) == n - MAX_DIFF <= width /\ width <= n + MAX_DIFF
\* (mutant) widths are compared as if the capture were exact
Plausible_exact(diff) == diff = n \/ PwmPeriod - diff = n
\* (mutant) every width within the period passes
Plausible_any(diff) == Near(diff) \/ diff <= PwmPeriod
\* diff is unsigned: 20000 - diff of a longer one is huge, and no width.
Plausible(diff) == Near(diff) \/ (diff <= PwmPeriod /\ Near(PwmPeriod - diff))
\* (mutant) the wrap of the capture counter is not noticed
Judges_wrapped(crit, new, old) ==
    ~start /\ ~crit /\ old # 0 /\ new # 0 /\ n > 1000 /\ n < 19000
Judges(crit, new, old) ==
    ~start /\ ~crit /\ old # 0 /\ new # 0 /\ new > old /\ n > 1000 /\ n < 19000
captureIRQ(time, crit) ==
    /\ usOld' = us /\ us' = time
    /\ alarm' = (Judges(crit, time, us) /\ ~Plausible(time - us))
    /\ IF ~Judges(crit, time, us) /\ start THEN i' = i + 1 /\ start' = (i < 20)
       ELSE UNCHANGED <<i, start>>
At(offset) == (base + offset) % CapturePeriod

\* The output falls within the period; when the task is at work then, crit is set.
Falls ==
    /\ ~alarm /\ ~fell /\ output \notin {0, PwmPeriod} /\ (~ran => output <= place)
    /\ captureIRQ(At(output), ~ran /\ output = place)
    /\ fell' = TRUE
    /\ UNCHANGED <<n, upward, places, place, output, stuck, base, ran>>

\* The next period begins with the duty cycle set last; the output rises if it was low.
Rises ==
    /\ ~alarm /\ ran /\ (fell \/ output \in {0, PwmPeriod})
    /\ output' = IF stuck THEN output ELSE n
    /\ base' = At(PwmPeriod)
    /\ IF output < PwmPeriod /\ output' > 0 THEN captureIRQ(At(PwmPeriod), FALSE)
       ELSE UNCHANGED <<us, usOld, i, start, alarm>>
    /\ place' \in places
    /\ ran' = FALSE /\ fell' = FALSE
    /\ UNCHANGED <<n, upward, places, stuck>>

PwmNext == pwmTask \/ Falls \/ Rises
PwmSpec == PwmInit /\ [][PwmNext]_pwmVars /\ WF_pwmVars(PwmNext)

-----------------------------------------------------------------------------
\* On a wire that works the test never raises an alarm: wherever in the period the task
\* changes n, with what is then n the width of the pulse before or the one to come, over
\* the ends of the ramp where edges disappear, and over the wrap of the capture counter.
NoFalseAlarm == ~stuck => ~alarm

\* An output that does not follow is found.
FaultFound == stuck ~> alarm
=============================================================================
