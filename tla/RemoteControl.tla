--------------------------- MODULE RemoteControl ---------------------------
(***************************************************************************)
(* The remote control receiver of vf610/remote_control.c: servo pulses are *)
(* measured by the capture interrupt of each channel, a timer overflow     *)
(* drops channels that stopped, and a task reads the values (rctest.c).    *)
(*                                                                         *)
(* The transmitter and the HAL's timer and capture units are external.     *)
(* Time passes from one event to the next: an edge on a channel or the     *)
(* overflow of the timer.  Times are in microseconds.                      *)
(***************************************************************************)
EXTENDS Integers, FiniteSets

CONSTANTS
  RC_MAX_CHANNELS, RC_MIN, RC_MAX,
  Period,      \* capture_setPeriod: the capture time counts modulo this
  UINT16_MAX,  \* the modulus rc_IRQHandler uses for a wrap
  Frame,       \* from one pulse of the transmitter to the next
  Settings     \* what may be connected: records of
               \*   receivers : how many captures main hands to rc_setup
               \*   widths    : the widths the transmitter sends
               \*   dropouts  : how much longer the signal may stay low after a pulse
               \*   offsets   : when the first pulse may come
               \*   mayFail   : TRUE where the HAL calls of rc_setup may fail

Channels == 0 .. RC_MAX_CHANNELS - 1

ASSUME RcAssumption ==
  /\ RC_MAX_CHANNELS \in Nat \ {0}
  /\ RC_MIN \in Nat /\ RC_MAX \in Nat /\ RC_MIN < RC_MAX
  /\ Period \in Nat /\ RC_MAX < Period /\ Period <= UINT16_MAX
  /\ UINT16_MAX \in Nat
  /\ Frame \in Nat
  /\ \A s \in Settings :
       /\ s.receivers \in 1 .. RC_MAX_CHANNELS
       /\ s.widths \subseteq 1 .. Frame - 1
       /\ s.dropouts \subseteq Nat /\ s.offsets \subseteq Nat
       /\ s.mayFail \in BOOLEAN

VARIABLES
  setting, \* what is connected
  ch,      \* rc->channel[]: raw, value, retry, corret
  inUse,   \* the channels whose capture is not NULL
  boot,    \* rcInit runs, the scheduler runs, or an assertion stopped main
  line,    \* the wire of a channel: level, time to the next edge, pulse width
  ovf,     \* time to the next overflow of the timer
  task,    \* rcTestTask in rc_get: the channel and how far it is
  got,     \* the last result of rc_get
  age,     \* (ghost) time since a measurement was accepted, at most Old
  sent     \* (ghost) widths of the last three pulses, the one under way included

vars == <<setting, ch, inUse, boot, line, ovf, task, got, age, sent>>

Old == 3 * Period

TypeOK ==
  /\ setting \in Settings
  /\ ch \in [Channels -> [raw : 0 .. Period - 1,
                          value : {0} \cup (RC_MIN + 1 .. RC_MAX - 1),
                          retry : BOOLEAN, corret : BOOLEAN]]
  /\ inUse \subseteq Channels
  /\ boot \in {"setup", "run", "assert"}
  /\ line \in [Channels -> [high : BOOLEAN, left : Nat, width : Nat]]
  /\ ovf \in 0 .. Period
  /\ task \in [chan : Channels, at : {"flag", "value"}]
  /\ got \in Nat
  /\ age \in [Channels -> 0 .. Old]
  /\ sent \in [Channels -> [1 .. 3 -> Nat]]

Running == boot = "run"

\* struct rc_channel after memset or rc_setup.
NoSignal == [raw |-> 0, value |-> 0, retry |-> FALSE, corret |-> FALSE]

\* rc_init: memset, then the overflow callback.
Init ==
  /\ setting \in Settings
  /\ ch = [c \in Channels |-> NoSignal]
  /\ inUse = {}
  /\ boot = "setup"
  /\ \E first \in [0 .. setting.receivers - 1 -> setting.offsets] :
       line = [c \in Channels |->
                 [high  |-> FALSE, width |-> 0,
                  left  |-> IF c < setting.receivers THEN first[c] ELSE 0]]
  /\ ovf = Period
  /\ task = [chan |-> 0, at |-> "flag"]
  /\ got = 0
  /\ age = [c \in Channels |-> Old]
  /\ sent = [c \in Channels |-> <<0, 0, 0>>]

-----------------------------------------------------------------------------
(* rcInit: rc_setup for each capture.  A failure is an assertion of rcInit. *)

Free == Channels \ inUse

rc_setup ==
  /\ boot = "setup" /\ Cardinality(inUse) < setting.receivers
  /\ \E c \in Free :
       /\ \A d \in Free : c <= d
       /\ \/ /\ ch' = [ch EXCEPT ![c] = NoSignal]
             /\ inUse' = inUse \cup {c}
             /\ UNCHANGED boot
          \/ /\ setting.mayFail   \* capture_setCallback: the channel is free again
             /\ ch' = [ch EXCEPT ![c] = NoSignal]
             /\ boot' = "assert"
             /\ UNCHANGED inUse
          \/ /\ setting.mayFail   \* capture_setPeriod: the channel stays taken
             /\ ch' = [ch EXCEPT ![c] = NoSignal]
             /\ inUse' = inUse \cup {c}
             /\ boot' = "assert"
  /\ UNCHANGED <<setting, line, ovf, task, got, age, sent>>

\* main starts the scheduler; until then the interrupts are masked.
StartScheduler ==
  /\ boot = "setup" /\ Cardinality(inUse) = setting.receivers
  /\ boot' = "run"
  /\ UNCHANGED <<setting, ch, inUse, line, ovf, task, got, age, sent>>

-----------------------------------------------------------------------------
(* The interrupts. *)

\* The time d passes on the wires of the other channels.
WiresAfter(d) ==
  [e \in Channels |-> IF e \in inUse THEN [line[e] EXCEPT !.left = @ - d]
                                     ELSE line[e]]

AgesAfter(d) ==
  [e \in Channels |-> IF age[e] + d < Old THEN age[e] + d ELSE Old]

IsPulse(width) == RC_MIN < width /\ width < RC_MAX

\* (mutant) the value is stored whatever was measured
accept_unchecked(r, width) ==
  [r EXCEPT !.value = width, !.corret = @ \/ IsPulse(width),
            !.retry = @ \/ IsPulse(width)]

\* (mutant) the channel is believed again, but without the grace of an overflow
accept_noRetry(r, width) ==
  IF IsPulse(width) THEN [r EXCEPT !.value = width, !.corret = TRUE] ELSE r

\* A measurement counts when it can be a pulse.
Accept(r, width) ==
  IF IsPulse(width)
    THEN [r EXCEPT !.value = width, !.corret = TRUE, !.retry = TRUE]
    ELSE r

\* The time between two captures, as rc_IRQHandler computes it.
Measure(last, now) ==
  IF now > last THEN now - last ELSE (UINT16_MAX - last) + now

\* The transmitter: a pulse begins, or ends and is followed by a pause that
\* fills the frame or, when the signal drops out, by a longer one.
Rise(c) ==
  \E w \in setting.widths :
    /\ line' = [WiresAfter(line[c].left) EXCEPT
                  ![c] = [high |-> TRUE, width |-> w, left |-> w]]
    /\ sent' = [sent EXCEPT ![c] = <<w, @[1], @[2]>>]

Fall(c) ==
  \E gap \in setting.dropouts :
    /\ line' = [WiresAfter(line[c].left) EXCEPT
                  ![c] = [high |-> FALSE, width |-> line[c].width,
                          left |-> Frame - line[c].width + gap]]
    /\ UNCHANGED sent

\* The next edge is on channel c; the capture unit latched the time of it.
rc_IRQHandler(c) ==
  LET d     == line[c].left
      now   == (Period - (ovf - d)) % Period
      width == Measure(ch[c].raw, now) IN
  /\ Running /\ c \in inUse
  /\ d <= ovf /\ \A e \in inUse : d <= line[e].left
  /\ ch' = [ch EXCEPT ![c] = [Accept(@, width) EXCEPT !.raw = now]]
  /\ IF line[c].high THEN Fall(c) ELSE Rise(c)
  /\ ovf' = ovf - d
  /\ age' = IF IsPulse(width) THEN [AgesAfter(d) EXCEPT ![c] = 0]
                              ELSE AgesAfter(d)
  /\ UNCHANGED <<setting, inUse, boot, task, got>>

\* (mutant) retry is never consumed
overflow_keeps(r) == IF r.retry THEN r ELSE [r EXCEPT !.corret = FALSE]

\* What the overflow does to a channel: one period of grace, then it is dropped.
Overflow(r) ==
  IF r.retry THEN [r EXCEPT !.retry = FALSE] ELSE [r EXCEPT !.corret = FALSE]

rc_OverfowHandler ==
  /\ Running
  /\ \A e \in inUse : ovf <= line[e].left
  /\ ch' = [c \in Channels |-> Overflow(ch[c])]
  /\ line' = WiresAfter(ovf)
  /\ age' = AgesAfter(ovf)
  /\ ovf' = Period
  /\ UNCHANGED <<setting, inUse, boot, task, got, sent>>

-----------------------------------------------------------------------------
(* rcTestTask reads all channels in turn.  rc_get reads corret, then value: *)
(* interrupts may come between.                                             *)

NextChannel == (task.chan + 1) % RC_MAX_CHANNELS

rc_getFlag ==
  /\ Running /\ task.at = "flag"
  /\ IF ch[task.chan].corret
       THEN task' = [task EXCEPT !.at = "value"] /\ UNCHANGED got
       ELSE task' = [chan |-> NextChannel, at |-> "flag"] /\ got' = 0
  /\ UNCHANGED <<setting, ch, inUse, boot, line, ovf, age, sent>>

rc_getValue ==
  /\ Running /\ task.at = "value"
  /\ got' = ch[task.chan].value
  /\ task' = [chan |-> NextChannel, at |-> "flag"]
  /\ UNCHANGED <<setting, ch, inUse, boot, line, ovf, age, sent>>

-----------------------------------------------------------------------------
Next ==
  \/ rc_setup
  \/ StartScheduler
  \/ \E c \in Channels : rc_IRQHandler(c)
  \/ rc_OverfowHandler
  \/ rc_getFlag
  \/ rc_getValue

Spec == Init /\ [][Next]_vars

\* The transmitter and the timer do not stop.
Fairness == WF_vars(rc_setup) /\ WF_vars(StartScheduler) /\
            WF_vars(rc_OverfowHandler \/ \E c \in Channels : rc_IRQHandler(c))

FairSpec == Spec /\ Fairness

-----------------------------------------------------------------------------
(* Properties *)

\* What rc_get returns is 0 or a width between RC_MIN and RC_MAX, although it
\* reads the flag and the value in two steps with interrupts between them; a
\* channel without a receiver returns 0.
ResultInRange == got # 0 => IsPulse(got)

\* Failsafe: a channel nothing was accepted on for two periods of the timer is
\* not believed any more, whatever noise its captures measure.
StaleIsDropped ==
  \A c \in Channels : ch[c].corret => age[c] <= 2 * Period

\* remote_control.c:75 "Wait unil next Overfow": a channel is not dropped at the
\* first overflow after a pulse, only at the second.
GraceIsKept ==
  \A c \in Channels : age[c] < 2 * Period - ovf => ch[c].corret

\* Pulses without dropouts, and nothing fails.
Steady == setting.dropouts = {0} /\ ~setting.mayFail /\ \A w \in setting.widths : IsPulse(w)

\* A signal without dropouts, once seen, is never lost again, although every
\* pulse during which the timer overflows is measured wrong and dropped: the
\* retry flag bridges it at every phase of the frame against the timer.
SteadyStaysOn ==
  \A c \in Channels : (Steady /\ c < setting.receivers) ~> [](ch[c].corret)

\* The safety half of it, for every step: no overflow, whatever its phase against the
\* frame, drops a steady channel, because a pulse was accepted since the one before.
SteadyNeverDropped ==
  [][\A c \in Channels : (Steady /\ ch[c].corret) => ch'[c].corret]_vars

\* ... and the value then is that of one of the last three pulses: two pulses
\* in a row are never dropped.
SteadyIsRecent ==
  \A c \in Channels :
    Steady /\ ch[c].corret => \E i \in 1 .. 3 : ch[c].value = sent[c][i]

\* remote_control.c:44 "Detect is Short or Long Impulse": what rc_get returns
\* is the width of a pulse the transmitter sends.  Violated: the pause before
\* the first pulse, or a dropout of a period and a pulse, is taken for one.
ResultIsAPulse == got # 0 => got \in setting.widths

\* remote_control.c:39 "Overflow": a pulse during which the timer overflows is
\* measured like any other.  Violated: the capture counts to 24000, the wrap is
\* computed modulo 65535.
EveryPulseMeasured ==
  [][\A c \in inUse :
       (line[c].high /\ ~line'[c].high) => ch'[c].value = line[c].width]_vars
=============================================================================
