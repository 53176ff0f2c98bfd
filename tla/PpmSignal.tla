----------------------------- MODULE PpmSignal -----------------------------
(***************************************************************************)
(* What the PPM generator of vf610/ppm.c promises on its output pin: the   *)
(* pulse-position signal a servo receiver decodes.  A frame is Slots + 1   *)
(* pulses; the pause after pulse k < Slots carries the value of slot k,    *)
(* the pause after the last pulse fills the frame up to its length and     *)
(* lets the receiver resynchronise.                                        *)
(*                                                                         *)
(* The module knows nothing of timers, interrupts or tasks.  Ppm.tla is    *)
(* shown to implement it.                                                  *)
(***************************************************************************)
EXTENDS Integers

CONSTANTS
  Slots,      \* number of values a frame carries
  Pulse,      \* width of a pulse and shortest pause (microseconds)
  FrameTime,  \* nominal length of a frame
  Early,      \* how much shorter than nominal a frame may be
  Late        \* how much longer

VARIABLES
  slot,   \* slot[k]: the value carried by the pause after pulse k
  level,  \* TRUE while the pin is high
  edge,   \* edges of the current frame so far, 0 before the first frame
  clock,  \* time of the last edge, from the start of the frame
  frame   \* length of the last complete frame, 0 before there is one

vars == <<slot, level, edge, clock, frame>>

LastEdge == 2 * Slots + 2
FrameLengths == (FrameTime - Early) .. (FrameTime + Late)

Init ==
  /\ slot \in [0 .. Slots - 1 -> Nat]
  /\ level = FALSE
  /\ edge = 0
  /\ clock = 0
  /\ frame = 0

\* The first rising edge.
Begin ==
  /\ edge = 0
  /\ level' = TRUE /\ edge' = 1 /\ clock' = 0
  /\ UNCHANGED <<slot, frame>>

\* The end of a pulse, which is always Pulse long.
Fall ==
  /\ edge < LastEdge /\ edge % 2 = 1
  /\ level' = FALSE /\ edge' = edge + 1 /\ clock' = clock + Pulse
  /\ UNCHANGED <<slot, frame>>

\* The end of the pause that carries a slot.
Rise ==
  /\ 0 < edge /\ edge < LastEdge /\ edge % 2 = 0
  /\ level' = TRUE /\ edge' = edge + 1
  /\ clock' = clock + Pulse + slot[edge \div 2 - 1]
  /\ UNCHANGED <<slot, frame>>

\* The end of the synchronisation pause: the next frame begins.
Sync ==
  /\ edge = LastEdge
  /\ frame' \in FrameLengths /\ frame' >= clock
  /\ level' = TRUE /\ edge' = 1 /\ clock' = 0
  /\ UNCHANGED slot

\* Slots that fill the frame leave no time for the synchronisation pause:
\* the last pulse runs into the first one of the next frame.
Merge ==
  /\ edge = LastEdge - 1
  /\ clock + Pulse = FrameTime
  /\ frame' = FrameTime
  /\ level' = TRUE /\ edge' = 1 /\ clock' = 0
  /\ UNCHANGED slot

Next == Begin \/ Fall \/ Rise \/ Sync \/ Merge

Spec == Init /\ [][Next]_vars
=============================================================================
