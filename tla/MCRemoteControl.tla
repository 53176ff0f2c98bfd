-------------------------- MODULE MCRemoteControl --------------------------
(***************************************************************************)
(* Instances of RemoteControl: the real limits, period and frame; two      *)
(* channels stand for the eight of RC_MAX_CHANNELS.                        *)
(***************************************************************************)
EXTENDS RemoteControl

\* Two receivers of servo pulses of 1 and 2 ms.  A frame is 20 ms and the timer's period 24 ms:
\* from any offset the frames visit six phases 4 ms apart.  Among those of the first offset the
\* short pulse ends together with the period and the long one reaches over its end, among
\* those of the second both reach over it.
MCSteady == [receivers |-> 2, widths |-> {1000, 2000}, dropouts |-> {0},
             offsets |-> {3000, 3500}, mayFail |-> FALSE]

\* Before the first pulse less than the width of one may have passed.
MCAnyOffset == {0, 700, 1500, 3000, 23500}
MCOne == [receivers |-> 1, widths |-> {1500}, dropouts |-> {0}, offsets |-> MCAnyOffset, mayFail |-> FALSE]

\* Glitches of 0.4 ms and dropouts, short, long, and such that the pause looks like a pulse
\* modulo the period.  All times are multiples of 0.4 ms, as are the frame and the period.
MCNoisy == [receivers |-> 1, widths |-> {400, 1600}, dropouts |-> {0, 6400, 53200},
            offsets |-> {0, 800, 1600, 3200, 23600}, mayFail |-> TRUE]

MCBoth == {MCSteady, MCNoisy}
MCOnly == {MCOne}
=============================================================================
