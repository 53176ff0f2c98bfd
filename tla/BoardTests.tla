----------------------------- MODULE BoardTests -----------------------------
(***************************************************************************)
(* The programs of the smaller boards and tests in one specification.  A    *)
(* build contains what its configuration selects; the initial state chooses *)
(* what is looked at, and nothing else moves: the start of a board, or one  *)
(* of its tests (two boards for the CAN tests).                             *)
(***************************************************************************)
EXTENDS Boot, LedRamp, PwmTest, RgbTimer, CanPair, Mailbox, Handshake, SpiSd

VARIABLE program
testVars == <<program, bootVars, rampVars, pwmVars, rgbVars, canVars, mailVars, handVars, sdVars>>

\* What is not looked at has one initial state.
Still ==
    /\ program # "boot" => board = "m0" /\ config = Common
    /\ program # "ramp" => copy = "linux"
    /\ program # "pwm" => places = (CHOOSE p \in Places : TRUE) /\ place = (CHOOSE x \in places : TRUE)
                          /\ base = (CHOOSE o \in Offsets : TRUE) /\ stuck = FALSE
    /\ program # "rgb" => rgbBoard = "s32k" /\ rgbPwm = FALSE
    /\ program # "can" => pair = (CHOOSE p \in Pairs : TRUE)
    /\ program # "mail" => ahead = (CHOOSE a \in Aheads : TRUE)
    /\ program # "hand" => client = "ping"
    /\ program # "sd" => send = <<Index, Zero, Zero, Zero, Zero>>
TestInit ==
    /\ program \in {"boot", "ramp", "pwm", "rgb", "can", "mail", "hand", "sd"}
    /\ Still
    /\ BootInit /\ RampInit /\ PwmInit /\ RgbInit /\ CanInit /\ MailInit /\ HandInit /\ SdInit

BootStep ==
    /\ program = "boot" /\ BootNext
    /\ UNCHANGED <<program, rampVars, pwmVars, rgbVars, canVars, mailVars, handVars, sdVars>>
RampStep ==
    /\ program = "ramp" /\ RampNext
    /\ UNCHANGED <<program, bootVars, pwmVars, rgbVars, canVars, mailVars, handVars, sdVars>>
PwmStep ==
    /\ program = "pwm" /\ PwmNext
    /\ UNCHANGED <<program, bootVars, rampVars, rgbVars, canVars, mailVars, handVars, sdVars>>
RgbStep ==
    /\ program = "rgb" /\ RgbNext
    /\ UNCHANGED <<program, bootVars, rampVars, pwmVars, canVars, mailVars, handVars, sdVars>>
CanStep ==
    /\ program = "can" /\ CanNext
    /\ UNCHANGED <<program, bootVars, rampVars, pwmVars, rgbVars, mailVars, handVars, sdVars>>
MailStep ==
    /\ program = "mail" /\ MailNext
    /\ UNCHANGED <<program, bootVars, rampVars, pwmVars, rgbVars, canVars, handVars, sdVars>>
HandStep ==
    /\ program = "hand" /\ HandNext
    /\ UNCHANGED <<program, bootVars, rampVars, pwmVars, rgbVars, canVars, mailVars, sdVars>>
SdStep ==
    /\ program = "sd" /\ SdNext
    /\ UNCHANGED <<program, bootVars, rampVars, pwmVars, rgbVars, canVars, mailVars, handVars>>
TestNext ==
    \/ BootStep \/ RampStep \/ PwmStep \/ RgbStep
    \/ CanStep \/ MailStep \/ HandStep \/ SdStep

\* Interrupts keep coming and the tasks are scheduled; stated for the three tests of
\* which something is said that must happen.
TestSpec ==
    /\ TestInit /\ [][TestNext]_testVars
    /\ WF_pwmVars(PwmStep) /\ WF_rgbVars(RgbStep) /\ WF_mailVars(MailStep)

\* ColoursRecur, where the timer test is what runs.
ColoursComeBack == program = "rgb" => ColoursRecur
\* WordsComeBack, where the mailbox test is what runs.
EchoComesBack == program = "mail" => WordsComeBack
=============================================================================
