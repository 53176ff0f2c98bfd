-------------------------------- MODULE Boot --------------------------------
(***************************************************************************)
(* A board starting: main runs its program (module Programs) up to          *)
(* vTaskStartScheduler, then the tasks run, each up to the end of its first *)
(* round.  Any call may fail, at most MaxFailures of them do.  The          *)
(* configuration is one that Kconfig allows: what a board can select, less  *)
(* up to MaxOff options and what depends on them, or a shipped one.         *)
(*                                                                          *)
(* The tasks run one after the other in the order of their creation: before *)
(* their loops they have no device in common that one makes and another     *)
(* uses, so the order makes no difference to what is said here.             *)
(***************************************************************************)
EXTENDS Programs, FiniteSets, FiniteSetsExt, TLC

CONSTANTS Boards, MaxOff, MaxFailures

ASSUME BootAssumption ==
    /\ Boards \subseteq {"vf610", "s32k", "kv4x", "stm32", "am57xx", "imx6", "linux", "c28x", "m0", "riscv-qemu",
                         "polarfire"}
    /\ MaxOff \in Nat /\ MaxFailures \in Nat

VARIABLES
    board, config,      \* what was built
    code, pc,           \* the function that runs, and its step
    ready,              \* the tasks that wait for their first round
    made,               \* devices and tasks that exist
    claims,             \* <<device, function that obtained it>>
    stored,             \* <<storage, task, stack, room>> of the tasks created
    missing,            \* what was used although it did not exist
    failures,           \* number of calls that failed
    phase               \* "boot", "run", "up", "asserted", "crashed"
bootVars == <<board, config, code, pc, ready, made, claims, stored, missing, failures, phase>>

-----------------------------------------------------------------------------
Main(b, c) ==
    CASE b = "vf610" -> vf610_main(c) [] b = "s32k" -> s32k_main(c)
      [] b = "kv4x" -> kv4x_main(c)   [] b = "stm32" -> stm32_main(c)
      [] b = "am57xx" -> am57xx_main(c) [] b = "imx6" -> imx6_main(c)
      [] b = "linux" -> linux_main(c) [] b = "c28x" -> c28x_main(c)
      [] b = "m0" -> m0_main(c)       [] b = "riscv-qemu" -> riscv_main(c)
      [] b = "polarfire" -> polarfire_main(c)
Tasks(b, c) ==
    CASE b = "vf610" -> vf610_tasks(c) [] b = "s32k" -> s32k_tasks(c)
      [] b = "kv4x" -> kv4x_tasks(c)   [] b = "stm32" -> stm32_tasks(c)
      [] b = "am57xx" -> am57xx_tasks(c) [] b = "imx6" -> imx6_tasks(c)
      [] b = "linux" -> linux_tasks(c) [] b = "c28x" -> c28x_tasks(c)
      [] b \in {"m0", "polarfire"} -> [none |-> <<>>] [] b = "riscv-qemu" -> riscv_tasks(c)
Task(b, c, t) == IF t \in DOMAIN Tasks(b, c) THEN Tasks(b, c)[t] ELSE <<>>

-----------------------------------------------------------------------------
(* The configurations: the options a board has (those that change what the  *)
(* programs do), the choices, and what an option depends on.                *)

Common == {"GPIO", "UART", "NEWLIB", "STATS"}
Options(b) ==
    CASE b = "vf610" -> Common \union {"FLEXTIMER", "PWM", "BUFFERTEST", "BUFFERTEST_SELF", "BUFFERTEST_IRQ",
            "TTY_BUFFERTEST", "IRQTEST", "PPM", "PWM_TEST", "RC", "RCTEST", "SPITEST", "MPUTEST", "ADCTEST",
            "TPSTEST", "UARTTEST", "LINUX_CON", "SPEEDTEST"}
      [] b = "s32k" -> Common \union {"PWM", "PTC15", "DELAY_UNTIL", "LPUART_TEST", "TIMER_TEST", "TIMER_TEST_PWM",
            "CAPTURE_TEST", "SPI_TEST", "SINGLE_BYTE", "ADC_TEST", "LTC6811_TEST", "CAN_TEST"}
      [] b = "kv4x" -> Common \union {"LED_TASK", "CAN_TEST"}
      [] b = "stm32" -> Common \union {"PWM", "DELAY_UNTIL", "TIMER_TEST"}
      [] b = "am57xx" -> Common \union {"DELAY_UNTIL", "IPU_CPU0", "RPROC_TEST", "MAILBOX_TEST", "BOARD_TEST", "SPI_TEST",
            "TIMER_TEST", "TIMER10_PWM", "MPU_TEST", "RTC_SOFTWARE_TEST", "SOFTWARE_CAPTURE_TEST",
            "CAN_TEST", "CAN_DISABLE"}
      [] b = "imx6" -> Common \union {"PWM", "DELAY_UNTIL", "MAILBOX_TEST", "RPROC_TEST"}
      [] b = "linux" -> Common \union {"ADC_TEST_TASK"}
      [] b = "c28x" -> {"CAN_TEST", "CAN_DISABLE"}
      [] b = "m0" -> Common
      [] b = "riscv-qemu" -> Common \union {"UART_TEST", "TIMER_TEST", "FLOAT_TEST"}
      [] b = "polarfire" -> Common \union {"FLOAT_TEST"}
Variants(b) ==
    CASE b = "s32k" -> {{"EVM", x} : x \in {"STDOUT", "STDOUT_UART1"}} \union {{"BMS_R0"}, {}}
      [] b = "kv4x" -> {{"UNI_BOARD"}, {"MC_BOARD"}, {}}
      [] b = "stm32" -> {{"NUCLEO"}, {"PHOTON"}, {"DISCOVERY"}}
      [] b = "am57xx" -> {{"TIMER11_CAPTURE"}, {"TIMER11_PWM"}, {}}
      [] b = "imx6" -> {{"PHY_TEST"}, {"ENET_TEST"}, {}}
      [] b = "c28x" -> {{"CAN_TEST_ECHO"}, {"CAN_TEST_RECV"}, {"CAN_TEST_SEND"}, {"CAN_TEST_TOGGLE_PIN"}, {}}
      [] b = "riscv-qemu" -> {{"STDOUT_UART0"}, {"STDOUT_SBI"}}
      [] OTHER -> {{}}
Needs(b) ==
    [NEWLIB |-> {"UART"}, STDOUT_UART1 |-> {"UART"}, BUFFERTEST_SELF |-> {"BUFFERTEST"},
     BUFFERTEST_IRQ |-> {"BUFFERTEST"}, TTY_BUFFERTEST |-> {"BUFFERTEST"}, RC |-> {"FLEXTIMER"},
     RCTEST |-> {"RC", "FLEXTIMER"}, PPM |-> {"GPIO"}, PWM_TEST |-> {"PWM"}, UARTTEST |-> {"UART"},
     TIMER_TEST |-> IF b = "s32k" THEN {"GPIO"} ELSE {}, TIMER_TEST_PWM |-> {"TIMER_TEST", "PWM", "GPIO"},
     CAPTURE_TEST |-> {"TIMER_TEST", "GPIO"}, SINGLE_BYTE |-> {"SPI_TEST"}, LED_TASK |-> {"GPIO"},
     TIMER10_PWM |-> {"TIMER_TEST"}, CAN_TEST_ECHO |-> {"CAN_TEST"}, CAN_TEST_RECV |-> {"CAN_TEST"},
     CAN_TEST_SEND |-> {"CAN_TEST"}, CAN_TEST_TOGGLE_PIN |-> {"CAN_TEST"}]
Allowed(b, c) ==
    {o \in c : /\ o \in DOMAIN Needs(b) => Needs(b)[o] \subseteq c
               /\ ~(o = "LPUART_TEST" /\ "STDOUT_UART1" \in c)}
Shipped(b) ==
    CASE b = "vf610" -> {Common \union {"FLEXTIMER", "PWM"}, {"FLEXTIMER", "GPIO", "UART", "NLIBC", "PWM"},
                         {"FLEXTIMER", "GPIO", "UART", "NEWLIB", "PWM", "SPEEDTEST"}}
      [] b = "s32k" -> {{"GPIO", "UART", "NEWLIB", "ADC_TEST", "PWM", "TIMER_TEST", "TIMER_TEST_PWM", "EVM"},
                        {"GPIO", "UART", "NEWLIB", "CAN_TEST", "EVM"},
                        {"GPIO", "UART", "NEWLIB", "PWM", "PTC15", "SPI_TEST", "BMS_R0", "DELAY_UNTIL"}}
      [] b = "stm32" -> {{"GPIO", "PWM", "DELAY_UNTIL", "UART", "DISCOVERY"}}
      [] b = "am57xx" -> {{"GPIO", "PWM", "UART", "DELAY_UNTIL", "RPROC_TEST", "RTC_SOFTWARE_TEST"}}
      [] OTHER -> {}
Configs(b) ==
    Shipped(b) \union
    {Allowed(b, (Options(b) \union choice) \ off) :
        choice \in Variants(b), off \in UNION {kSubset(k, Options(b)) : k \in 0..MaxOff}}

-----------------------------------------------------------------------------
BootInit ==
    /\ board \in Boards /\ config \in Configs(board)
    /\ code = Main(board, config) /\ pc = 1 /\ ready = <<>>
    /\ made = {} /\ claims = {} /\ stored = {} /\ missing = {} /\ failures = 0
    /\ phase = "boot"

Running == phase \in {"boot", "run"}
Now == code[pc]

\* The call succeeds: what it makes exists.
Succeed ==
    /\ made' = made \union Now.makes
    /\ claims' = IF Now.stack > 0 THEN claims ELSE claims \union {<<d, Now.by>> : d \in Now.makes}
    /\ stored' = IF Now.storage = "none" THEN stored
                 ELSE stored \union {<<Now.storage, t, Now.stack, Now.room>> : t \in Now.makes}
    /\ ready' = IF Now.stack = 0 THEN ready ELSE Append(ready, CHOOSE t \in Now.makes : TRUE)
    /\ IF Now.fail = "refuse" THEN phase' = "asserted" /\ pc' = pc ELSE phase' = phase /\ pc' = pc + 1
    /\ UNCHANGED failures

\* The call fails, and the code asserts the result, returns, repeats the call or goes on.
Fail ==
    /\ failures < MaxFailures /\ failures' = failures + 1
    /\ CASE Now.fail = "assert" -> phase' = "asserted" /\ pc' = pc
         [] Now.fail = "return" -> phase' = phase /\ pc' = pc + 1 + Now.skip
         [] Now.fail = "retry" -> phase' = phase /\ pc' = pc
         [] OTHER -> phase' = phase /\ pc' = pc + 1
    /\ UNCHANGED <<made, claims, stored, ready>>

\* A device that does not exist is NULL: the driver may notice, or the board crash.
Call ==
    /\ Running /\ pc <= Len(code)
    /\ missing' = missing \union (Now.uses \ made)
    /\ \/ Succeed
       \/ Fail
       \/ /\ ~(Now.uses \subseteq made)
          /\ phase' = "crashed" /\ UNCHANGED <<pc, made, claims, stored, ready, failures>>
    /\ UNCHANGED <<board, config, code>>

\* main reaches vTaskStartScheduler, or a task the end of its first round.
Schedule ==
    /\ Running /\ pc > Len(code)
    /\ IF ready = <<>> THEN phase' = "up" /\ UNCHANGED <<code, pc, ready>>
       ELSE /\ phase' = "run" /\ code' = Task(board, config, Head(ready))
            /\ ready' = Tail(ready) /\ pc' = 1
    /\ UNCHANGED <<board, config, made, claims, stored, missing, failures>>

Ended == ~Running /\ UNCHANGED bootVars

BootNext == Call \/ Schedule \/ Ended
BootSpec == BootInit /\ [][BootNext]_bootVars

-----------------------------------------------------------------------------
(* Properties *)

When(cond, devices) == IF cond THEN devices ELSE {}

\* Two tasks never live in the storage of one, and none asks for a larger stack than its
\* storage has.  The exceptions are pwmtest.c, which creates pwmTask in the storage it gave
\* rcTask when RC is selected, and two stacks of twice the size of their storage
\* (vf610/mputest.c:70, polarfire/test.c:89).
StorageOwned ==
    \A s \in stored :
        /\ s[4] < s[3] => <<board, s[2]>> \in {<<"vf610", "mputest_task">>, <<"polarfire", "taskManTask">>}
        /\ \A t \in stored :
              s[1] = t[1] => s = t \/ ({"PWM_TEST", "RC"} \subseteq config /\ {s[2], t[2]} = {"rcTask", "pwmTask"})

\* What two functions of one program both obtain: a bank of pins, and what only these
\* combinations share, which nothing in Kconfig or the code keeps apart.  Pins among them:
\* the LED the board test drives as well (am57xx/boardtest.c:37), a pin initGPIO takes that
\* a PWM channel puts out on (PTB0 with the speed test, which the tick hook toggles
\* meanwhile, and PTC15 of the BMS board: both in configurations the repository ships),
\* and CAN's TX pin, held high by main and toggled by the test (c28x).
Shared(b, c) ==
    {"gpio"} \union
    CASE b = "vf610" -> {"timer0", "uart1"}
                        \union When({"PWM_TEST", "SPEEDTEST"} \subseteq c, {"pwm0"})
                        \union When("SPEEDTEST" \in c /\ {"GPIO", "PWM_TEST"} \intersect c # {}, {"PTB0"})
                        \union When({"SPITEST", "MPUTEST"} \subseteq c, {"spi1", "spi1.1", "spi1.2"})
      [] b = "s32k" -> When("TIMER_TEST_PWM" \in c, {"PTD15", "PTD16", "PTD0"})
                       \union When({"GPIO", "BMS_R0"} \subseteq c /\ s32k_PWM(c), {"PTC15"})
      [] b = "am57xx" -> When({"RTC_SOFTWARE_TEST", "SOFTWARE_CAPTURE_TEST"} \subseteq c, {"rtc"})
                         \union When("SOFTWARE_CAPTURE_TEST" \in c, {"MCASP1_AXR13"})
                         \union When({"GPIO", "BOARD_TEST"} \subseteq c, {"GPMC_A17"})
      [] b = "c28x" -> When({"CAN_DISABLE", "CAN_TEST_TOGGLE_PIN"} \subseteq c, {"GPIO_31"})
      [] b = "imx6" -> When({"MAILBOX_TEST", "RPROC_TEST"} \subseteq c, {"mailbox0"})
      [] b = "riscv-qemu" -> When({"UART_TEST", "STDOUT_UART0"} \subseteq c, {"uart0"})
      [] OTHER -> {}
\* But for those, nothing built into one program takes a device from another part: am57xx builds its board
\* test without the pins of the timer test (boardtest.c:11-16), and Kconfig keeps the UART
\* test of the s32k from the UART of the console.
DevicesOwned ==
    \A x, y \in claims : x[1] = y[1] => x = y \/ x[1] \in Shared(board, config)

\* Whatever is selected, the parts of a program share no storage and no device but those
\* the two definitions above name.
TestsKeepApart == StorageOwned /\ DevicesOwned

\* Devices the code uses although no option makes them: the LED's PWM channel is made under
\* another condition than the one under which ledTask uses it, or not at all.
Holes(b, c) ==
    CASE b = "vf610" -> When("PWM" \in c /\ ("PWM_TEST" \in c \/ "FLEXTIMER" \notin c), {"pwm3"})
      [] b = "s32k" -> When("PWM" \in c, {"pwm.PTC15"}) \union When("TIMER_TEST" \in c, {"noLED"})
      [] b = "imx6" -> {"pwm"}
      [] OTHER -> {}
\* Devices whose creation may fail without the code noticing.
Unchecked(b) ==
    CASE b = "vf610" -> {"rc", "uart0", "uart1", "timer0", "timer1", "ppm"}
      [] b = "s32k" -> {"lpspi0"}
      [] b = "am57xx" -> {"timer10", "trace", "dcan1", "gpio"}
      [] b = "imx6" -> {"mii", "clock", "enet2", "uart2"}
      [] b = "stm32" -> {"stdout"} [] b = "c28x" -> {"gpio", "can_test_messages"} [] b = "m0" -> {"uart0"}
      [] OTHER -> {}
\* A device is used only when it was obtained, whatever is selected and whatever fails:
\* the init functions end at the first error, their callers assert the results, and the
\* tests start after what they use, but for what the two tables above name.
UsesWhatExists ==
    missing \subseteq Holes(board, config) \union (IF failures = 0 THEN {} ELSE Unchecked(board))

\* An assertion stops a program only when a call has failed.
AssertionsHold == phase = "asserted" => failures > 0
=============================================================================
