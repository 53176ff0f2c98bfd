------------------------------ MODULE Programs ------------------------------
(***************************************************************************)
(* What each board's main, and the functions it calls, do before and after  *)
(* the scheduler starts: the calls that obtain a device, use one or create  *)
(* a task, in the order of the code, with what the code does when a call    *)
(* fails.  A program is a sequence of such steps.  c is the set of options  *)
(* the configuration selects; If(b, s) is an #ifdef.                        *)
(*                                                                          *)
(* Left out: output, pin levels, constants passed to drivers.  A task that  *)
(* loops is listed up to the end of its first round.                        *)
(***************************************************************************)
EXTENDS Integers, Sequences

(***************************************************************************)
(* A step: the device or task it makes, the devices it uses, and "fail":    *)
(* "assert" stops the system, "return" leaves the function (skip steps are  *)
(* left out), "drop" ignores the result, "retry" repeats the call,          *)
(* "refuse" stops the system when the call succeeds.  For a task: the       *)
(* storage OS_CREATE_TASK names, the stack it asks for and the room         *)
(* OS_DEFINE_TASK gave that storage.                                        *)
(***************************************************************************)
Step(makes, uses, fail) ==
    [makes |-> makes, uses |-> uses, fail |-> fail, skip |-> 0, by |-> "none",
     storage |-> "none", stack |-> 0, room |-> 0]
Make(d, uses, fail) == <<Step({d}, uses, fail)>>
Each(ds, uses, fail) == [i \in DOMAIN ds |-> Step({ds[i]}, uses, fail)]
\* A PWM channel, and the pin it puts out on.
Channel(channel, pin, fail) == <<Step({channel, pin}, {}, fail)>>
Set(uses, fail, n) == [i \in 1..n |-> Step({}, uses, fail)]
Start(task, uses, fail, storage, stack, room) ==
    <<[Step({task}, uses, fail) EXCEPT !.storage = storage, !.stack = stack, !.room = room]>>
If(b, steps) == IF b THEN steps ELSE <<>>

\* A function: its early returns skip what is left of it, its steps bear its name.
Fn(name, steps) ==
    [i \in DOMAIN steps |->
        IF steps[i].by # "none" THEN steps[i]
        ELSE [steps[i] EXCEPT !.by = name, !.skip = IF steps[i].fail = "return" THEN Len(steps) - i ELSE 0]]
\* (mutant) the caller forgets to
Asserted_not(steps) == steps
\* A call whose caller asserts the result.
Asserted(steps) ==
    [i \in DOMAIN steps |-> [steps[i] EXCEPT !.fail = IF @ = "return" THEN "assert" ELSE @]]

Console(c, uart, fail) ==
    If("UART" \in c, Make(uart, {}, fail))
    \o If("NEWLIB" \in c, Set({uart}, "assert", 1))
    \o If("NLIBC" \in c, Set({uart}, "assert", 1))
Manager(c, stack, fail) == If("STATS" \in c, Start("taskManTask", {}, fail, "taskMan", stack, 512))

-----------------------------------------------------------------------------
(* vf610 *)

vf610_initGPIO(c) ==
    Fn("initGPIO",
       Make("gpio", {}, "return") \o Set({}, "return", 1)
       \o If("PWM_TEST" \notin c, Each(<<"PTB0", "PTB2">>, {"gpio"}, "return"))
       \o Each(<<"PTA18", "PTA19", "PTB17">>, {"gpio"}, "return"))
vf610_bufferInit(c) ==
    Fn("bufferInit",
       If("BUFFERTEST_SELF" \in c,
          Each(<<"buffer1", "buffer2">>, {}, "assert")
          \o Start("buffer1Test", {}, "drop", "buffer1TestTask", 512, 512)
          \o Start("buffer2Test", {}, "drop", "buffer2TestTask", 512, 512))
       \o Each(<<"bufferRX", "bufferTX">>, {}, "assert")
       \o If("BUFFERTEST_IRQ" \in c, Start("bufferIRQTest", {}, "drop", "bufferIRQTask", 512, 512))
       \o If("TTY_BUFFERTEST" \in c, Start("bufferTTYTest", {}, "drop", "bufferTTYTask", 512, 512)))
vf610_bufferInit2 ==
    Fn("bufferInit2",
       Each(<<"buffer3", "buffer4">>, {}, "drop")
       \o Start("buffer3Test", {}, "drop", "buffer3TestTask", 512, 512)
       \o Start("buffer4Test", {}, "drop", "buffer4TestTask", 512, 512))
vf610_irqtest_init ==
    Fn("irqtest_init",
       Make("irqtest.sem", {}, "return") \o Start("pingTask", {}, "drop", "taskPing", 512, 512))
vf610_ppm_init ==
    Fn("ppm_init",
       Make("ppm.memory", {}, "return") \o Make("timer0", {}, "return") \o Set({"timer0"}, "return", 1)
       \o Make("ppm", {"PTA19"}, "return") \o Start("ppm_task", {"ppm"}, "drop", "ppm->task", 512, 512))
vf610_pwmtest_init(c) ==
    Fn("pwmtest_init",
       Make("timer1", {}, "drop") \o Make("timer0", {}, "return") \o Set({"timer0"}, "assert", 1)
       \o Channel("pwm0", "PTB0", "assert") \o Each(<<"pwm2", "pwm1">>, {}, "assert")
       \o Set({"pwm0"}, "assert", 1) \o Set({"pwm1"}, "assert", 1) \o Set({"pwm2"}, "assert", 1)
       \o (IF "RC" \notin c
           THEN Make("timer3", {}, "return") \o Set({"timer3"}, "assert", 4)
           ELSE Make("rc", {"timer1"}, "drop") \o Make("capture2", {}, "assert")
                \o Set({"rc", "capture2"}, "assert", 1)
                \o Start("rcTask", {"rc"}, "drop", "rcTestTask", 512, 512))
       \o Start("pwmTask", {}, "drop", "rcTestTask", 512, 512))
rcInit ==
    Fn("rcInit",
       Make("rc", {"timer1"}, "drop")
       \o Each(<<"capture5", "capture4", "capture3", "capture2", "capture7", "capture6">>, {}, "assert")
       \o Set({"rc"}, "assert", 6) \o Start("rcTestTask", {"rc"}, "drop", "rcTask", 512, 512))
vf610_spitest_init ==
    Fn("spitest_init",
       Make("spi1", {}, "assert") \o Each(<<"spi1.0", "spi1.1", "spi1.2">>, {"spi1"}, "assert")
       \o Start("spiTask", {"spi1.0", "spi1.1", "spi1.2"}, "drop", "taskSPI", 512, 512))
vf610_spiTask ==
    Set({"spi1.0"}, "assert", 2) \o Set({"spi1.1"}, "assert", 2)
    \o Set({"spi1.2"}, "assert", 1) \o Set({"spi1.1"}, "assert", 1)
vf610_mputest_init == Fn("mputest_init", Start("mputest_initTask", {}, "assert", "mpuInitTask", 512, 512))
vf610_mputest_initTask ==
    Fn("mputest_initTask",
       Make("spi1", {}, "assert") \o Each(<<"spi1.1", "spi1.2">>, {"spi1"}, "assert")
       \o Each(<<"mpu", "accel", "gyro">>, {}, "assert")
       \o Start("mputest_task", {"mpu"}, "drop", "mpuTask", 1024, 512))
adctest_init ==
    Fn("adctest_init",
       Make("adc0", {}, "assert") \o Start("adctestTask", {"adc0"}, "drop", "adcTask", 512, 512))
tpstest_init == Fn("tpstest_init", Start("tpstest_initTask", {}, "drop", "tpsInitTask", 512, 512))
tpstest_initTask ==
    Fn("tpstest_initTask",
       Make("spi0", {}, "assert") \o Make("spi0.0", {"spi0"}, "assert") \o Make("tps", {"spi0.0"}, "assert")
       \o Make("adc1", {}, "assert") \o Start("tpstest_task", {}, "drop", "tpsTask", 512, 512))
uarttest_init ==
    Fn("uarttest_init",
       Start("uart_test1", {}, "drop", "uartTask1", 512, 512)
       \o Start("uart_test2", {}, "drop", "uartTask2", 512, 512))
lc_init ==
    Fn("lc_init",
       Each(<<"lc.RX", "lc.TX">>, {}, "return")
       \o Start("lcTask", {"lc.RX"}, "drop", "LCTask", 500, 500))
speedtest_init ==
    Fn("speedtest_init",
       Make("timer0", {}, "assert") \o Channel("pwm0", "PTB0", "assert")
       \o Make("gpio", {}, "assert") \o Make("PTD25", {"gpio"}, "assert")
       \o Set({"PTD25"}, "assert", 1) \o Set({"pwm0"}, "assert", 2)
       \o Start("speedtest_task", {"pwm0"}, "drop", "task", 500, 500)
       \o Each(<<"semaphore", "event">>, {}, "assert"))
vf610_main(c) ==
    Fn("main",
       Set({}, "assert", 1) \o Console(c, "uart1", "drop")
       \o If("GPIO" \in c, Asserted(vf610_initGPIO(c)))
       \o If("BUFFERTEST" \in c, vf610_bufferInit(c))
       \o If("IRQTEST" \in c, vf610_irqtest_init)
       \o If("PPM" \in c, vf610_ppm_init \o Set({"ppm", "timer0"}, "drop", 1))
       \o If("PWM_TEST" \in c, vf610_pwmtest_init(c))
       \o If("PWM_TEST" \notin c /\ "FLEXTIMER" \in c,
             Each(<<"timer1", "pwm3">>, {}, "assert") \o Set({"pwm3"}, "assert", 2)
             \o If("RCTEST" \in c, rcInit))
       \o If({"GPIO", "PWM"} \intersect c # {}, Start("ledTask", {}, "drop", "taskLED", 128, 128))
       \o Manager(c, 512, "drop")
       \o If("SPITEST" \in c, vf610_spitest_init)
       \o If("MPUTEST" \in c, vf610_mputest_init)
       \o If("ADCTEST" \in c, adctest_init)
       \o If("TPSTEST" \in c, tpstest_init)
       \o If("UARTTEST" \in c, uarttest_init)
       \o If("LINUX_CON" \in c, lc_init)
       \o If("SPEEDTEST" \in c, speedtest_init))
vf610_ledRound(c) ==
    If("PWM" \in c, Set({"pwm3"}, "assert", 1)) \o If("GPIO" \in c, Set({"PTB17"}, "drop", 1))
vf610_mputest_task == Set({"mpu"}, "assert", 2)
adctestTask == Set({"adc0"}, "assert", 1)
tpstest_task == Set({"tps", "adc1"}, "assert", 8)
uart_test1 == Fn("uart_test1", Make("uart0", {}, "drop") \o Set({"uart0"}, "drop", 1))
uart_test2 == Fn("uart_test2", Make("uart1", {}, "drop") \o Set({"uart1"}, "drop", 1))
pwmRound == Set({"pwm0"}, "assert", 1) \o Set({"pwm1"}, "assert", 1) \o Set({"pwm2"}, "assert", 1)
rcTestTask == Set({"rc"}, "drop", 8)
rcTask == Set({"rc"}, "drop", 1)
vf610_tasks(c) ==
    [ledTask |-> vf610_ledRound(c), spiTask |-> vf610_spiTask,
     mputest_initTask |-> vf610_mputest_initTask, mputest_task |-> vf610_mputest_task,
     adctestTask |-> adctestTask, tpstest_initTask |-> tpstest_initTask, tpstest_task |-> tpstest_task,
     uart_test1 |-> uart_test1, uart_test2 |-> uart_test2, buffer2Test |-> vf610_bufferInit2,
     pwmTask |-> pwmRound, rcTestTask |-> rcTestTask, rcTask |-> rcTask,
     lcTask |-> Set({"lc.RX"}, "drop", 1)]

-----------------------------------------------------------------------------
(* s32k *)

s32k_initGPIO(c) ==
    Fn("initGPIO",
       Make("gpio", {}, "return")
       \o If("EVM" \in c, Make("PTC12", {"gpio"}, "return") \o Set({"PTC12"}, "return", 2)
                          \o Each(<<"PTD15", "PTD16", "PTD0">>, {"gpio"}, "return"))
       \o If("BMS_R0" \in c, Each(<<"PTC17", "PTC16", "PTC15">>, {"gpio"}, "return")))
s32k_leds(c) ==
    IF "EVM" \in c THEN {"PTD15", "PTD16", "PTD0"}
    ELSE IF "BMS_R0" \in c THEN {"PTC17", "PTC16", "PTC15"} ELSE {"noLED"}
lpuarttest_init ==
    Fn("lpuarttest_init",
       Make("lpuart1", {}, "assert") \o Start("echoTask", {"lpuart1"}, "assert", "echo", 512, 512))
s32k_timertest_init(c) ==
    Fn("timertest_init",
       Make("flextimer0", {}, "assert") \o Set({"flextimer0"}, "assert", 1)
       \o (IF "TIMER_TEST_PWM" \in c
           THEN Each(<<"PTD15", "PTD16", "PTD0">>, {}, "assert") \o Set({"PTD15"}, "assert", 1)
           ELSE Set(s32k_leds(c), "drop", 1) \o Set({"flextimer0"}, "assert", 1))
       \o If("CAPTURE_TEST" \in c, Make("PTC3", {}, "assert") \o Set({"PTC3"}, "assert", 1)))
s32k_spitest_init(c) ==
    Fn("spitest_init",
       Make("lpspi0", {}, "drop") \o Make("lpspi0.0", {"lpspi0"}, "assert")
       \o If("SINGLE_BYTE" \in c, Make("gpio", {}, "assert") \o Make("PTB5", {"gpio"}, "assert"))
       \o Start("spiTask", {"lpspi0.0"}, "drop", "taskSPI", 512, 512))
ltc6811_test == Fn("ltc6811_test", Each(<<"ltc", "ltc.0", "ltc.1">>, {}, "assert"))
can_test ==
    Fn("can_test", Make("can", {}, "assert") \o Start("can_task", {"can"}, "drop", "taskCAN", 512, 512))
adc_test ==
    Fn("adc_test", Make("adc0", {}, "assert") \o Start("adc_task", {"adc0"}, "drop", "taskADC", 512, 512))
s32k_PWM(c) == {"PWM", "PTC15"} \subseteq c /\ "TIMER_TEST" \notin c
s32k_main(c) ==
    Fn("main",
       Set({}, "assert", 1) \o Console(c, IF "STDOUT_UART1" \in c THEN "lpuart1" ELSE "stdout", "assert")
       \o If("GPIO" \in c, Asserted(s32k_initGPIO(c)))
       \o If(s32k_PWM(c), Make("flextimer1", {}, "assert") \o Channel("pwm.PTC15", "PTC15", "assert")
                          \o Set({"pwm.PTC15"}, "assert", 2))
       \o If(("GPIO" \in c \/ {"PWM", "PTC15"} \subseteq c) /\ "DELAY_UNTIL" \in c /\ "TIMER_TEST" \notin c,
             Start("ledTask", {}, "drop", "taskLED", 128, 128))
       \o Manager(c, 512, "drop")
       \o If("LPUART_TEST" \in c, lpuarttest_init)
       \o If("TIMER_TEST" \in c, s32k_timertest_init(c))
       \o If("SPI_TEST" \in c, s32k_spitest_init(c))
       \o If("LTC6811_TEST" \in c, ltc6811_test)
       \o If("CAN_TEST" \in c, can_test)
       \o If("ADC_TEST" \in c, adc_test))
s32k_ledRound(c) == If("PWM" \in c, Set({"pwm.PTC15"}, "assert", 1))
s32k_echoTask == Set({"lpuart1"}, "drop", 2) \o Set({"lpuart1"}, "assert", 2)
adc_task == Set({"adc0"}, "drop", 1)
s32k_spiTask == Set({"lpspi0.0"}, "assert", 1)
s32k_tasks(c) ==
    [ledTask |-> s32k_ledRound(c), echoTask |-> s32k_echoTask, adc_task |-> adc_task,
     spiTask |-> s32k_spiTask, can_task |-> Set({"can"}, "assert", 2)]

-----------------------------------------------------------------------------
(* kv4x *)

kv4x_leds(c) ==
    IF "UNI_BOARD" \in c THEN <<"PTA4", "PTA5", "PTA12">>
    ELSE IF "MC_BOARD" \in c THEN <<"PTB16", "PTB17">> ELSE <<>>
kv4x_initGPIO(c) == Fn("initGPIO", Make("gpio", {}, "return") \o Each(kv4x_leds(c), {"gpio"}, "return"))
kv4x_main(c) ==
    Fn("main",
       Set({}, "assert", 1) \o Console(c, "stdout", "assert")
       \o If("LED_TASK" \in c, Asserted(kv4x_initGPIO(c)) \o Start("ledTask", {}, "drop", "taskLED", 128, 128))
       \o Manager(c, 512, "drop")
       \o If("CAN_TEST" \in c, can_test))
kv4x_tasks(c) == [can_task |-> Set({"can"}, "assert", 2)]

-----------------------------------------------------------------------------
(* stm32 *)

stm32_initGPIO(c) ==
    LET button == IF "DISCOVERY" \in c THEN "PTA0" ELSE "PTC13"
        led    == IF "DISCOVERY" \in c THEN "PTD14" ELSE "PTA5" IN
    Fn("initGPIO",
       Make("gpio", {}, "return") \o Set({}, "return", 1)
       \o Make(button, {"gpio"}, "return") \o Set({button}, "return", 2)
       \o Make(led, {"gpio"}, "return"))
stm32_main(c) ==
    Fn("main",
       Set({}, "assert", 1) \o Console(c, "stdout", "drop")
       \o If("GPIO" \in c, Asserted(stm32_initGPIO(c)))
       \o If("PWM" \in c /\ "TIMER_TEST" \notin c,
             Each(<<"timer4", "pwm4.4">>, {}, "assert") \o Set({"pwm4.4"}, "assert", 2))
       \o If({"GPIO", "PWM"} \intersect c # {} /\ "DELAY_UNTIL" \in c /\ "TIMER_TEST" \notin c,
             Start("ledTask", {}, "drop", "taskLED", 128, 128))
       \o Manager(c, 512, "drop"))
stm32_ledRound(c) ==
    If("PWM" \in c, Set({"pwm4.4"}, "assert", 1))
    \o If("GPIO" \in c, Set({IF "DISCOVERY" \in c THEN "PTD14" ELSE "PTA5"}, "drop", 1))
stm32_tasks(c) == [ledTask |-> stm32_ledRound(c)]

-----------------------------------------------------------------------------
(* am57xx *)

am57xx_initGPIO ==
    Fn("initGPIO", Make("gpio", {}, "return") \o Make("GPMC_A17", {"gpio"}, "return"))
am57xx_mailbox_test ==
    Fn("mailbox_test",
       Each(<<"mailbox5.2", "mailbox5.3">>, {}, "assert")
       \o Start("mailbox_testTask", {"mailbox5.2", "mailbox5.3"}, "assert", "mailboxTask", 512, 512))
am57xx_rprocTest_init(c) ==
    Fn("rprocTest_init",
       If("IPU_CPU0" \in c, Each(<<"mailbox5.6", "mailbox5.4">>, {}, "assert")
                            \o Make("rproc", {"mailbox5.6", "mailbox5.4"}, "assert")))
\* (mutant) the board test takes all pins, whatever else is built
am57xx_boardtest_init_takesAll(c) ==
    Fn("boardtest_init",
       Make("gpio", {}, "assert") \o Each(<<"MCASP1_AXR13", "MCASP1_AXR14">>, {"gpio"}, "assert"))
\* The first pins of pinIds: the two of the receiver, left to the timer test when it is
\* built (boardtest.c:11-16), and those nothing else uses, which stand for one device.
boardtest_pins(c) ==
    If("TIMER_TEST" \notin c, Each(<<"MCASP1_AXR13", "MCASP1_AXR14">>, {"gpio"}, "assert"))
    \o Make("board.pins", {"gpio"}, "assert")
\* pinIds ends in the pin of the LED (line 37).  The loop over the buttons obtains the
\* first pins of pinIds once more (line 103), no pin of buttonIDs.
am57xx_boardtest_init(c) ==
    Fn("boardtest_init",
       Make("gpio", {}, "assert") \o boardtest_pins(c) \o Make("GPMC_A17", {"gpio"}, "assert")
       \o boardtest_pins(c) \o Set({"board.pins"}, "assert", 1)
       \o Start("boardtest_task", {}, "assert", "boardTask", 512, 512))
am57xx_spitest_init ==
    Fn("spitest_init",
       Make("spi4", {}, "assert") \o Each(<<"spi4.0", "spi4.1", "spi4.3">>, {"spi4"}, "assert")
       \o Start("spiTask", {"spi4.0", "spi4.1", "spi4.3"}, "drop", "SPITask", 512, 512))
am57xx_spiTask ==
    Set({"spi4.0"}, "assert", 2) \o Set({"spi4.1"}, "assert", 2) \o Set({"spi4.3"}, "assert", 2)
am57xx_timertest_init(c) ==
    Fn("timertest_init",
       If("TIMER10_PWM" \notin c, Make("gpio", {}, "drop"))
       \o Make("timer10", {}, "drop")
       \o (IF "TIMER10_PWM" \notin c
           THEN Make("MCASP1_AXR13", {"gpio"}, "assert") \o Set({"timer10"}, "assert", 1)
           ELSE Make("pwm10", {}, "assert") \o Set({"pwm10"}, "assert", 2))
       \o If("TIMER11_CAPTURE" \in c,
             Each(<<"timer11", "capture11">>, {}, "assert") \o Set({"capture11"}, "assert", 2))
       \o If("TIMER11_PWM" \in c, Each(<<"timer11", "pwm11">>, {}, "assert") \o Set({"pwm11"}, "assert", 2))
       \o If({"TIMER11_CAPTURE", "TIMER11_PWM"} \intersect c = {},
             Make("gpio", {}, "assert") \o Make("MCASP1_AXR14", {"gpio"}, "assert")
             \o Set({"MCASP1_AXR14"}, "assert", 2))
       \o Set({"timer10"}, "assert", 1)
       \o If({"TIMER11_CAPTURE", "TIMER11_PWM"} \intersect c # {}, Set({"timer11"}, "assert", 1))
       \o Start("timertest_task", {}, "refuse", "timerTask", 786, 786))
am57xx_mputest_init == Fn("mputest_init", Start("mputest_initTask", {}, "assert", "mpuInitTask", 1024, 1024))
am57xx_mputest_initTask ==
    Fn("mputest_initTask",
       Make("spi1", {}, "assert") \o Make("spi1.1", {"spi1"}, "assert")
       \o Make("mpu", {}, "retry") \o Each(<<"accel", "gyro">>, {}, "assert")
       \o Start("mputest_task", {"mpu"}, "assert", "mpuTask", 1024, 1024))
rtctest_init ==
    Fn("rtctest_init",
       Each(<<"timer14", "rtc">>, {}, "assert") \o Start("rtctest_task", {}, "assert", "rtctask", 500, 500))
softwareCaptureTest_init ==
    Fn("softwareCaptureTest_init",
       Make("gpio", {}, "assert") \o Make("MCASP1_AXR13", {"gpio"}, "assert")
       \o Each(<<"timer2", "rtc", "capture">>, {}, "assert")
       \o Start("softwareCaptureTest_task", {}, "assert", "captureTask", 500, 500))
dcan_can_test ==
    Fn("can_test", Make("dcan1", {}, "drop") \o Start("can_task", {}, "drop", "taskCAN", 512, 512))
am57xx_main(c) ==
    Fn("main",
       Set({}, "assert", 1) \o Console(c, "trace", "drop")
       \o If("GPIO" \in c, Asserted(am57xx_initGPIO))
       \o If({"GPIO", "DELAY_UNTIL"} \subseteq c, Start("ledTask", {}, "assert", "taskLED", 128, 128))
       \o Manager(c, 512, "assert")
       \o If("MAILBOX_TEST" \in c, am57xx_mailbox_test)
       \o If("RPROC_TEST" \in c, am57xx_rprocTest_init(c))
       \o If("BOARD_TEST" \in c, am57xx_boardtest_init(c))
       \o If("SPI_TEST" \in c, am57xx_spitest_init)
       \o If("TIMER_TEST" \in c, am57xx_timertest_init(c))
       \o If("MPU_TEST" \in c, am57xx_mputest_init)
       \o If("RTC_SOFTWARE_TEST" \in c, rtctest_init)
       \o If("SOFTWARE_CAPTURE_TEST" \in c, softwareCaptureTest_init)
       \o If("CAN_TEST" \in c, dcan_can_test)
       \o If("CAN_DISABLE" \in c, Make("gpio", {}, "drop") \o Make("DCAN1_TX", {"gpio"}, "assert")))
am57xx_mailbox_testTask == Set({"mailbox5.2"}, "assert", 1) \o Set({"mailbox5.3"}, "assert", 1)
boardtest_task(c) ==
    If("TIMER_TEST" \notin c, Set({"MCASP1_AXR13", "MCASP1_AXR14"}, "assert", 1))
    \o Set({"board.pins", "GPMC_A17"}, "assert", 1)
timertest_task(c) ==
    Set({"timer10"}, "drop", 1) \o If("TIMER11_CAPTURE" \in c, Set({"timer11", "capture11"}, "drop", 1))
am57xx_mputest_task == Set({"mpu"}, "assert", 2)
rtctest_task == Set({"rtc", "timer14"}, "assert", 1) \o Set({"rtc"}, "assert", 2)
softwareCaptureTest_task ==
    Set({"rtc", "timer2"}, "assert", 1) \o Set({"rtc"}, "assert", 1)
    \o Set({"capture", "MCASP1_AXR13", "rtc"}, "assert", 1) \o Set({"capture"}, "assert", 1)
am57xx_tasks(c) ==
    [mailbox_testTask |-> am57xx_mailbox_testTask,
     boardtest_task |-> boardtest_task(c), spiTask |-> am57xx_spiTask, timertest_task |-> timertest_task(c),
     mputest_initTask |-> am57xx_mputest_initTask, mputest_task |-> am57xx_mputest_task,
     rtctest_task |-> rtctest_task, softwareCaptureTest_task |-> softwareCaptureTest_task,
     can_task |-> Set({"dcan1"}, "assert", 3)]

-----------------------------------------------------------------------------
(* imx6 *)

imx6_initGPIO ==
    Fn("initGPIO",
       Make("gpio", {}, "return") \o Set({}, "return", 1)
       \o Make("PTC13", {"gpio"}, "return") \o Set({"PTC13"}, "return", 2)
       \o Make("PTA5", {"gpio"}, "return"))
imx6_mailbox_test ==
    Fn("mailbox_test",
       Each(<<"mailbox0", "mailbox0">>, {}, "assert")
       \o Start("mailbox_testTask", {"mailbox0"}, "assert", "task", 512, 512))
imx6_rprocTest_init ==
    Fn("rprocTest_init", Make("mailbox0", {}, "assert") \o Make("rproc", {"mailbox0"}, "assert"))
phytest_init ==
    Fn("phytest_init",
       Make("clock", {}, "drop") \o Set({"clock"}, "assert", 1) \o Make("mii", {}, "drop") \o Set({"mii"}, "drop", 2)
       \o Start("phytest_task", {"mii"}, "assert", "none", 250, 250))
enettest_init ==
    Fn("enettest_init",
       Make("enet1", {}, "assert") \o Make("enet2", {}, "drop")
       \o Start("enettest_task", {"enet1"}, "assert", "enetTask", 1000, 1000))
enettest_task ==
    Fn("enettest_task",
       Each(<<"eth0", "eth1">>, {}, "assert")
       \o Make("phys", {"enet1"}, "assert") \o Set({"phys"}, "assert", 3)
       \o Set({"enet1", "phys"}, "assert", 1) \o Set({"enet1", "phys", "eth0"}, "assert", 1)
       \o Set({"enet2", "phys", "eth1"}, "assert", 1)
       \o Set({"enet1"}, "assert", 1) \o Set({"enet2"}, "assert", 1)
       \o Set({"eth0", "enet1"}, "assert", 2 * 10))
imx6_main(c) ==
    Fn("main",
       Set({}, "assert", 1) \o Console(c, "uart2", "drop")
       \o If("GPIO" \in c, Asserted(imx6_initGPIO))
       \o If({"GPIO", "PWM"} \intersect c # {} /\ "DELAY_UNTIL" \in c,
             Start("ledTask", {}, "assert", "taskLED", 128, 128))
       \o Manager(c, 512, "assert")
       \o If("MAILBOX_TEST" \in c, imx6_mailbox_test)
       \o If("RPROC_TEST" \in c, imx6_rprocTest_init)
       \o If("PHY_TEST" \in c, phytest_init)
       \o If("ENET_TEST" \in c, enettest_init))
imx6_ledRound(c) ==
    If("PWM" \in c, Set({"pwm"}, "assert", 1)) \o If("GPIO" \in c, Set({"PTA5"}, "drop", 1))
phytest_task == Set({"mii"}, "assert", 5)
imx6_tasks(c) ==
    [ledTask |-> imx6_ledRound(c), mailbox_testTask |-> Set({"mailbox0"}, "assert", 2),
     phytest_task |-> phytest_task, enettest_task |-> enettest_task]

-----------------------------------------------------------------------------
(* linux, c28x, m0, riscv-qemu, polarfire *)

linux_initGPIO ==
    Fn("initGPIO",
       Make("gpio", {}, "return") \o Set({}, "return", 1) \o Make("GPMC_A17", {"gpio"}, "return"))
linux_adc_test ==
    Fn("adc_test",
       Make("adc1", {}, "assert") \o Set({"adc1"}, "assert", 1)
       \o Make("adc2", {}, "assert") \o Set({"adc2"}, "assert", 2)
       \o Start("adc_task", {"adc1", "adc2"}, "drop", "task", 500, 500))
linux_main(c) ==
    Fn("main",
       If("GPIO" \in c, Asserted(linux_initGPIO))
       \o Manager(c, 512, "drop") \o If("ADC_TEST_TASK" \in c, linux_adc_test))
linux_adc_task == Set({"adc2"}, "assert", 1) \o Set({"adc1"}, "drop", 1)
linux_tasks(c) == [adc_task |-> linux_adc_task]

c28x_main(c) ==
    Fn("main",
       Set({}, "assert", 1) \o Make("sci0", {}, "assert") \o Set({"sci0"}, "assert", 1)
       \o Start("testTask", {}, "assert", "test", 1000, 1000)
       \o If("CAN_DISABLE" \in c, Make("gpio", {}, "drop") \o Make("GPIO_31", {"gpio"}, "assert"))
       \o If("CAN_TEST" \in c, Start("can_task", {}, "assert", "canTest", 2048, 2048)))
c28x_testTask ==
    Fn("testTask",
       Make("gpio", {}, "drop") \o Each(<<"GPIO_50", "GPIO_29">>, {"gpio"}, "assert")
       \o Set({"GPIO_50"}, "drop", 1) \o Set({"GPIO_29"}, "drop", 1))
\* The first form that is selected has the loop the task stays in.
c28x_can_task(c) ==
    Fn("can_task",
       If("CAN_TEST_ECHO" \in c, Make("can_test_messages", {}, "drop"))
       \o If({"CAN_TEST_ECHO", "CAN_TEST_RECV", "CAN_TEST_SEND"} \intersect c # {},
             Make("can0", {}, "assert") \o Set({"can0"}, "assert", 1))
       \o If("CAN_TEST_ECHO" \in c, Set({"can0"}, "assert", 2) \o Set({"can0", "can_test_messages"}, "drop", 3))
       \o If("CAN_TEST_RECV" \in c, Set({"can0"}, "assert", 1))
       \o If({"CAN_TEST_RECV", "CAN_TEST_SEND"} \intersect c # {}, Set({"can0"}, "drop", 1))
       \o If("CAN_TEST_TOGGLE_PIN" \in c,
             Make("gpio", {}, "drop") \o Each(<<"GPIO_31", "GPIO_30">>, {"gpio"}, "assert")
             \o Set({"GPIO_31"}, "drop", 2) \o Set({"GPIO_30"}, "assert", 1)))
c28x_tasks(c) == [testTask |-> c28x_testTask, can_task |-> c28x_can_task(c)]

m0_main(c) ==
    Fn("main",
       Set({}, "assert", 1) \o Console(c, "uart0", "drop") \o Manager(c, 512, "drop")
       \o Start("testTask", {}, "drop", "test", 512, 512) \o Set({}, "assert", 2))

uartTest_init ==
    Fn("uartTest_init",
       Make("uart0", {}, "assert") \o Start("echoTask", {"uart0"}, "assert", "echo", 512, 512))
timertest_init == Fn("timertest_init", Start("timerTask", {}, "drop", "taskTimer", 512, 512))
timerTask ==
    Fn("timerTask", Make("timer0", {}, "assert") \o Set({"timer0"}, "assert", 2) \o Set({"timer0"}, "drop", 1))
floattest_init ==
    Fn("floattest_init",
       Start("floatTest", {}, "assert", "testTask", 1024, 1024)
       \o Start("floatTest2", {}, "assert", "testTask2", 1024, 1024))
riscv_main(c) ==
    Fn("main",
       Set({}, "assert", 1)
       \o Console(c, IF "STDOUT_UART0" \in c THEN "uart0" ELSE "sbi", "assert") \o Manager(c, 512, "drop")
       \o If("UART_TEST" \in c, uartTest_init)
       \o If("TIMER_TEST" \in c, timertest_init)
       \o If("FLOAT_TEST" \in c, floattest_init))
polarfire_main(c) ==
    Fn("main",
       Set({}, "assert", 1) \o Console(c, "sbi", "assert") \o Manager(c, 1024, "drop")
       \o If("FLOAT_TEST" \in c, floattest_init))
riscv_echoTask == Set({"uart0"}, "drop", 2) \o Set({"uart0"}, "assert", 2)
riscv_tasks(c) == [echoTask |-> riscv_echoTask, timerTask |-> timerTask]
=============================================================================
