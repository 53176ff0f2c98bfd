# Verification of the FreeRTOS HAL test system

TLA+ models of the test programs in `src/src`, checked with TLC on small instances;
what is safety and not liveness is proved with TLAPS as well, for every value of the
constants.  Paths below are relative to the repository's root; `src/src/vf610/` is
written `vf610/`, and so on for the other boards.

The repository is a set of FreeRTOS programs, one per board (am57xx, c28x,
imx6, kv4x, linux, m0, polarfire, riscv-qemu, s32k, stm32, vf610).  A board's
`main` sets up console, pins and timers and then starts the tests that
`Kconfig` selects.  Each test exercises one driver of the HAL, most of them from
a task and an interrupt that share state.  The kernel, the HAL and the drivers
are submodules outside the repository; they are modelled as far as the tests use
them, and every definition that does so is marked external or says so.

## 1. Inventory

### 1.1 Components with state of their own

| Component | State | Operations | Interacts with |
|---|---|---|---|
| PPM generator, `vf610/ppm.c` | `slot[]`, `state`, `pos`, `sum`, `waittime`, pin, one-shot timer, binary semaphore | `timerHandler` (five states), `ppm_task`, `ppm_start`, `ppm_init` | timer interrupt hands the long pause to a task and takes it back |
| Remote control, `vf610/remote_control.c`, `rctest.c` | per channel `raw`, `value`, `retry`, `corret`; capture handles | `rc_setup`, `rc_IRQHandler`, `rc_OverfowHandler`, `rc_get` | capture and overflow interrupts write what a task reads |
| Latency test, `vf610/speedtest.c` | `acutalTest`, `counterValue`, `values`, `iteration`, four wake-up mechanisms | `interruptHandler`, `speedtest_task` | GPIO interrupt, timer daemon (event bits), PWM wired to the pin |
| Linux client, `vf610/linux_client.c` | `rx`, `tx`, `callbacks`, `lcTask`, interrupt enables | `lc_init`, `lcTask`, `lc_ping`, two cpu2cpu interrupts | the core that runs Linux, through shared memory; reset |
| CAN test, `c28x/can_test.c` | `can_err`, `can_err_data`, message queue | receive and error callbacks, `can_task` | CAN driver's interrupts |
| Buffer self test, `vf610/buffertest.c` | one inter-core buffer, two loops each of two phases | `buffer1Test` .. `buffer4Test`, `bufferInit2` | tasks of different priority, no lock |
| SD card test, `stm32/sdtest.c` | `data`, `data2`, `rca`, bus width, clock | `sdtest_task`, `testReadWrite` | the card, through the SD driver |
| LED ramp, `ledTask` in six mains | `n`, `up`, the level of a second LED | one task | the PWM driver |
| PWM test, `vf610/pwmtest.c` | `n`, `up`, `crit`, `us`, `usOld`, `i` | `pwmTask`, `captureIRQ` | interrupt and task share `n`; an output wired to an input |
| RGB timer, `s32k/timer.c`, `kv4x/timer.c` | colour, brightness `n`, half of the period | `irqhandle` | one timer, three pins or PWM channels |
| Inter-core ping `vf610/vfxxx_irqtest.c`, PHY test `imx6/phytest.c` | binary semaphore | ping, MDIO read and write, interrupt | the other core, the MAC |
| Mailbox echo, `am57xx`, `imx6` | one word, two mailboxes | receive, send | the other core |
| FlexCAN tests `s32k`, `kv4x`, DCAN test `am57xx` | filter, driver's mailboxes, a frame | two variants each | a second board, other nodes |
| SD reset over SPI, `s32k/spitest.c` | frame, checksum, buffer | `crc7`, `transfer`, `sendCommand`, `spiTask` | the card |
| Boards' `main`, eleven of them, with what it calls before the scheduler and the first round of each task | which task, pin, timer, storage exists already | start-up order, result of each call | everything above; Kconfig |

Components without state worth a model (register definitions, pin tables, the
clock tree printer, the build) are listed in `PROJECT.json` with the reason.
The sensor and ADC printers, the UART echo, the float test, the board test and
the Ethernet test have no state beyond their start; they are modelled as far as
that goes, in `Programs`.

### 1.2 What is hard here

* *Interrupt against task.*  Nothing in the tests takes a lock.  PPM hands its
  work over a semaphore; the remote control relies on the order of two reads;
  the CAN test disables interrupts for three statements; the latency test
  disables the interrupt at its source; the buffer test relies on priorities.
* *Time.*  The remote control measures with a counter that wraps at 24 000 while
  the transmitter's frame is 20 000 us, so the wrap meets every phase of the
  frame; PPM splits a frame into ticks and microseconds and must not lose any.
* *Wake-ups that are early, late or lost*: resume before suspend, tokens left in
  a semaphore, event bits set later by the daemon.
* *Reset in the middle*: the Linux side resets the core at any moment; the SD
  card keeps its state over a reset of the board.
* *Partial failure*: drivers' results are dropped in PPM, in `lc_ping`, in the
  CAN queue and in several mains; the SD test asserts each one.
* *Configuration*: any set of tests can be selected together; each claims pins,
  timers and static storage of its own in another file.

`PROJECT.json` lists these under "hazards" at their lines, with the properties
that cover them.  Others met while reading and
not covered, of less weight:
`rc_setup` leaves a channel occupied when it fails (`vf610/remote_control.c:129`);
`lc_deinit` deletes a task that may hold a message (`vf610/linux_client.c:100`, no
caller); woken flags used without being set (`c28x/can_test.c:132`,
`vf610/vfxxx_irqtest.c:24`); a missing comma merges two error texts
(`c28x/can_test.c:16`); 128 bytes are read into 18 (`vf610/buffertest.c:187`); the
counter of the endless buffer tests is an `int` compared with 10^14
(`vf610/buffertest.c:181`); the s32k timer may be armed with 0 us (`s32k/timer.c:109`; `RgbTimer` takes such a timer to fire again);
`enettest_init` asserts one pointer twice (`imx6/enettest.c:142`); a comparison
with NAN (`vf610/tpstest.c:24`).

### 1.3 What makes each component correct

* PPM: the pin carries a PPM signal: equal pulses, the pauses of the table,
  frames of equal length; frames never stop; nobody reads past `slot[]`.
* Remote control: a silent channel is dropped in bounded time, a living one
  never; what is read is a plausible width although reading is not atomic.
* Latency test: the two stamps of a test belong together, and edges that come too late
  spoil no more iterations than they leave tokens; the interrupt never runs with an
  index past the array; the test ends.
* Linux client: requests are answered once and in order, none before the
  callback exists; an emergency shutdown is final; a full reply buffer does not
  stop the reading.
* CAN: each error reaches a report, complete, once; frames keep their order.
* Buffer test: it never reports an error on a working buffer, and ends.
* SD card: the card keeps its content whatever fails; the commands fit the
  card's state; the test ends.
* Start of a board: no two tasks share their storage, no two tests a device (with
  exceptions, which `Boot` lists); nothing is used that was not obtained, whatever is selected and whatever fails;
  an assertion stops the board only after a failure.
* LED ramp: the duty cycle stays in the period, for an unsigned counter that goes
  down to 0.
* PWM test: no alarm on a wire that works, an alarm on one that does not.
* RGB timer: only LEDs of the colour are lit, the period is constant, every
  colour comes back.
* Handshakes: an answer belongs to its question, although time-outs leave tokens.
* Mailbox: no word lost or overtaken; every word comes back, unless both sides wait for
  each other, which takes an other core further ahead than both queues and the task hold.
* CAN between boards: which variants can be run against each other.
* SD reset: a card that works is never reported as silent.

## 2. Modules

| Module | Stands for | Kind |
|---|---|---|
| `PpmSignal` | the signal a servo receiver decodes | abstract specification |
| `Ppm` | `vf610/ppm.c`, started by `vf610/test.c` | implements `PpmSignal` |
| `PpmProofs` | theorems about `Ppm` | proofs |
| `RemoteControl` | `vf610/remote_control.c`, `vf610/rctest.c` | specification |
| `RemoteControlProofs` | theorems about `RemoteControl` | proofs |
| `SpeedTest` | `vf610/speedtest.c` | specification |
| `SpeedTestProofs` | theorems about `SpeedTest` | proofs |
| `PingService` | the promise of the Linux client to the other core | abstract specification |
| `LinuxClient` | `vf610/linux_client.c` as `main` uses it | implements `PingService` |
| `LinuxClientProofs` | theorems about `LinuxClient` | proofs |
| `CanTest` | `c28x/can_test.c`, its four forms | specification |
| `CanTestProofs` | theorems about `CanTest` | proofs |
| `BufferTest` | `vf610/buffertest.c`, self test | specification |
| `BufferTestProofs` | theorems about `BufferTest` | proofs |
| `SdTest` | `stm32/sdtest.c` and the card | specification |
| `SdTestProofs` | theorems about `SdTest` | proofs |
| `Programs` | every board's `main`, the init functions, the first round of every task | definitions |
| `Boot` | a board starting with any configuration, any call failing | specification |
| `LedRamp` | the six `ledTask` | specification |
| `PwmTest` | `vf610/pwmtest.c` | specification |
| `RgbTimer` | `s32k/timer.c`, `kv4x/timer.c` | specification |
| `CanPair` | `s32k/flexcan.c`, `kv4x/flexcan.c`, `am57xx/dcan.c`, two boards at a time | specification |
| `Mailbox` | `am57xx/mailbox_test.c`, `imx6/mailbox_test.c` | specification |
| `Handshake` | `imx6/phytest.c`, `vf610/vfxxx_irqtest.c` | specification |
| `SpiSd` | `s32k/spitest.c`, the SD reset | specification |
| `BoardTests` | one of the eight above, as the initial state chooses | composition |
| `BoardTestProofs` | theorems about `Boot`, `LedRamp`, `PwmTest`, `RgbTimer`, `CanPair`, `Mailbox`, `Handshake`, `SpiSd`, and about `BoardTests` | proofs |
| `MC...` | instances for TLC | constants only |

The tests interact with one another only while the board starts: they claim
devices and storage, in an order `main` fixes.  That is what `Boot` composes, all
tests of a configuration at once.  Afterwards each has its own devices, but for
the combinations of options `TestsKeepApart` must except (`Shared` in `Boot`; with some of them two
tests drive one pin or one timer, and what they then do to each other is not modelled).
So the others are composed as alternatives: `BoardTests` puts one of them in motion.  The interactions of a running test (interrupts, daemon,
tasks, the other core or board, the transmitter, the card) are inside its module.

Conventions.  Actions have the names of the functions or of the statement they
stand for.  One action is what runs without being interruptible by another
modelled actor, or what no other actor can observe in between; where an
interrupt can come between two statements there are two actions.  A ghost
variable is marked "(ghost)" or "history" where it is declared; no guard of a
modelled action reads one.  Operators marked `(mutant)` are plausible bugs; they
are not part of any specification and exist to show that each property can fail.

### 2.1 Ppm

The five states of `timerHandler` are the actions `OnStart`, `OnData`, `OnLast`
and `OnPause` (`STOPED` never has a timer armed), `ppm_task` is `TaskTake`,
`TaskWake` and `TaskArm`: it can be seen blocked at its semaphore, in its
`vTaskDelayUntil`, and between the writes of its `ppm_start` and the arming of
the timer.  Between its other statements nothing can come, since the timer is
not armed (that this is so is the invariant `OneDriver`).  `timer_oneshot` may
fail; `fault` says whether the caller ignored it or asserted.  `sum` is a
`uint32_t` (arithmetic modulo `Modulus`).  The slot table is a parameter: the
program has the one `ppm_init` writes, and nothing changes it afterwards.  External: the timer counts exactly; `vTaskDelayUntil` may end up to a
tick early (its tick has begun already) and is late by at most `MaxLate`.

`EdgeOf` maps a state to the number of edges the frame has had, and `Signal`
instantiates `PpmSignal` with it.  `PpmSignal` knows level, edges and times only.

### 2.2 RemoteControl

`rc_setup` is the loop of `rcInit`, `rc_IRQHandler(c)` one edge, measured as the
code does it (`Measure`), `Accept` the test against `RC_MIN` and `RC_MAX`,
`rc_OverfowHandler` the loop over the channels at an overflow, `rc_getFlag` and
`rc_getValue` the two reads of `rc_get` between which interrupts run.  Time jumps
from event to event.  External: the transmitter (pulses of chosen widths, a frame
apart, with dropouts), and the capture unit, whose time counts modulo the period
set by `capture_setPeriod` (as `stm32/timertest.c:23` also computes it).

### 2.3 SpeedTest

`interruptHandler` is one edge; `SetBits` the timer daemon running what
`xEventGroupSetBitsFromISR` deferred; the task is `startTest`, the wait
(`WaitEnds`, `WaitTimesOut`, `Suspend`), `stopTest` and `Record` (case `END`).  A
time stamp is the iteration it was taken in.  `vTaskResumeFromISR` on a task
that has not suspended itself yet does nothing, as the comment at
`vf610/speedtest.c:98` warns.

### 2.4 LinuxClient

`lc_init` is five actions, since the other core can write between any two, and
its interrupts can come once they are enabled.  `lcTask` is `Read`, `Dispatch`
and `lc_ping`.  `cpu2cpu_int3_isr` never returns; `cpu2cpu_int0_isr` resets the
core, from where `main` starts again with the shared memory as it was left.
External: a buffer is a sequence, `buffer_init` empties it, a write to a full one
fails, a read of an empty one blocks.

### 2.5 CanTest

The four forms Kconfig knows (echo, receive, send, pin toggle) are the values of
`test`; with several selected the first loop in the file is the one that runs.
`Setup` is what comes before the loop, each call of which is asserted.  The two
callbacks are actions, and `can_task` is cut at every statement of its critical
section (`Check`, `Dint`, `Copy`, `Clear`, `Eint`), which the three CAN forms have in
common.  An error is a pair of an error bit and a data bit, so that a report that
mixes the data of two errors can be told apart from one that does not.  The full
queue drops, the full controller asserts, as in the code; in the receive test the
queue is the driver's.

### 2.6 BufferTest

Two tasks, reader above writer, a tick at any time; `lag[t]` is how far a task is
behind its `lastWakeUpTime`, and `vTaskDelayUntil` blocks only when it is not.
`Runs(t)` is fixed-priority scheduling.  `printf` of the first phase is taken not
to block.  External: a read of a character buffer takes all there is, a read of a
record buffer one record.

### 2.7 SdTest

One action per driver call.  Every call may fail, at a block transfer after any
number of blocks; `fault` says whether the card (it did not answer) or the test
(it sent what the card must refuse) is to blame.  External: the card, as the
state machine the commands presuppose, in any state a reset of the board may
have left it in; it ends power-up and programming at some time; the 500 ms
delay before the second read is taken to be longer than programming.

### 2.8 Programs and Boot

A program is a sequence of steps: what is obtained, what it needs, and what the code
does when the call fails (`assert`, `return`, `drop`, `retry`; `refuse` where an
assertion demands a failure).  `Programs` has one such sequence per function, with
the function's name; an `#ifdef` is `If`.  Tasks that loop are listed up to the end of
their first round, since later rounds make the same calls.  `Boot` runs `main` and
then the tasks; `Call` is one step, `Succeed` and `Fail` its outcomes, `Schedule` the next
task's first round.  Configurations are those Kconfig allows: `Options`, `Needs`
(depends on), `Variants` (choice) and `Allowed` translate the Kconfig files.

Two tables in `Boot` state what is known not to hold, so that everything else is
checked.  `Shared`: devices two tests obtain although nothing keeps the tests apart.  A
PWM channel is a device together with the pin it is put out on (`Channel`), so a pin that
one function takes as GPIO and another as PWM output is seen to be one pin; and of the
board test's pins (`boardtest_pins`) the one that is also the board's LED has its own name.
The second loop of `boardtest_init` obtains the same pins again, as the code does.
`Holes`: devices used although no option makes them.  `Unchecked` lists devices whose
creation may fail unnoticed (such as the `ppm` of `vf610/test.c:282`).  `StorageOwned` names three places where storage is wrong:
`vf610/mputest.c:70` asks for a stack of 1024 words in a storage of 512,
`polarfire/test.c:89` does the same, and `vf610/pwmtest.c:140` gives `pwmTask` the storage
that line 135 has given to `rcTask` (with `CONFIG_RC`; without it the name is not
declared and the program does not build).

### 2.9 LedRamp, PwmTest, RgbTimer

`Ramp` is one round of `ledTask`; the six copies differ in whether they toggle a second
LED.  In `PwmTest` one action is one event of the PWM period: `pwmTask`, `Rises`,
`Falls` (the last two call `captureIRQ`).  Task and PWM have the same period, so where
in the PWM period the task runs is a parameter (`Places`).  `crit` needs no variable: it
is set within `pwmTask` only, and an edge while the task is at work reaches `captureIRQ`
as its second argument (see `Falls`).  In `RgbTimer` one action is one
interrupt, for both boards and with or without `CONFIG_TIMER_TEST_PWM`; brightness is
counted in twentieths, which is what repeated addition of 0.05 to a `float` with the
clamps gives (twenty additions from 0 to 1).  Truncating the period to whole
microseconds loses at most one, which is left out.

### 2.10 Handshake, Mailbox, CanPair, SpiSd

`Handshake` numbers requests and answers; `stale` records that a read or a ping was
satisfied by the answer to another request.  The PHY driver is external: any number of
reads and writes between the functions `phytest_task` calls.  `Mailbox` has one queue in
either direction.  The other core starts a send as long as it is less than `ahead` words
ahead of what it has read; its sends block like the task's, and it does not read while
one does.  Nothing in the code bounds `ahead`, so the instances go beyond what queues and task
hold, and the proof takes any.  `CanPair` takes two of the programs at a time, with any order of coming up and
registering the filter, and a tool that sends frames of its own.  `SpiSd` computes `crc7`
as the code does, on bytes, and gives the card the textbook remainder by
x^7 + x^3 + 1.

## 3. Runs

`rc_signals` and `board_tests` take about twenty seconds, the others a few.  Deadlock is checked in `sd_card` (whose end is an explicit stuttering action); in
the others the program really stops: after a failed `timer_oneshot` (`ppm_frames`),
after an assertion of `rcInit` (`rc_signals`), at the end of the test or in an
assertion (`speed_run`, `speed_assert`, `buffer_self`, `can_echo`, `board_tests`,
`boot_assert`), or in the emergency shutdown and when no initialisation succeeded
(`lc_ping`).

| Run | Specification | States | Question |
|---|---|---|---|
| `ppm_frames` | `Ppm` | 15 694 | Does the pin carry the signal, for all kinds of pauses, and do frames stop only after a failure? |
| `rc_signals` | `RemoteControl` | 209 691 | Is a steady signal ever lost, at any phase, and how old is its value?  With glitches, dropouts and failing setup: is a silent channel dropped in time, is a living one kept, is what is read plausible? |
| `rc_first_pulse` | `RemoteControl` | violation | Is what `rc_get` returns a pulse somebody sent? |
| `rc_wrap` | `RemoteControl` | violation | Is a pulse across the overflow measured? |
| `speed_run` | `SpeedTest` | 45 957 | Edges at any time, a wire that is pulled: do stamps belong together, how old do late edges make them, is the interrupt off at the end, does the test end? |
| `speed_assert` | `SpeedTest` | violation | Does the assertion behind the last iteration hold? |
| `lc_ping` | `LinuxClient` | 5 588 | Is the client a ping service, through resets and a racing initialisation? |
| `can_echo` | `CanTest` | 44 294 | In each form of the test: are errors and frames reported, echoed and sent completely and in order? |
| `buffer_self` | `BufferTest` | 624 | Do the priorities alone keep messages apart? |
| `sd_card` | `SdTest` | 6 900 | Whatever fails: does the card keep its content, is the test never at fault, does it end? |
| `board_tests` | `BoardTests` | 150 909 | Can a board be built with any tests, and does each of the smaller tests do what it is for? |
| `boot_assert` | `Boot` | violation | Does a board stop in an assertion only when a call has failed? |

### 3.1 Properties

* `Ppm`: `OneDriver` (timer, semaphore and task never drive a frame together, and
  one of them does while arming succeeds), `SumAccountsForFrame` (`sum` is what
  is left of the frame, in every state), `DataInRange` (the assertion of
  `ppm_data`), `TaskAlwaysRestarts` (the task's own `ppm_endPause` is dead code,
  and a frame with a pause of a tick or more is short by the rest), `IInv`,
  `SignalOnPin` (refinement), `FramesRecur` (liveness).
* `RemoteControl`: `StaleIsDropped`, `GraceIsKept` (the two sides of the failsafe),
  `ResultInRange` (the torn read), `SteadyStaysOn` (liveness), `SteadyNeverDropped` (an
  action property: no overflow drops a channel whose signal has no dropouts),
  `SteadyIsRecent`.
* `SpeedTest`: `StampsBelongTogether` (late edges included), `NoInterruptInEnd`, `TestEnds`.
* `LinuxClient`: `ServesPings` (refinement), `ShutdownIsFinal` (action property),
  `MessagesTaken` (liveness).
* `CanTest`: `ReportComplete`, `PrintedInOrder`, `EchoedInOrder`, `ErrorsReported`.
* `BufferTest`: `NoError`, `TestFinishes`.
* `SdTest`: `ContentKept`, `NeverOwnFault`, `TestEnds`.
* `Boot`: `TestsKeepApart` (storage and devices, over all configurations),
  `UsesWhatExists` (over all configurations and failures).
* `LedRamp`: `RampInv`.  `PwmTest`: `NoFalseAlarm`, `FaultFound` (liveness).  `RgbTimer`:
  `OnlyColourLit`, `ColoursRecur` (liveness, in the run as `ColoursComeBack`).
* `Handshake`: `AnswersMatch`.  `Mailbox`: `EchoCorrect` (order, loss), `WordsComeBack`
  (liveness, in the run as `EchoComesBack`: only `BothWait` keeps a word from coming back).
  `CanPair`: `PairsPass`.  `SpiSd`: `ResetAnswered`.

### 3.2 Bounds, and why they are enough

* `ppm_frames`: the program's 10 slots and its table, all tables that repeat three
  values of 0, 200, 500 and 1000 us, and tables of maxima but for one slot: they
  leave a last pause of several ticks, of exactly one, of less than one, and of
  none, which are the cases of `ppm_pause`.  `Modulus` is 2^16 in place of 2^32;
  a frame is 20 500 us, so a wrap would be seen in either.  Jitter -999, -400, 0 and
  3000 us.  `PpmProofs` has no bound.
* `rc_*`: two channels in place of eight (channels share nothing but the overflow);
  the real period, frame and limits.  `Settings` lists what may be connected, of which
  the initial state takes one.  `MCSteady`: two receivers of pulses of 1 and 2 ms; from
  one offset the frames visit six phases 4 ms apart.  Two offsets, 0.5 ms apart, make the
  pulses reach over the overflow, and end exactly at it.  `MCNoisy`: one receiver, setup may
  fail, glitches of 0.4 ms, pulses of 1.6 ms, dropouts of 0, 6.4 and 53.2 ms: the pause is
  short, or looks like a pulse modulo the period, or spans two overflows.  All its times are
  multiples of 0.4 ms, so that states recur.  `RemoteControlProofs` has no bound.
* `speed_*`: three iterations and a daemon queue of two.  With both calls of the daemon and the
  event bit left over, every wait for the event in the next iterations ends at once, so that its
  stamp ages to the end of the run; the notification's can age by one only.  `SpeedTestProofs` has no bound.
* `lc_ping`: buffers of two messages, so both can be full; four messages, so that
  some arrive before, in and after a reset; one reset.  `LinuxClientProofs` has no bound.
* `can_echo`: queue and controller hold two, four frames overflow both; three
  errors, so that one can come before, in and after the critical section, with two
  that share a CAN_ERR bit and differ in their data.  `CanTestProofs` has no bound.
* `buffer_self`: 4 and 6 messages, buffers of 3 and 4 (in the program 10 and 1000
  messages in buffers of 7 and 32): fewer fit than are sent in both.  A task is at
  most 3 ticks late, and the buffers hold 3: late enough to overflow a buffer if the
  priorities did not forbid it.  `BufferTestProofs` has no bound.
* `sd_card`: two blocks (a transfer that stops between them), three contents (the
  two fills and another), two addresses.  `SdTestProofs` has no bound.
* `board_tests`, start: all eleven boards; the shipped configurations, and everything a
  board can select less one option (`MaxOff`) and what depends on it: two tests that
  collide are both present in some such configuration, and a device whose maker is
  deselected is missed.  One failing call (`MaxFailures`): a program ends or goes on
  behind it, and no function looks at two results together.  `MaxOff = 2` has been
  checked too (879 134 states).
* `board_tests`, PWM: the task runs at 0, 0.3, 5 or 10 ms of the PWM period, or moves
  between three places; the capture counter starts at three offsets, so that with its
  period of 30 ms edges meet its wrap.  The task's lateness is taken to stay within a
  PWM period: if it crosses the start of one, `n` may be two steps from what the pins
  show, and 800 us are more than `MAX_DIFF`.
* `board_tests`, others: two PHYs and six requests (each reads and writes at least once
  behind a late answer), mailboxes of two words and
  eight words to send, the other core 1, 3, 5, 6 or 8 words ahead (with 5 both queues and the
  task's hand are full and go on, with 6 and 8 `BothWait` is reached), CAN controllers that hold two frames and a tool that
  sends two, all four FlexCAN programs against each other, a card that answers after
  up to 8 idle bytes, arguments with each kind of byte.  `BoardTestProofs` has no bound.

### 3.3 Fairness, and what justifies it

* Timers, PWM, tick and transmitter go on (weak fairness of interrupts): hardware.
* A task that is ready is scheduled in the end.  `ppm_task` has priority 3; above it
  are the latency test, which blocks or ends, and the TPS initialisation, which
  ends.  `lcTask` has priority 2, and what is above blocks between short runs.
  The CAN and SD tests have nothing above them that computes for ever.  In
  `BufferTest` priorities are part of the model: the writer is fair only when the
  reader blocks.
* Nothing is asked of the other core of the vf610, of the CAN bus or of the wire:
  `MessagesTaken` holds if the other core never reads a reply, `ErrorsReported` if
  no frame ever comes again (the receive times out after a second), and `TestEnds`
  of the latency test claims nothing once the wire is pulled.
* The PWM unit, its capture and the timer of the RGB test go on, and `pwmTask` is
  scheduled (weak fairness of `PwmStep` and `RgbStep`); so are the mailbox task and the other
  core (`MailStep`: the imx6 and am57xx run nothing that computes for ever above it, and an other
  core that stops reading is not a claim about this program).  Nothing else in `BoardTests` is fair.
* `Programmed` and `PowerUp` are fair: a card that never finishes power-up keeps the
  test of `stm32/sdtest.c:77` in its loop for ever.

### 3.4 Disagreements found

* `rc_wrap`: the comment at `vf610/remote_control.c:39` says "Overflow"; the width
  across it is computed modulo 65 535, the counter wraps at 24 000 (line 127).  Such
  a pulse is never measured.  `SteadyStaysOn` shows that the retry flag hides this
  at every phase, `SteadyIsRecent` that the value is at most two pulses old.
* `rc_first_pulse`: "Detect is Short or Long Impulse" (line 44) looks only at the
  time since the last capture: the pause before the first edge, or a dropout of
  whole periods and a pulse, is taken for a pulse.
* `speed_assert`: the assertion at `vf610/speedtest.c:181` demands three stamps of
  every test; only two are ever written, so it always fails and the statistics
  behind it are never printed.
* `boot_assert`: `am57xx/timertest.c:120` asserts `ret != pdPASS` of the creation of its
  task, where `stm32/timertest.c:126`, otherwise the same text, asserts `ret == pdPASS`:
  the board stops exactly when the task exists.
* Not runs of their own, but consequences of invariants above: `ppm_task`
  never waits for the rest of a pause (`TaskAlwaysRestarts`).  The entries of the tables
  in 2.8 are of this kind, and so is `PairsPass`: an echoing board and an answering
  one never satisfy each other, and of two DCAN tests only the one that was
  there first is sure to.
* Pins with two owners, each in `Shared` for the combination of options that has them:
  `PAD_GPMC_A17` of the am57xx (LED of `initGPIO`, `am57xx/test.c:48`, and in the list of the board
  test, `am57xx/boardtest.c:37`); `PTB0` of the vf610 (GPIO the tick hook toggles,
  `vf610/test.c:56`, and PWM output of the speed test, `vf610/speedtest.c:216`) and `PTC15` of the
  s32k (GPIO of the BMS board, `s32k/test.c:92`, and PWM output, line 221), these two in
  configurations the repository ships; `GPIO_31` of the c28x (held high by `main`,
  toggled by the CAN pin test, `c28x/can_test.c:305`).  The loop over the buttons at
  `am57xx/boardtest.c:103` initialises `pinIds[i]` in place of `buttonIDs[i]`.
* The mailbox test and an other core that does as it does can wait for each other for ever
  (`BothWait`: `portMAX_DELAY` at `imx6/mailbox_test.c:19` and `:23`).
* The semaphore is measured in the first iteration only: case `END` sets `acutalTest` to
  `SEMAPHORE` and the loop increments it at once (`Record`).  A property would restate that
  one assignment, so there is none.
* Found while reading, outside every model: kv4x cannot be built with its timer test
  (`ledRGBPin` exists under `CONFIG_LED_TASK`, which Kconfig excludes then); the
  UART and timer tests of polarfire are commented out of its Kconfig; the main of stm32
  starts none of its timer, SD card, SPI and board tests, the one of linux not its
  `ledTask`; vf610's `main` calls `ftmInit`, which no file defines, and nothing calls
  `timerInit` of `vf610/timer.c`; `s32k/test.c` and `stm32/test.c` declare `pwm` under
  `INCLUDE_xTaskDelayUntil` and use it under `INCLUDE_vTaskDelayUntil`.

## 4. Proofs

### 4.1 PPM generator (`PpmProofs`)

From `PpmAssumption` only: at least three slots, a table with values up to
`PPM_MAX_TIME - PPM_MIN_TIME`, a frame that fits into `sum`, a wake-up less than
a tick early and at most `MaxLate` late.  `Inductive` proves
`Spec => []IInv`, where `IInv` is `TypeOK`, `OneDriver`, `SumAccountsForFrame` and

* `RoomForSlots`: what is left covers the slots still to come, whatever they hold;
  without it `sum` could wrap in `ppm_data`;
* `ArmedForLevel`: the timer is armed with the width of the level on the pin;
  without it the time that passes at an interrupt is unknown;
* `Handover`: while semaphore or task have the pause, the timer is idle, the state is
  PAUSE and less than a tick is left; without it task and interrupt could meet.

From it follow `TypeCorrect`, `ExactlyOneDriver`, `FrameBudget`, `AssertHolds`
and `EndPauseIsDead`, and `ImplementsSignal`: every step of `Ppm` is a step of
`PpmSignal` or a stutter, for every number of slots and every table, failing timers
included.  The proof has one step per action; arithmetic on the products of
`Slots` is in lemmas of its own.

### 4.2 SD card test (`SdTestProofs`)

From `SdAssumption` only.  `IInv` adds to `TypeOK`, `ContentKept` and
`NeverOwnFault`

* `CardAsExpected`: the state, width and address of the card at each statement;
* `Copied`: which blocks of `data` and `data2` already hold those of the card.

`ContentKept` alone is not inductive: that a block written is the block that was
there needs that a write is reached only behind a complete read.  `KeepsTheCard`
and `NoFaultOfItsOwn` follow for any number of blocks and any contents.  Lemmas
`CommandStep` and the `...Keep` family treat the twenty actions in six groups.

### 4.3 Remote control receiver (`RemoteControlProofs`)

From `RcAssumption`: any number of channels, any limits, any period that fits into 16
bits, any settings of the transmitter.  `RcInv` is `TypeOK` and

* `Setup`: channels are set up in order, and nothing is measured on one that is not;
* `Failsafe`: what `retry` and `corret` say about the age of the last accepted
  measurement.  With `retry` it was in this period of the timer, with `corret` alone at
  most in the one before, and without either it is older.

`FailsafeDrops` and `GraceHolds`, the two sides of the comment "Wait unil next Overfow",
are the two directions of `Failsafe`; `ResultPlausible` says that flag and value,
although read apart, never show a reader a width out of range.

`SteadyRecency` has one more hypothesis, `ServoTimes`, since a value can only be recent
when the signal is one: two edges no further apart than a pulse are those of a pulse
(`2 * RC_MAX <= Frame`), a frame and a pulse fit into a period of the timer, a width
across the end of the period is too long to be taken for a pulse, and the first pulse
of a steady signal comes after more than a pulse and within the first period.  The
numbers of the code and of a servo receiver satisfy it (2.2, 20 and 24 ms; the counter
has 65.5 ms), and so does the steady setting of `rc_signals`.  The last condition is what
`rc_first_pulse` shows to be needed.  `SteadyInv` gives for each channel where the
last capture was (`RawIs`: in this period or the one before) and which of the last three
pulses `value` is (`Recent`): a pulse the end of the period falls into is lost, and
then the next one cannot be.  The proof follows an edge, an overflow and the passing
of time, each for a channel before its first edge, low and high.

`SteadyIsKept` is the action property behind `SteadyStaysOn`: no step takes the flag of a
channel with a steady signal away once the channel has been believed.  Only an overflow
of a believed channel without `retry` could.  `Bridged` says that as long as `retry` is missing the
next pulse to be measured begins within a frame of the last overflow; so it ends before
the next one, and sets `retry`.

### 4.4 Interrupt latency test (`SpeedTestProofs`)

From `SpeedTestAssumption`: any number of iterations and any length of the daemon's
queue.  `SInv` is `TypeOK`, `Control` (where the task can be when the pin is off) and

* `Bounded`: what is still pending for a test (deferred calls and the event bit, or the
  notification), added to the age of its interrupt's stamp, never exceeds `Leftover`.  Every
  wait that ends without an edge makes the stamp an iteration older and takes one of what is
  pending (`Old`); a resume is never pending, and the task's own stamps are of this
  iteration (`Own`).
* `Fresh`, as long as no edge has followed another within a test: semaphore, event,
  notification and deferred call hold one token at most, only for the test that runs, and
  what has been measured carries stamps of this iteration.

`StampsBelongTogether` alone is not inductive, because a token left over ends a later
wait too early: `Fresh` says when there is none, `Bounded` how many there can be.

### 4.5 Linux client (`LinuxClientProofs`)

`ClientServes` is a refinement: with `pending` (buffer and the message the task holds)
and `replies` as the state of `PingService`, every step of `LinuxClient` is a step of
the service or a stutter.  A buffer counts only once this boot has initialised it: a
reset is a `Restart` of the service, what the other core writes into a buffer before
`buffer_init` stutters, and so does `buffer_init`, which empties a buffer nothing of
which was pending.  `LcInv` supplies how far `main` is when an interrupt or the task
runs (`BootOrder`) and what the task holds (`Taking`).  `ShutdownHolds` proves the action property for any number of resets.

### 4.6 CAN test (`CanTestProofs`)

`CanInv` is `TypeOK`, `PrintedInOrder`, `EchoedInOrder`, `Reception` and `Flags`:
the two error words are those of the errors raised and not yet taken, at each
statement of the critical section, and interrupts are off in between.  Lemmas about
sequences (`MoveHead`, `OrderedAppend`, `NumberedAppend`) carry the order of frames
from the queue to the printed list.

### 4.7 Buffer self test (`BufferTestProofs`)

`NoError` follows from an argument about scheduling: at most one message is on its way
(`OneMessage`), and a writer that could write is behind its schedule by no more than
the reader, less the message under way (`Schedule`).  The writer runs only when the
reader blocks (`ReaderBlocks`); a reader that waits for its time would
be ahead of the writer, so it can only be waiting for a message (`WriterWaits`).  Lateness and
capacity are arbitrary.

### 4.8 Smaller tests (`BoardTestProofs`)

* `RampIsTriangular`: `RampInv` is inductive together with types.  One lemma,
  `RampKeeps`, serves all six copies; it splits into the two steps that reach an end and
  the others.
* `AnswersAreTheirOwn`: from `HandInv`, whose part `OneUnderWay` says that as long as no
  time-out went unnoticed at most one answer is under way.  `AnswersMatch` alone says
  nothing about the semaphore.
* `LightIsTheColour`: from `RgbInv`, whose part `DarkThenLit` relates the period that runs
  to the brightness; only with it is the rest of the period known at the interrupt.
* `EchoIsFaithful`: from `MailInv`, which numbers the words in both queues and in the
  task's hand; from `MailboxAssumption` only, for queues of every size and an other core
  that goes any number of words ahead.  That the words come back is TLC's (`EchoComesBack`).
* `PwmIsQuiet`: from `PwmInv`.  Its part `LastEdge` says that the last capture is that of
  the edge before, or that `n` is so near an end of the ramp that nothing is judged;
  `Follows`, that `n` is the duty cycle of this period or one step on.  A difference of
  captures is then a width whether or not the counter wrapped.  The places of the task
  and the start of the counter (`PwmAssumption`) are arbitrary.
* `PairsDoPass`: from `CanPairInv`, one part for each kind of pair.  Of two echo tests one is
  at work or a frame is on its way (`EchoPart`); of two DCAN tests, once both have sent, one
  has got a frame (`DcanPart`: the board that sends later finds the other registered); and
  a frame an answering board holds is in the range of its filter, which 256 more or less
  leaves (`AnswerPart`).
* `CardAnswers`: from `SdInv`, for each command with its response and its checksum.  A byte
  is a set of bits, so that exclusive or is a symmetric difference and a shift a
  renaming.  `CrcStepIs` says that one round of the loop of `crc7` divides one more byte
  of the message by the polynomial; `SdInv` carries the remainder from byte to byte of
  the command.
* `BoardsKeepApart`: for every set of boards and every configuration, with any number of
  options off and of calls failing (the run takes at most one off and one failing).  Two
  tables give each device and pin of a board its owner (`Owner`) and each storage its task
  (`Lease`).  What `Shared` excepts, pins included, it excepts in the combinations of
  options named there only.  A step is `Modest` when it obtains only what its function owns or what is
  shared, or creates one task in a storage that is that task's.  The lemmas
  `<board>_Apart` walk through each `main` and each task and show every step modest, in
  every configuration at once.  `ApartInv` carries this along: what runs is modest, what
  waits is a task of the board, and claims and storages agree with the tables.
* `BoardsUseWhatExists`: as general.  A program `Runs` from a set of devices if, at each step,
  what the step uses was in the set or has been made by a step before that no early return
  leaves out (`Before`), but for `Holes` and, once a call has failed, `Unchecked`.
  This composes: the lemmas `PartsRun` and `PartsGain` say of each way to build a
  program (one call, a sequence, an `#ifdef`, a function, a caller that asserts) when the
  whole runs and what exists behind it.  The lemmas `<board>_Runs` follow each `main` with
  them; from the configuration they need only that a standard output has its UART, the
  `PPM` of the vf610 and the timer test of the s32k their pins (`ConfigsFit`).  A task
  runs from what it is `Given`, which exists when it is started.  `ExistsInv` states all
  this twice, for a start without failures and for any, since a failure weakens what
  may be relied on: a result nobody checks (`drop`) counts as made only as long as
  nothing has failed.
* `TestsImplementEach` and `TestsHoldTogether` are about `BoardTests`: whichever test a board
  puts in motion, the steps of the whole are steps of each of the eight or stutters, so
  that the safety theorems above hold of the composition as well.

### 4.9 Only model-checked

All liveness properties (`FramesRecur`, `SteadyStaysOn`, both `TestEnds`,
`MessagesTaken`, `ErrorsReported`, `TestFinishes`, `FaultFound`, `ColoursComeBack`,
`EchoComesBack`): temporal reasoning under fairness is out of the prover's reach.  Every other property
of the passing runs is a theorem.

## 5. Not modelled

* The kernel, HAL and drivers (submodules, not in the repository).
* Allocation failures of `ppm_init` beyond the start (they end before the state machine
  exists); `lc_sendAct`, `lc_deinit` (no caller).
* The buffer tests against the other core (`bufferIRQTest`, `bufferTTYTest`): loops
  around one write and one read.
* The statistics of the latency test (never reached), the text of printed lines.
* What the tests print after their first round (sensors, ADC, UART echo, timers), the
  constant frames of the Ethernet and SPI tests, the float test (it tests that the
  kernel saves registers), the capture callbacks of `am57xx/timertest.c` (the board
  stops before they can run, `boot_assert`).
* `vf610/timer.c` (no caller), pin tables and `FreeRTOSConfig.h` of the vf610, `imx6/fec.h`,
  `am57xx/printClockTree.c`, resource tables: constants, or printing only.

## 6. Plan

Done: all components with state of their own, the start of all boards; every safety
property, action property and refinement of the passing runs is proved.

Left: type correctness of the smaller tests as theorems of their own, where the
invariants of 4.8 carry only the types they need.
