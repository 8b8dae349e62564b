# TLA+ verification of the webcam firmware

The firmware runs on a SAM4S microcontroller.  It takes JPEG pictures with an
OV2640 sensor and sends them, on request, to an AMW136 WiFi module over a
serial line.  It has no operating system: one main program with busy waits, and
interrupt handlers that share global variables with it.  This directory models
it in TLA+, checks the models with TLC and proves theorems about them with
TLAPS.  Paths below are relative to the repository's `src/` directory; the rest
of the tree is the vendor's framework (`src/ASF`) and build output (`debug`).

## Inventory

| Component | State | Operations | Interacts by |
|---|---|---|---|
| WiFi command link (`wifi.c`, `timer_interface.c`) | `counts`, `wifi_cmd_complete`, the reply line and its cursor, the flags parsed from it | `write_wifi_command`, `write_image_to_file`, `USART0_Handler`, `wifi_command_response_handler`, `TC0_Handler` | USART, CTS and the command-complete pin with the module; globals with `main()` |
| Frame capture (`camera.c`) | `g_ul_vsync_flag`, the image buffer, `image_capture_success`, PIO capture unit and its PDC channel | `start_capture`, `pio_capture_to_buffer`, `vsync_handler` | Vsync interrupt and data bus from the sensor |
| Image search (`camera.c`) | `startindex`, `image_size` | `find_image_len` | called by `start_capture`; its globals are read by `write_image_to_file` |
| Main loop (`main.c`) | `internet_connected`, `initiate_web_setup_flag`, RST pin | boot, poll, capture, transfer, web setup, module reset | calls all of the above; the button interrupts it |
| PIO interrupt dispatch (`pio_handler.c`) | table of sources and their number | `pio_handler_set`, `pio_handler_process`, `pio_handler_set_priority` | three handlers share one interrupt of port A; the table is filled while interrupts come |
| OV2640 driver, TWI driver (`ov2640.c`, `twi.c`) | sensor registers, bus status | `ov_init`, `ov_configure`, register reads and writes | called at boot |
| Startup (`main.c:45-90`, `init.c`, `configure_*`, `init_camera`) | peripheral clocks, NVIC, divisors, output pins | run once per reset | enables the interrupts one by one; resets the module |
| Clock set-up (`sysclk.c`, `pmc.c`, `system_sam4s.c`) | PMC registers, flash wait states, `SystemCoreClock` | `sysclk_init`, `pmc_switch_mck_to_pllack`, `SystemCoreClockUpdate` | the drivers compute their divisors from the frequency it promises |
| Timer driver (`tc.c`) | divisor, RC | `tc_find_mck_divisor` | called by `configure_tc` |
| USART driver (`usart.c`) | status register | `usart_putchar`, `usart_write_line`, `usart_read` | blocks on CTS |

What is hard in it:

* **Interrupts against the main program.** All interrupts have the reset
  priority, so handlers do not preempt each other, but the main program may be
  interrupted anywhere.  The flags it waits for carry no identity: any edge ends
  any wait.
* **Answers out of time.** A command may time out and be answered later; the
  module may say something nobody asked for.
* **Sticky flags.** Several flags are set and never reset, or reset too late.
* **Waits.** Some have a timeout, some have none, and one has a timeout that
  does not cover the part that blocks.
* **Order of writes to hardware.** Clock, source, wait states, handler, mask and
  line are written one by one; a write to a peripheral without a clock is lost,
  an interrupt may come between any two of them, and the processor may be reset
  while the module runs on.
* **Arithmetic.** A timeout is truncated to eight bits; a length is computed
  from markers that may not have been found.

What makes each component correct: a command ends by its own acknowledgment or
its timeout, and always ends; the reply line is never overrun; the image bytes
written are the bytes announced; the search finds exactly the image; a capture
holds a whole frame; each detected pin interrupt is answered by its own handler;
the processor is never clocked faster than chip and flash allow, and its drivers
know how fast; and the loop goes on, asks the module only when there is a
network, and takes pictures only for open streams.  `PROJECT.json` lists every
hazard at its line, with the properties that would catch it; its note says where
none does, or where the code is known to go wrong.

## Modules

| Module | Models | State and actions against the code |
|---|---|---|
| `CommandExchange` | what the comment above `write_wifi_command` promises | a command is issued, acknowledged or timed out, and returns |
| `WifiLink` | `wifi.c`, `timer_interface.c` and, externally, the AMW136 | `Call`, `ClearComplete`, `SendLine`, `WaitReturn` are the statements of `write_wifi_command`; `PutChar`, `StreamReturn` the loop of `write_image_to_file`; `Tick`, `RxISR`, `CommISR` the three handlers; `Module*` the module |
| `WifiLinkProofs` | theorems about `WifiLink` | |
| `JpegMarkers` | what an image in a buffer is | reference definition, used by `JpegScan` and `FrameCapture` |
| `JpegScan` | `find_image_len` | one action per iteration of its loop, one for its end, one for the next capture; `Memory` is what it reads |
| `JpegScanProofs` | theorems about `JpegScan` | |
| `FrameCapture` | `start_capture`, `pio_capture_to_buffer`, `vsync_handler`, the dispatcher's status read, and externally the sensor | one action per statement of `start_capture`; `PIOA_Handler`; `Frame*` for the sensor |
| `FrameCaptureProofs` | theorems about `FrameCapture` | |
| `PinHandlers` | what the comments of `pio_handler.c` promise | `Define`, `Detect` and `Call` of a map from sources to handlers |
| `PioHandler` | `pio_handler.c`, `pio_enable_interrupt` and `pio_disable_interrupt` | `SetHandler` is the search of `pio_handler_set`, then one action per field it writes; `Dispatch` the status read, `Walk` one turn of the loop of `pio_handler_process` |
| `MCPioHandler` | three sources for TLC | |
| `PioHandlerProofs` | theorems about `PioHandler`, the refinement of `PinHandlers` among them | |
| `ClockTree` | `sysclk_init` for the configured source, and externally the power management controller | one action per register write or wait; the controller follows later |
| `ClockTreeProofs` | theorems about `ClockTree` | |
| `DriverRates` | `tc_find_mck_divisor`, `usart_set_async_baudrate`, `twi_set_speed` | operators: the divisors, and the rate that each stands for |
| `Startup` | `main()` up to its loop: `board_init`, the `configure_*` functions, `init_camera`, the first commands | composes `ClockTree` and `DriverRates`; `Boot` lists the steps, an action for each kind of step; `Interrupt`, `Occur`, `ProcessorReset` come in between |
| `StartupProofs` | theorems about `Startup` | |
| `Sensor` | `configure_camera`, `ov2640.c`, the transfers of `twi.c`, and externally the TWI controller and the sensor | `Start*` and `Poll*` are the statements of `twi_master_read` and `twi_master_write`; `Return` goes on to the next transfer of `ov_init` or the next entry of `ov_write_regs` |
| `SensorProofs` | theorems about `Sensor` | |
| `Webcam` | `main()` | `pc` is the place in `main()`; a command is `WriteLine` then `CommandReturns`, the form that `WifiLink` justifies |
| `WebcamProofs` | theorems about `Webcam` | |

`WifiLink` implements `CommandExchange` (`ImplementsExchange`), under the
assumption that the module answers within the timeout and speaks only when
asked; without it the refinement is false, as `link_late` shows.
`PioHandler` implements `PinHandlers` without any assumption but that different
sources share no pin.  A source has its handler from the write of the entry's
last field on; it is raised while its bit is in the enabled status or in the
status of a walk that has yet to reach its entry.  `Startup` extends `ClockTree`:
its first step is `sysclk_init`, and a reset returns to it.

Abstractions.  Text is a sequence of pieces: each pattern that `strstr` looks
for is two pieces, so that it can be present in part, be cut by a handler, or
be left behind.  Eight streams become the elements of the constant `Streams`.
A byte of an image is one of the three marker bytes or another one.  A command
line is sent in one step once CTS allows it, where the code waits for CTS before
each character; what the module makes of image bytes that it does not expect
is left out.  The
capture unit stores single bytes; the program counts words of four, the models
bytes.  Delays (`delay_ms`) are single steps.
Of the sensor's registers those are kept that the driver compares, tries, or
finds in both banks, and of the four lists the selects of a bank and the writes
to them.  In `PioHandler` a detected edge is a bit of the status; which edges a pin detects
(`ul_attr`) is left out.  In `Startup` a register is what the write to it is for: a
clock that is on, a source that is unmasked, a divisor; frequencies are in Hz
and computed as the code computes them.
In `Webcam` a picture is reduced
to its length being 0 or not, and "connected" is the module's output pin.
Commands are named by their words joined with `_`.

The external parts are modelled from what the code writes to them and expects
of them.  The module reads a line, answers with the text the code looks for and
then raises the pin; the constant `ModuleMay` says what else it may do: stay
`silent`, `refuse` a command, answer `late`, `report` a completed transfer,
`hold` CTS, or `overrun` the receiver.  The sensor sends frames all the time.  On
the TWI bus it may refuse or stretch any byte, and its answer to a read that the
driver has given up stays in the receive register until something reads it.

## Runs

| Run | Expectation | Shows |
|---|---|---|
| `link_ontime` | holds | with faults but punctual answers: waits end on their own answer, of which the text is in the line, the last poll's answer is current, no command is taken for data, and the link implements `CommandExchange` |
| `link_anytime` | holds | with every fault: the line is bounded and terminated, every command returns |
| `link_transfer` | holds | the image bytes written are those announced, and all arrive |
| `link_late` | `AckIsOwn` fails | the answer to an earlier command acknowledges the current one |
| `jpeg_scan` | holds | the search against its reference definition, over all buffers of six bytes and all bytes behind them, repeated captures included |
| `jpeg_retval` | `SuccessMeansStart` fails | success without a start marker: both indices stay 0, and the length is 0 - 0 + 1 |
| `capture_frames` | holds | handshake with interrupt and PDC, whole frames, captures return |
| `sensor_start` | holds | however the first transfers fail, `configure_camera` ends, and configures an identified sensor; what the trial write leaves behind and what the lists miss is explained by the transfers that failed |
| `webcam_loop` | holds | the loop goes on but for one case; nothing is asked of a module held in reset, and what is known of network and streams is kept; no pictures for nobody; a press reaches the setup command |
| `webcam_reset` | `ResetReleased` fails | the module is never released from reset |
| `pio_dispatch` | holds | the table stays in order, no handler is called that is not there, each detected interrupt leads to one call of its own handler (`PinHandlers`) and is not left waiting |
| `startup` | holds | clocks in the right order, right rates, handlers in place before their interrupts, devices reachable when they are used, and the loop is reached after any one reset |

Every failing run checks one property that a comment of the code states; the
finding in `PROJECT.json` quotes it.

The models also contain the following, which have no run of their own:

* `link_late` fails in the same way with `ModuleMay = {"report"}`: the edge of the
  "Complete" report after a transfer ends the wait of the next command at once.
* `StreamAgreed` holds in `link_transfer` because that module rejects nothing.
  With `ModuleMay = {"refuse"}` it fails: `image_transf_ready` is never reset
  (`wifi.c:274`), so a transfer rejected after an earlier success is followed by
  its bytes.
* The first poll may time out, and `no_open_streams` is false from the start: then
  a picture is taken though no stream was reported open (`main.c:101`).  Once the
  module has said that there is none, `NoPictureForNobody` holds.
* A capture may start on a falling edge of Vsync, or on an edge of an earlier
  frame, although `camera.c:165` says that it starts on a rising one:
  `OV_VSYNC_TYPE` (`conf_board.h:133`) sets no edge.  `CapturesWholeFrame` holds
  wherever it starts.
* With a start marker that is not among the first two bytes, and no end marker,
  `image_size` wraps around (`camera.c:229`) and passes for valid in
  `write_image_to_file`; `ReportsNullLength` says exactly when it does not.
* The search reads the byte behind the buffer (`camera.c:217`).  In the committed
  build that is a Boolean, so no marker ends in it; `FindsTheImage` shows that any
  byte there leaves an image in the buffer as it is.  Without an end marker in
  the buffer it could complete one, and one byte too many would be sent.
* A report of an open stream during the pause of `main.c:110` is overwritten by
  `main.c:111` and lost until the next poll that is answered.
* A press of the button during a setup command, after its line was written, is
  forgotten: `main.c:120` clears the flag after the command instead of before.
* `ov_configure` returns 0 whatever its writes returned, although its comment
  says "0 on success, 1 otherwise" (`ov2640.c:411`); `Configured` says what a lost
  write of a register costs, that register and no other.  A lost select of a bank
  sends all writes up to the next one to the other bank; `Configured` leaves that
  case out.
* `ov_test_write` is to "return old value" (`ov2640.c:169`).  It does not when the
  read of it, the check or the write back fails: an attempt that gives up leaves
  the trial value, and the next one keeps that as the old value (`TrialUndone`
  without its exception fails).
* A byte that comes after the timeout of its read makes `ov_init` fail for ever:
  nothing empties the receive register, so each read returns the byte of the one
  before (`ConfigureReturns` without its exception fails).  `twi_master_read` even
  tests the timeout before a byte that is already there.
* The exception in `LoopGoesOn`: CTS has a pull-up (`wifi.h:76`), and if it floats
  high while the module is in reset, a setup command blocks for ever.
* A web setup session leaves the network, so the next turn of the loop pulls
  RST low and ends the session (`OtherAnswered`, then `LoopTop`, `ResetModule`).

* If the first wait of `pmc_switch_mck_to_pllack` gives up, the processor goes on
  with the crystal divided by two, 6 MHz, and every driver computes with 120 MHz:
  `sysclk.c:234` ignores the result (`HzKnown`, `RatesRight` hold up to that).  The
  timer runs from the slow clock, so that commands still time out in seconds.
* `tc.c:482` guarantees `MCK / (DIV * 65536) <= freq`.  The lower bound is rounded
  down, so for some master clocks, those between 8.4 and 16.7 MHz among them, it
  does not hold; at 120 MHz and 1 Hz it does, and RC is 32768.
* With the table full `pio_handler_set` refuses even a pin that is "already
  defined" (`pio_handler.c:151`).  `pio_handler_set_priority` forgets what is pending.
* `init_camera` enables the interrupt line of the TWI, for which the program has no
  handler; no TWI source is ever unmasked (`HandlerKnown`).
* `opt.smbus` is not set (`camera.c:248`): the quick command that a wrong value starts
  leaves at most a refused byte behind, with which the first transfer of
  `configure_camera` may fail; it is tried again.
* The debounce filters (`wifi.c:146`, `wifi.c:168`) are given a period but never
  enabled; a bouncing button only sets its flag again.

### Bounds

* `WifiLink`: two streams, a line of 7 pieces (the longest reply and one piece to
  spare, so the bound is tight), three commands (two in the run with every
  fault, whose liveness is the most expensive): enough for an answer to arrive
  one command late and for a transfer to be followed by another command.
  `CountMod` = 4 stands for the 256 values of a byte, the timeouts 2 and 7 for 50
  and 1000: the second is truncated, as 1000 is.  Images of up to 3 bytes.
* `JpegScan`: six bytes hold a pair of start markers and an end marker, in any
  overlap, at both ends of the buffer; the byte behind the buffer is any byte and
  stays the same from capture to capture; `WordMod` need only exceed twice that.
* `FrameCapture`: frames of 4 to 6 bytes and a buffer of 11, the smallest that
  `FrameAssumption` allows.
* `Sensor`: three failed bytes, enough to lose one in an attempt, one in the next,
  and one in the lists; two polls stand for `TWI_TIMEOUT`.  The sensor's tried
  register may hold the trial value, or 0, to begin with.
* `PioHandler`: a table of two entries and three sources, one of two pins and two on
  one controller, so that the table fills, a source is defined twice and a walk
  goes on past an entry; one change of priority.
* `Startup`: the frequencies of the program; one tick stands for a command's
  timeout, as each command starts to count anew; one reset of the processor, at
  any point: all that it leaves as it was is the module, which may be in any
  state when the first boot begins as well.
* `Webcam` is finite without bounds.

### Fairness

* The processor executes: weak fairness on each statement of the main program.
  A statement that waits for CTS needs strong fairness in `WifiLink`, since CTS
  may go up and down; it stands for a module that lets the transmitter run
  again and again for long enough.  In `Webcam` CTS, once low, stays so until the
  next reset, so weak fairness does.
* Pending, enabled interrupts are served: weak fairness on the handlers.
* The timer is a free-running peripheral: weak fairness on `Tick` and `Expire`.
* The module ends a reply it began and, in `link_transfer`, answers each command;
  it need not answer at all in `link_anytime`, where ignoring a command is a
  choice.  The sensor keeps sending frames, which `CaptureReturns` needs: the
  code has no timeout there.
* The sensor answers what it does not refuse, and lets go of a clock that it
  stretches: without this `ConfigureReturns` fails, because no wait of
  `twi_master_write` has a timeout.
* In `PioHandler` a dispatcher that runs goes on (weak fairness), and a controller
  whose interrupt is pending again and again gets its turn (strong fairness): the
  edges of the others come milliseconds apart.
* In `Startup` oscillators and PLLs settle, the module boots after its reset, and
  the timer runs once it was started; the module need not answer.  The number
  of resets is bounded, so the last boot is not interrupted.
* Nobody has to press the button or provide a network.

`WifiLink!Tick` leaves out ticks while a finished wait has yet to be noticed:
the polling loop runs in microseconds, a tick takes a second.  This also keeps
`counts` from wrapping around past `cnt` in between.

## Proofs

All theorems hold for every value of the constants that the named assumptions
of the modules allow.

* `WifiLinkProofs`.  `TypeCorrect` comes first.  `LineTerminatedHolds`: that the
  cursor stays in the buffer is not inductive, because the bytes still to come
  matter; `LineInv` bounds the cursor plus what is left of the reply
  (`ToCome`), by the longest reply plus the one character that the comm pin's
  handler can leave in the receiver.  It needs `MAX_INPUT_WIFI` above that length
  (`LineAssumption`): 1000 against the eight streams of a poll.  `AckInvariant`,
  `AckIsOwnHolds` and `LinkImplementsExchange` assume `OnTime`, that the module is
  never late and never reports; `AckInv` says that at most one answer is under
  way, to the current command, and only while it waits with time left.
* What the link makes of an answer (also `WifiLinkProofs`).  `LinkInvariant` assumes
  `Prompt`: on time, and no character overruns the receiver.  `LinkInv` adds to
  `AckInv` and `LineInv` where the text of an answer is: in the line, in the
  receiver, or still to be sent, in every split of its two pieces (`Arriving`);
  that nothing but an end of line outlives the clearing of the line (`TextInv`);
  and what the firmware will therefore find (`DataInv`, `PollInv`).
  `PollAnswerIsCurrentHolds` and `LineNotDataHolds` follow.  The module may still be
  silent, refuse, or hold CTS.  `StreamAgreedHolds` assumes `Willing`, a module that
  answers everything, because it fails for one that refuses (see above).  That
  the streams are finitely many and no other text (`StreamsAssumption`) is what
  makes a poll's answer end, and no stream read as a keyword.
* `JpegScanProofs`.  `ScanInvariant` is the loop invariant: what was found is the
  first of its kind among the bytes seen.  `FindsTheImageHolds` reads the result
  off it, using that a marker the byte behind the buffer completes comes after
  all others and that lengths below the buffer's size survive `% 2^32`;
  `ReportsNullLengthHolds` also needs that a wrapped length is not 0.
* `FrameCaptureProofs`.  `CaptureInv` ties interrupt mask, capture enable and PDC
  counters to the place in `start_capture`; `VsyncFlagFresh` and `BanksFree` follow.
  `FrameInv` adds what the buffer holds, whatever was in it before: after the rest
  of the frame in which the capture began, the beginning of the next
  (`Catching`), until one whole frame is in it (`Caught`).  The rest is shorter than
  a frame, so that a buffer of `2 * MaxFrame - 1` bytes is full only when a frame is
  caught: that is `FrameAssumption`, and `CapturesWholeFrameHolds` follows.
* `SensorProofs`.  `SensorInv`: a local variable of `ov_init` whose read failed still
  holds 0, no place is reached without the value that the one before asks for,
  and nothing that comes from the other bank looks like an identity.  It follows
  that no failed read passes for an answer (`ConfiguresTheSensor`).  `TrialInv` follows
  the byte that a given-up read leaves in the receiver: once the first half of the
  identity was read in this attempt none is left (`Fresh`), so what `ov_test_write`
  reads back is its own register, and `TrialUndoneHolds`.  `ListsInv` says that
  before each entry of the lists the sensor is, in both banks, as the entries so
  far say (`AsSaid`), up to the lost ones; an accepted write moves the place and the
  sensor together.  At the end of the last list this is `ConfiguredHolds`.
* `PioHandlerProofs`.  `PioInv` has two parts besides the types.  `TableInv`: entries in
  use are complete and no two alike, and those behind them are zero, but for the
  one that `pio_handler_set` is filling, of which it says what is written so far.
  `EnabledInv`: only sources whose `pio_handler_set` has returned are enabled, and a
  walk that has bits left has not passed their entries.  `NeverCallsNull` follows.
  `PinHandlersImplemented` shows, action by action, that each step is one of
  `PinHandlers` or changes nothing there; a step of a walk is a call exactly when the
  entry is that of a raised source.
* `ClockTreeProofs`.  `ClockInv` says for each place in `sysclk_init` how far the
  controller may be; that no frequency is too high follows from it and from the
  limits on the configuration (`ClockAssumption`) alone.
* `StartupProofs`.  The boot, the interrupts and the hardware leave the clocks alone
  and a reset starts them anew, so `ClockInv`, `NeverTooFast` and `HzKnown` hold in the
  composition; `StartupTypes` adds the ranges.  `BootInv` says that every step of the
  list before the current one has left its trace (`Done`), and that a reset pin is
  high that was raised and not lowered since (`Raised`).  Lemmas about the list
  itself (`BootSteps` and those after it) say what comes before what;
  `StartupHandlerKnown` and `StartupDevicesReachable` combine the two.
  `StartupRatesRight`: a divisor that is set is the one computed
  (`DivisorsComputed`), and lemmas about `DriverRates` bound the error of the rounding
  in each driver.  They hold for rates that suit the clock (`BaudAssumption`,
  `BusAssumption`, `TimerAssumption`), as 115200 baud, 400 kHz and 1 Hz do at 120 MHz,
  and not for all: `twi_set_speed` rounds the divisor down, so that a bus clock that
  is no whole number of master clocks comes out too fast.
* `WebcamProofs`.  `MainInv` has two parts besides the types.  `HeldKnown`: while RST
  is low the module has no network and `main()` knows it, unless it is about to
  read the pin; `NoTrafficWhileHeld` follows.  `NoneKept`: nothing turns a "None" into
  an open stream but an answer, so that one test of `no_open_streams` decides on
  each picture, and `NoPictureForNobody` follows.

TLC checks `LinkInv` in `link_ontime`, `ScanInv` in `jpeg_scan`, `FrameInv` in
`capture_frames`, `ConfigureInv` in `sensor_start`, `MainInv` in `webcam_loop`, `PioInv` in
`pio_dispatch` and `StartupInv` in `startup`, so that the invariants that are proved
are also explored; `BootInv` and `DivisorsComputed` are proved only.

Only model-checked: the liveness properties (`CommandReturns`, `ImageDelivered`,
`CaptureReturns`, `LoopGoesOn`, `RequestTaken`, `ConfigureReturns`,
`InterruptHandled`, `StartsUp`, `InterruptsServed`), because liveness under fairness is
out of the proof system's reach, and the assumptions on the configuration's rates,
which are evaluated for the program's numbers.

## Not modelled

* Most of the tree: register definitions, CMSIS with its signal processing library,
  the C library's system calls, and the drivers and driver functions that this
  program never calls (`uart.c`, `wdt.c` but for one write, the slave, SPI, LIN, IrDA and
  ISO7816 modes of `usart.c` and `twi.c`, the other clock sources of `pmc.c`).  They make
  up more than nine tenths of the lines and have no behaviour in this program.
* Pin attributes (`gpio_configure_pin`, `pio_configure_interrupt`), except where a
  module names the one it depends on.
* The four-byte holding register of the capture unit, between
  `pio_capture_enable` and the programming of the PDC; the handler for capture
  events in `pio_handler_process`, which the program does not set.
* Sensor registers that the driver only writes: their values are the sensor's
  business.
* The text that the module prints while it boots, and its echo before the first
  two commands turn it off.  Nothing clears the reply line before the first edge
  of the comm pin, so `LineAssumption` must cover that text, too.

## Plan

Done, in this order: `CommandExchange` and `WifiLink`, the core of the program;
`JpegScan`; `FrameCapture`; `Webcam`; `Sensor`; `PinHandlers` and `PioHandler`; `ClockTree`,
`DriverRates` and `Startup`; the theorems above.  Left:

1. A composition of `Webcam` with `WifiLink`'s module, so that the streams and
   transfers that `Webcam` abstracts are the link's, with the proof that it
   implements `Webcam`.
