# Smart Fault Monitoring Device: a TLA+ development

The device watches a miniature circuit breaker (MCB). A Tiva TM4C123 controller
samples the line current and the voltages before and after the MCB, decides
whether power is OK, the MCB has tripped or the mains is gone, and sends a
six-byte report over a serial line. An ESP8266 gateway parses the report and
publishes it to an AWS thing shadow, whose rule sends an email when a flag of
the report says so. This directory holds TLA+ modules of that code, the TLC
configurations that check them and the theorems that TLAPS proves about them.

Paths below are relative to `src/`; `DAQ.c`, `DAQ.h` and `main.c` are those of
`Code/Tiva_Controller_Code/SourceCode/`, `init.js` is
`Code/ESP8266_Code/fs/init.js`.

## The system

| Component | State | Operations | What makes it correct |
|---|---|---|---|
| Sample acquisition (`PerSampleActivity`, DAQ.c:45-87) | per channel the running sums, the average of the last cycle, the sample count | one sample, every 1.25 ms, in the ADC interrupt; every 16th publishes the sums and sets `bCycleOver` | what is published is the energy of one cycle about its mean |
| Metering task (`DAQ_20msTask`, DAQ.c:98-148) | mean squares, RMS values, the peak, the tripped values, `bTripFlag` | one call per pass of the main loop | verdict, values and peak belong to one measurement; the peak of a fault survives the fault |
| Main loop (main.c:225-308) | `Status`, `Current_High`, ..., LED | wait 2.25 s, measure, show, send six bytes | a report is of one piece, a state that lasts is reported |
| Timer (main.c:312-326) | `uiCounter` | every 1.25 ms starts a conversion; every 4001 ticks sets `bTimeoutFlag` | the count stays within its limit |
| Gateway (init.js) | receive buffer, `sts`, `stsPrev`, `irms`, `v1`, `v2`, `sendEmail`, LED | install the dispatcher, dispatch, `readString`, `report`, delta message | every report is parsed from its first byte and published; a change of state is announced, and nothing else is |
| Serial console (`uartstdio.c`) | ring buffers, the FIFOs and interrupt of the UART, echo, `bLastWasCR` | write, read, peek, flush, print; with `UART_BUFFERED` an interrupt handler works on the same rings | two queues: in order, once, nothing waits for ever; what is printed is what the comments say |
| Peripheral set-up | registers | straight-line code before interrupts are enabled | |
| AWS rule, dashboard | the shadow, the desired LED | hosted service: takes updates, sends deltas and emails | an email for every change of state |
| Earlier copy of the gateway (`build/fs/init.js`) | as the gateway | the program built into the firmware image, the same statements | the device end to end |
| Lab experiments | button debouncing, colours, brightnesses, a servo, a plotter's line, a display | polling loops and timer handlers; a Python script on the host | no press lost or counted twice, no jump of a colour, the picture that was meant |

The handlers and the main loop of the controller share the one-byte bit-field
structure `g_stFlags` and the published sums, with no protection. Controller
and gateway share nothing but the serial line.

What is hard: an assignment to a bit-field is a load and a store of the whole
byte (in `Debug/DAQ.obj`: LDRB, BIC or ORR, STRB), so an interrupt between them
has its own flag wiped out; the three sums are read one after the other; the
loop needs 2.25 s for a pass and the mains 20 ms for a cycle; a report is put
together from flag, status and values over many steps; the peak is held,
replaced and forgotten over many passes; the receiver has to find where a report
begins; the gateway's flag for an email lives in one update that may be lost or
sent again; the sums of a cycle are taken about the average of the cycle before. In the console the handler that echoes
advances the index that the caller is about to store, and a stalled transmit
interrupt is never noticed; in the laboratory programs contacts chatter, timer
handlers share flags with `main`, and the host throws away half a line.
`PROJECT.json` lists each of these hazards with its line and the
properties that cover it.

## Modules

`Metering` holds the arithmetic as pure operators: scaling by gain and shift in
64 bits and the cast to 32 (`Scaled`, `MeanSqr`), the truncated square root
(`ISqrt`), the no-load limits (`RMS`), the chain of conditions (`Verdict`), the
peak hold (`Peak`), the bytes of a report (`Frame`) and how the gateway puts the
current together again (`CurrentIn`). `MaxUInt32` is a constant because TLC's
own integers are narrower; everything proved assumes of it only that its root
fits 16 bits.

`Meter` is what the controller promises: it observes a measurement, judges it as
a whole, remembers the one of the highest current, forgets only in a healthy
state, and sends a verdict with the values that belong to it.

`Controller` is the program. `pc` is where the main loop is; each statement that
changes shared state is an action.

| Code | Action |
|---|---|
| `Timer0IntHandler` | `Timer0IntHandler` |
| `ADC0handler` with `PerSampleActivity` | `ADC0handler`; the sums of the cycle are an arbitrary member of `Readings` |
| main.c:227-230, the 2.25 s delay | `Delay`, enabled when at least `DelayCycles` cycles have ended in it |
| main.c:232 | `Check` |
| DAQ.c:100 | `ClearLoad`, `ClearStore` |
| DAQ.c:101, 102, 103 | `MeanCrnt`, `MeanVolt1`, `MeanVolt2` |
| DAQ.c:105-123 and the assignments to `g_stTrippedMetVar` | `Compute`: no handler reads or writes any of it |
| DAQ.c:127, 132, 137 | `TripLoad`, `TripStore` |
| DAQ.c:138, 140 | `TestTimeout`, `AckLoad`, `AckStore` |
| DAQ.c:141-143 | `Forget` |
| main.c:235-262 | `Decide`, `SendLoad`, `SendStore` |
| main.c:263-266 | `Latch` |
| main.c:275-304 | `Transmit`, once per byte |

The two handlers have the same (default) priority on the Cortex-M and never
nest, so each is one step; a conversion ends before the next tick (1.25 ms), so
they alternate. `bPowerUpFlag` and `newtemp` are never read and left out, as
are the debug prints that `UART_Debug_enable` 0 compiles away. `window` is a
history variable: the currents measured since the peak was last forgotten.

`Gateway` is the program of the ESP8266 with the line before it and the shadow
behind it. mJS is single-threaded, so a callback is one step; what matters is
where callbacks fall between the bytes of a report and the messages of the
cloud.

| Code | Action |
|---|---|
| init.js:129 | `EnableRx`; the line may be in the middle of a report |
| the 5 s timer with `bu`, init.js:82-85 and 115-127 | `Bu` |
| the dispatcher, init.js:116-126, with `readString` and `report` | `Dispatch`, `Parse`, `Report`, `Message` |
| the delta handler, init.js:140-147 | `Delta` |
| UART driver and line (external) | `Arrive`, a byte |
| MQTT (external) | `Connect`, `Disconnect` |
| shadow service and email rule (external) | `Update`, `Desire` |

What is taken of the external parts: a byte is kept from `setRxEnabled` on; the
dispatcher runs some time after bytes came in, not once per byte; `UART.read`
takes all there is; `UART.flush` waits for the output only; `MQTT.pub` without a
connection does nothing and the messages on their way are lost with it (the
program looks at no result); the shadow answers an update whose LED is not the
desired one with a delta; the rule sends an email for every update with
`device59.203` = 1. The handlers of the accepted and rejected topics and of the
network events only print and are left out. `attended` says whether the
dispatcher has run since the last byte; `inStep`, `lost` and `heard` are history
variables: whether an update was lost, and what the shadow got, since the gateway
started.

`Acquisition` is the arithmetic of `PerSampleActivity`: `TakeSample` and
`EndCycle` are its two paths. `squares` and `last` are history variables, the
sum of the squares of the samples and the sums of the published cycle, from
which the energy about any average can be computed. The interleavings of the
handler are those of `Controller`; here every sample is a choice from `Inputs`.
`m_iSampleBuff` is written and never read, and left out.

`System` is the device end to end: `Meter` in the place of the controller, which
implements it (theorem `Refinement`), the actions of `Gateway`, and a reboot of
the module at any moment. `Measure`, `ForgetPeak` and `Deliver` are a pass of the
main loop seen from outside; `GatewayStep` and `CloudStep` are the gateway and
its cloud with the history variable `dropped`. The script that runs is
`build/fs/init.js`, whose statements are those of `fs/init.js`.

`Ring` has the macros of the console's buffers, `Console` the build with
`UART_BUFFERED` on top of it, `Pipe` what that build promises (two queues),
`Polled` the build that the firmware has (`UART_BUFFERED` is not defined in
it). Of `uartstdio.c`:

| Code | Definition |
|---|---|
| 146-309, the macros, `UARTPrimeTransmit` | `Ring`; `PrimeMask`, `PrimeFill` |
| 434-510 `UARTwrite` | `CallWrite`, `TestRoom`, `StoreChar`, `LoadIndex`, `StoreIndex`, `TestSend`, `Arm`, one per access that the handler can come between; `Written` where nothing can |
| 540-640, 776-800 `UARTgets`, `UARTgetc` (buffered) | `CallRead`, `TestAvail`, `ReadForLine`, `UARTgetc` |
| 1295-1530, flush, echo, peek, free space | `UARTFlushRx`, `UARTFlushTx`, `CallDrain`, `Drained`, `UARTEchoSet`, `Peek`, `UARTTxBytesFree` |
| 1532-1720 `UARTStdioIntHandler` | `UARTStdioIntHandler`, run to its end in one step |
| 640-770, 806-818 (polled) | `Backspace`, `SkipLF`, `EndLine`, `StoreKey`, `CallGets`, `UARTgetc` |
| 855-1290 `UARTvprintf` | `PrintText`, `ReadWidth` and one action per conversion; `Converted` for the `convert` label |

The promise of the buffered build has a limit that is in the code: while echo is
on, the handler calls `UARTwrite` itself and takes characters back, so it can
change a ring between two accesses of the caller. `clash` records the first
time, and `Pipe` promises nothing after it.

The laboratory programs are one module per kind: `Lab1` (lab-0.c, lab-1.c and the
two parts that poll buttons in `main`), `Lab2` (the state machines of lab-2.c),
`Rainbow` (Lab3P1A.c, LAB3P2.c), `Lamp` (lab3P1B.c with its three timers),
`Plotter` (lab4_Adc_Uart.c with plotSerialCom4.py on the host), `Glcd` (the three
programs of the display). `Board` holds what they share: two buttons that chatter
for `Bounce` units after a finger moved, and the program that was flashed. In
`Labs` one of the programs runs and the variables of the others stand still.
Where the two students handed in the same program up to comments and layout it
is modelled once. The names `Fade`, `Raise`, `Show` and so on are the pieces of a
`main` between which a handler can come; everything else of a pass is one step.

`MCController`, `MCGateway`, `MCAcquisition`, `MCSystem`, `MCConsole` and `MCPolled`
give the inputs of the runs. `MeteringProofs`, `ControllerProofs`, `GatewayProofs`
(with `System`), `AcquisitionProofs`, `RingProofs`, `ConsoleProofs`, `PolledProofs` and
`LabsProofs` hold the theorems. The inductive invariants stand at the end of the
modules they are about.

A definition whose name begins with `Bug` is a plausible mistake in the
definition after it. No specification uses it; `PROJECT.json` lists which
property is violated when it takes that definition's place.

## Runs

| Run | Question | Result |
|---|---|---|
| `controller` | Does any interleaving of the handlers with the steps of the main loop break a report, the peak hold, or the promise of `Meter`, or keep a reading that lasts from being reported? | No: 662,854 states |
| `controller_torn` | readme.md:14: is the trip flag raised only for an MCB that tripped? | No: when a power cut is published between two of the three reads of DAQ.c:101-103, a trip is reported although no cycle measures one |
| `controller_gap` | readme.md:12: does Power OK mean power on both sides? | No: 50 to 200 V before the MCB fall through to the last branch whatever is after it |
| `gateway` | Does any order of bytes, callbacks, updates, deltas and disconnections make the gateway misread a report that began in step, lose step in the middle of one, or miss an email without losing an update? | No: 4,331,740 states |
| `gateway_start` | init.js:109: is what is parsed a report? | No: a gateway that starts to listen within a report parses its rest and the beginning of the next |
| `gateway_user` | readme.md:15: is the user told of a state that lasts? | No: the flag is up in one update, and that one may be lost |
| `acquisition` | What does the average of the cycle before do to what is published, and does it fit 32 bits? | It only enlarges the sums, and they fit once the offset has settled: 41,752 states |
| `system` | From a measurement to the shadow, with deltas, broken connections and a reboot: does the shadow tell the measurement, are emails due and does the last one stand, is what lasts shown for good? | Yes, but that the end of a fault that falls into a reboot is not announced: 683,477 states |
| `console` | Does the interrupt handler, between any two accesses of a call, break the two queues, forget to send, or keep a line back? | No, until the echo first clashes with the caller: 689,058 states |
| `polled` | Does `UARTprintf` send what its comments say for every value of a word, and do terminal, buffer and Enter agree? | Yes, but for a zero before the width of a string and a LF alone after a CR alone: 56,906 states |
| `polled_enter` | uartstdio.c:549-551: does a LF that is not the second of a pair end the line? | No: a `bLastWasCR` left by an earlier line swallows it |
| `labs` | Does chatter, a handler between two steps of `main`, or a flush of the host break one of the laboratory programs? | No: 1,550,713 states |

Properties of `controller`. `EveryPassMeasures`: although `bCycleOver` can be
wiped out, the loop finds it set whenever it looks, because more than a hundred
cycles end in the delay and the loop stores no flag meanwhile. `PeakHold`: the
peak is the highest current of exactly the measurements since it was forgotten.
`ReportCoherent`: a complete report, the LED and the verdict agree.
`ReportedCurrent`: a fault is reported with a current no lower than any in
memory, a healthy state with the current measured. `PeakKeptInFault`: the peak
goes down only in a healthy pass. `SteadyStateReported`: a reading that repeats
for good is reported for good, with its verdict. `ImplementsMeter`: every step is a step of
`Meter` or a stutter, with `peak <- maximum`, `report <- sent` and the verdict
taken from the measurement while its flag is being stored and from the flag
afterwards.

Properties of `gateway`. `ReadAsSent`: a report that began with nothing buffered
is parsed as it was sent. `StaysInStep`: in step the gateway stays in step,
whenever `bu` runs again and wherever the dispatcher falls within a report,
unless the next report begins before the dispatcher has run after the last; with
one report in 2.25 s it does not. Nothing else brings it back into step but a
read that empties the buffer in a pause. `MailTellsState`: as long as no update
is lost, the last email tells the status that the shadow shows, although the
flag compares two reports of the gateway and the shadow may be behind.

Properties of `system`. `ShadowTellsMeasurement`: a report that began in step and
was not dropped leaves in the shadow the verdict on the measurement behind it,
with its current, or in a fault with one no lower than any in memory, whatever
rebooted or broke before. `EmailsOnceOrRepeated`: while nothing is lost an email
tells a state other than the one reported before, or a delta made the gateway
publish that very report again. `LastEmailStands`: once the gateway has reported,
and while it loses nothing, the last email tells what the shadow shows, or it is
of a fault whose end fell into a reboot. `SteadyReportShown`, `SteadyMeasurementShown`:
a report that repeats, and a measurement that repeats, are shown for good once
the connection lasts and the gateway is in step, after any reboots. The premise
`inStep` is needed: nothing in the code brings the gateway back into step by
force.

What the runs and theorems say together about the email, which is all the user gets: a
change of state is announced in one update. If that is lost, it is not announced
(`gateway_user`). If it arrives, it is announced once, and again for every delta
before the next report, because `report` publishes the flag as the last report
left it; the comment of init.js:103, "set email flag only on state change", is true of
the flag and not of the updates that carry it. `sts` is 0 when the script starts,
so a gateway that starts again in a fault announces that fault again, and one
that starts again after a fault ended does not announce the end: until the next
change the last email the user has is that of the fault. A lost update is
forgotten with a restart: both properties speak of the updates since the gateway last
started, with the state that `sts` then stands for (`Known`).

Properties of `acquisition`. `NeverUnderestimates`: what is published is at
least the energy about the cycle's own mean, but for the truncated average. A
wrong offset makes the sum larger, never smaller; but a sum that has become too large
is cut to 32 bits (DAQ.c:101) and can read as a small current. `SettledFits`: with the average
of the cycle before equal to its own, no samples whatever make DAQ.c:101 wrap;
full-scale samples about an average that jumped would
(16 * 4095^2 = 268 million, above the limit of 149 million).

Properties of `console`. `ImplementsPipe`: until a clash the rings are the queues
of `Pipe`, whatever the handler does in between, and a backspace takes back only
what was typed last and not yet read. `NeverStalls` and `Drains`: outside
`UARTwrite` a ring with something in it has its interrupt enabled and on its way,
and so it empties. `RoomHonoured`: a caller that keeps one below
`UARTTxBytesFree` has its whole text queued although the handler runs meanwhile
(not while the handler echoes). `LineReturned`: a line whose end `UARTPeek` finds
`UARTgets` returns without another key, whether CR, LF or ESC ended it; while the
console echoes, a backspace may take the end back first, as it does any other
character. (Two comments, uartstdio.c:1356-1358 and 1670-1672, say that the end is
marked by a CR whatever was typed. It is not: lines 1690-1691 store what was received, so
`UARTPeek('\r')` does not find a line that a LF or ESC ended. `UARTgets` looks for
all three.)

Properties of `polled`. `PrintedAsDocumented` compares the loop of powers, the
padding and the sign, in a word of 8 bits that overflows on the way, with a
plain numeral padded to its width. `Documented` is what the comment says
(uartstdio.c:844-850), `Expected` differs from it in one thing: the comment promises
zeros for `%05s` too, and the code always pads a string with spaces (1056-1062).
`ScreenShowsLine` replays the echo on a terminal. `OneLinePerEnter`: an Enter
that sends CR, LF or CR LF ends one line, also when the LF is read by the next
call, whatever is typed in between and whatever the Enter before it sent, with one
exception: a LF alone after a CR alone, taken for its second half even with
a whole line of characters between. `LFEndsLine` is that exception, against the
comment of `UARTgets`, and is violated in the run `polled_enter`.

Properties of `labs`. `NoPressCountedTwice`, `EveryPressSeen`, `PressesRegistered`
count presses of a chattering button against what the programs counted;
`OneLedAtATime` follows a user who changes the LED between the pass that lights
it and the pass that clears it; `FadesSmoothly` is the race of `main` with the
counter of the timer; `CountStartsAtZero` the reset of a count that a handler
increments (`late` names the window between the resets of count and flag; a press
counted in the window before, between the use of the count and its reset, is lost);
`WholeLinesPlotted` follows a host that flushes in the middle of a line;
`ShowsPicture` compares the memory of the two display controllers, pixel by
pixel, with the picture last drawn. It says nothing before the first: with the
joystick in the corner (0, 0) at power-on, the position that
lab5_2_SqaurePos.c takes to be drawn already, the display keeps whatever its
memory held until the joystick moves. `lab5_1_glcd.c` does not compile as it is in
the repository (its `main` has no opening brace); it is modelled as if it had one.

### Bounds

- `DelayCycles` 1 (112 in the code): one cycle in the delay is the worst case for
  the flag; more change nothing but the number of handler steps.
- `SamplesPerCycle` 2 (16), `TimeoutTicks` 3 (4000), so a timeout after every second
  cycle: short periods let cycles and timeouts fall on every step of the main loop, one
  without the other and both together, more often than in the device, and the
  handlers are free to run any number of times between two steps.
- `MaxUInt32` 2147483646: TLC's integers have 32 bits. No reading of the runs
  comes near it, so nothing depends on the difference.
- `MCReadings` measure 60 mA at 230 V, 300 mA with the MCB open, and nothing: the
  three verdicts, with three currents to tell the peaks apart. `CutReadings` have
  no tripped MCB, `OddReadings` a brownout of 120 V before an
  open MCB.
- `MCReports` are two reports of different status, current and voltage after the MCB:
  shifted bytes of one or a mixture of the two are told from both.
- `MaxBuffered` 7 (1024 in the code) lets a whole report and the first byte of the
  next gather, the way to fall out of step; 12 in `gateway_start` takes
  two whole reports. A dispatcher that lets more than that pile up is out of step
  already, and parses the first five bytes as before. `Arrive` waits at the bound.
- `MaxInFlight` 1: an update or a delta is on its way, and a report waits at the
  bound. What the run `gateway` checks is proved for every
  bound. `Switches` is what the user may wish: 1, or
  nothing where deltas are not the question.
- `MCMeasurements` of `system`: 300 mA at 230 V, and 5 mA with the MCB open, so that a
  peak and a verdict of another measurement are told apart. Bytes arrive three at
  a time, so that a reboot and the dispatcher still fall within a report;
  single bytes are the business of `gateway`. `MaxReboots` 1: after a reboot
  nothing of the one before is left but the shadow and the last email. `MaxBuffered` 6, one report.
- `console`: `TxSize` 3, `RxSize` 3 from its last slot on, FIFOs of 2 with the trigger at 1, two keys, two
  calls, and a text that is a line feed (two characters with its CR): the rings
  wrap, the transmit ring fills up and runs empty, the FIFO fills while the ring
  does not and the other way round. The receive ring holds a line of one character and its
  end, or an end and the backspace that takes it back; two keys fill it and do
  not overflow it, which is left to the proofs. Two calls are a write that the next one meets. `Unclashed`
  keeps the search where the promise holds. The ring operators are proved
  for every size.
- `polled`: words of 8 bits (32), every value of them in every numeric conversion;
  `BufSize` 16 is `pcBuf`; lines of two characters and a zero, four keys: one more
  than fit, and a backspace at the limit, or two Enters with a key between them.
  Each Enter is any of the `Newlines`. Reading is explored after one call of
  `UARTprintf`, as it does not depend on what was printed.
- `labs`: `Bounce` 2 and `Hold` 6 readings with `Debounce` 3 (50000 passes in
  lab-1_PartA_B.c), three presses per button; `Full` 24 (255) with at most 3
  ticks per pass, so that the window of four counts is met at every offset;
  `LongPress` 2 ticks, `High` 3 and speeds 1 and 2 take every branch of
  lab3P1B.c; averages of 0 to 3 (4095) in two binary digits (four decimal ones); a display of 8 columns and 9 rows,
  in pages of 3, has a square across both boundaries at once.
- `MCInputs` has two vectors of samples; the current has the ends of the ADC's range,
  which make the largest energies and jumps of the average, voltage 1 the same in
  opposite phase and voltage 2 two values in between. `SamplesPerCycle` and
  `AverageDivisor` are those of the code.

### Fairness

`FairSpec` has weak fairness on each handler and on the main loop as a whole.
The timer is periodic and never stopped, each tick starts a conversion, each
conversion ends in an interrupt; the handlers are short against the period, so
the main loop always gets the processor again. Nothing is assumed about who
wins a race.

`Gateway!FairSpec` has weak fairness on the bytes (the controller sends for ever),
on the callbacks of the program, which the event loop of Mongoose runs when
they are due (the timer of `bu` is needed once, the first time), and on
`Update`: a message sent over a connection that lasts arrives (MQTT with QoS 1).
Nothing is assumed of the connection, of the user, or of the dispatcher coming
in time. `SystemFairSpec` adds that the controller goes on measuring and sending;
nothing is assumed of reboots but that there are finitely many.

`Console!FairSpec`: the program and the UART go on, and an interrupt that stays
pending and enabled is taken, as the interrupt controller does. Nothing is
assumed of the user: `Drains` holds for a program that waits for a key for ever.

## Proofs

TLAPS proves, for all values of the constants that satisfy the assumptions named
in the modules:

- about the arithmetic (`MeteringProofs`): every 32-bit number has one integer
  square root, below 65536 (`ISqrtCorrect`, by a minimal counterexample);
  `Scaled` is the shifted product of the code (`ScaledIsProduct`); the current
  put together by the receiver is the current measured (`CurrentArrives`);
- about the controller (`ControllerProofs`): the inductive invariant `IInv`
  (`Invariance`), from it every invariant of the run (`TypeCorrect`,
  `FreshPasses`, `PeakHolds`, `ReportsCohere`, `CurrentsReported`), the action
  property (`PeakKept`) and the implementation of `Meter` (`Refinement`);
- about the gateway (`GatewayProofs`), for any set of reports and any bounds:
  its inductive invariant (`Invariance`), `TypeCorrect`, `ReadsAsSent`,
  `KeepsStep`, `MailsTellState`, all the properties of the run `gateway`, and
  `EmailsDueOnly` (`MailStands` is the lemma behind `SystemMailStands`);
- about the device end to end (`GatewayProofs`), for any measurements and any
  number of reboots: `SystemInvariance`, `SystemTypeCorrect`, `ShadowTells`,
  `SystemMailStands` and `SystemEmailsDueOnly`, all the safety properties of the run
  `system`. A reboot is a new beginning for `lost` and `heard`, so the last two say
  something after it too;
- about the acquisition (`AcquisitionProofs`), for any samples and any number of them
  in a cycle: its inductive invariant, the bounds of the sums (`TypeCorrect`),
  that the mean minimises the energy (`LeastEnergy`) and so `NoUnderestimate`,
  and that the energy of counts about their own mean is at most that of a swing
  over the whole range (`GreatestEnergy`) and so `SettledCycleFits`;
- about the buffers of the console (`RingProofs`), for every size: what the macros do
  to the indices, wrapping at either end, is `Append`, `Head`, `Tail` and taking
  back the last of a queue of one less (`PutAppends`, `DropOldestTakesHead`,
  `DropNewestLeavesFront`);
- about the buffered console (`ConsoleProofs`), for rings, FIFOs, texts and keys of
  any size: `ConsoleInvariance`, `ConsoleTypeCorrect`, `ConsoleNeverStalls`,
  `ConsoleRoomHonoured`, and that it implements `Pipe` (`ConsoleIsPipe`), all the
  safety properties of the run `console`;
- about the polled console (`PolledProofs`), for words and buffers of any size, calls
  of any length and any keys: the invariants of its two halves
  (`PrintingInvariance`, `ReadingInvariance`), `PrintsAsDocumented`, `EchoAgrees`,
  `EnterEndsOneLine` and `PolledTypeCorrect`, all the properties of the run
  `polled`;
- about the laboratory programs (`LabsProofs`), all as theorems of the one
  specification of `Labs`: `PressesCountedOnce` (lab-1.c), `OneLed`
  (lab-1_PartC.c), `PressesSeen` (lab-1_PartA_B.c), `PressesKnown` (lab-2.c),
  `ColoursFade` (Lab3P1A.c), `LampCountStartsAtZero` (lab3P1B.c), `LinesPlotted`
  (lab4_Adc_Uart.c with plotSerialCom4.py), `PictureShown` (the display, of any
  size), and `LabsTypeCorrect`: all the properties of the run `labs`.

The assumptions say what the constants are, and where they relate them, the code
does: the root of a word fits 16 bits (`WordAssumption`), the frames of `System`
are the reports of its `Gateway` (`FramesAssumption`), a width in a format is
below the size of the buffer and its argument of the right kind (`WellFormed`),
a buffer and the bits of a word are fewer than the values of a word
(`SizesAssumption`). Three are about time. `Lab2!TimingAssumption`: contacts chatter
for at most two readings of 5 ms, and a finger stays two readings longer; with
three, two closed readings in a row are possible before the contact opens
again. `DebounceAssumption`: the chatter is shorter than the 50000 passes that
lab-1_PartA_B.c asks for, a finger stays longer than both; with less a press need
not be seen at all. `RainbowAssumption`: the timer of Lab3P1A.c ticks at most four
times in a pass of `main`, which is what the delay of 7.5 ms against the shortest
period of 2.5 ms comes to; a faster timer can jump over the four counts
in which `main` looks for the end of a fade. `PlotterAssumption`: dividing an average
by the base, once for each digit sent, leaves nothing; four decimal digits for the
4095 of a 12-bit converter.

The invariants of the runs are not inductive as they stand. What `Controller!IInv`
adds is the reason they hold in spite of the races: only the main loop writes
`bTripFlag`, so a register loaded before an interrupt still has it right
(`RegHoldsTrip`); the main loop stores no flag in its delay (`CycleSeen`); from
the first measurement on, flag and shown values belong to it at every step where
they are read (`VerdictKept`, `ShownKept`, `HealthyBranch`); the bytes already on
the line are those of the report that will be complete (`ReportInProgress`).
`MeanOfReading` ties the mean squares to the readings, for the types.

In `Gateway`, `BufferInStep` says what being in step means: the buffer holds the
bytes of the report so far, or all of them have been parsed and nothing is left.
`ChangesFlagged` says why no email is missed: along the chain from the shadow
through the updates on their way to what the gateway parsed last, a status that
differs from the one before carries the flag. `EmailsDue` is the converse:
no update carries it that neither tells another state than the one before nor
repeats it, and the last in the chain is what was parsed last. At the head of the
chain stands `Known(1)`: the shadow, or, until the first update since a start
arrives, the healthy state that the script assumes. `MailKnown` is what the last
email has to do with it. `System!SInv` adds
the meter's side: what the flag and the values shown stand for (`MeterTells`), what
the report on the line was made of (`FrameTells`), and that nothing parsed is
missing from the chain unless an update was dropped (`Told`).

In `Acquisition`, `RunningEnergy` and `PublishedEnergy` are the sums about the old
average, multiplied out; the rest is the inequality of `LeastEnergy`;
`SquaresInRange` bounds a sum of squares by the largest count times the sum.

In `Console`, `FoundHolds` is what a call found in a ring and relies on at its next
access: room for a character, the index it loaded, a character to read. The
handler can only make room and bring characters as long as it does not echo, and
`clash` is raised where it does and that matters.
`Fetched` says that an interrupt will come for what the ring holds, and
`RoomKept` that the room counted at the call is still there for what is left. The
step of the handler is a loop over the FIFO: `ConsoleProofs` shows for each
character of it that the queues of `Pipe` follow, by induction over the FIFO.

In `Polled`, `Between` and `Within` split the call into the items that are documented
on the line and those that are left in format and arguments, and `Parsing` lists
how far a command may have been read. The conversion itself is a chain of lemmas
on powers and quotients: how many powers the loop passes although a product wraps
in the word, that this is one less than the digits of the numeral, and that the
width, counted down below zero or not, leaves the padding the comment promises.
`Echoed` says what the terminal holds. `EntersMarked` follows `bLastWasCR` through
what is typed and not yet read: `Flagged` is its value when a character will be
read, and a character ends a line that should exactly if it will (`Ending`).

In the laboratory programs, `Behind` is how many presses lab-1.c owes its count,
which grows before the count does; `Counting` where the counter of closed readings
can be a number of readings after a finger moved; `Settling` and `Known` the same
for the state machines of lab-2.c. In `Rainbow`, `Lags` says which counts the
brightnesses on the PWM were computed from, of the present pair of colours
(`Current`) or of the one before (`Former`), and how far the timer can be ahead of
them. In `Lamp`, `CountIInv` follows the reset through the step at which a handler can
undo it, and `FadeIInv` is where each fade left its colour. In `Plotter`, `OnItsWay`
says that the host's input and the board's unsent characters follow one another in
the line that is being sent, unless the host is drawing; a line then parses to its
averages because dividing a number down and multiplying its digits up again meet
(`ValueOfDigits`), and a line cut anywhere to no larger a number
(`ValueOfRest`). For `Glcd`, one byte written changes one column of one page
(`RowStepIs`), so a row, a page after page and a square across two pages show what
they were given (`RowShows`, `FillShows`, `SquareShows`), whatever the memory held.

The theorems of the library that take an operator as parameter are not used.
Where a proof goes by induction over data (a FIFO, a text, the digits of a
number), the statement is made of the set of numbers for which it holds, or the
least number for which it does not; recursion in the modules concerned is written
as a function or as `FoldLeft`, and `RingProofs` has the lemmas on it
(`FlattenConcat` and those before).

Model-checked only: liveness (`SteadyStateReported`, `SteadyReportShown`,
`SteadyMeasurementShown`, `Drains`, `LineReturned`), which is outside TLAPS' reach,
and the five violated claims. Every safety property of a passing run is a theorem.

## Plan

Done: all components, and the proofs above. What could still be added:

1. An abstract specification of the gateway (a mailbox that shows the last report
   or an earlier one) and `Gateway` as an implementation of it.

## Not modelled

- Register-level set-up (`InitADC`, `InitConsole`, `InitConsoleUART1`, `timer0init`,
  the vector table and the GPIO and PWM set-up of the laboratory programs):
  straight lines before any interrupt is enabled. Their effect is the initial
  states and the rates the modules take as constants.
- The API files of Mongoose OS, its generated configuration and TLS and MQTT below
  the calls of `init.js`: vendored or generated; what the program uses of them is in
  the external actions. The dashboard is not in the repository.
- `build/fs/init.js` beside `fs/init.js`: the same statements, so it has no module
  of its own but the composition.
- Pictures of the display (`image.c` and the like) and the duplicates of laboratory
  programs: data, and the same code twice.
- The width of a voltage: a byte per voltage is sent, so 256 V arrives as 0; the cut
  is part of `Metering!Frame`, and nothing promises that it does not happen. The
  pass of 2.25 s against the cycle of 20 ms is a design decision, which
  `EveryPassMeasures` and `SteadyStateReported` take as it is.
- When a peak is forgotten (`main.c:323`: the timeout flag may be lost in a race)
  and what the LED of the gateway should show (`init.js:144`): nothing in the
  repository says what is right, so there is no property, only the behaviour.
- Debug printing and the electronics.
