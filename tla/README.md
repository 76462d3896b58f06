# A verification project for the STM32F0 thermostat firmware

This directory holds TLA+ models of the firmware in `src/Src`, the TLC
configurations that check them on small instances, and theorems about them that
the TLA+ proof system checks for every value of the constants. The modules are
translated from the C++ sources; `PROJECT.json` names, for each definition, the
file and lines it stands for.

Run a configuration with `tlc -config X.cfg M.tla` (the pairs are in the table of
runs below) and the proofs with `tlapm M.tla` for each module whose name ends in `Proofs`.

## 1. The system

The firmware is a thermostat on an STM32F042: a DS18B20 measures a temperature,
a PID regulator drives a heater through a PWM timer, four keys (and the
characters `1`..`4` on a UART, which stand for the same keys) change the
setpoint, an HT1621 LCD shows temperature or setpoint, and a piezo beeps.

There is no operating system. `main()` initialises the hardware and the services
and calls `app_loop()` for ever; a pass of `app_loop` polls every driver once,
pushes what happened into one `EventQueue`, pops at most one event, hands it to
`dispatch_event`, and reloads the watchdog. Interrupts run between any two
instructions of it: SysTick advances the millisecond counter `g_msTicks`, TIM17
counts update events, USART1 receives and transmits bytes, I2C1 serves TWI.

```
 SysTick --> g_msTicks --> all time comparisons
 TIM17   --> m_irqCount --(one per pass, every 100th)--> Tick100ms --+
 USART1  --> receive ring --> press + pending release ---------------+
 DS18B20 poll --> TemperatureReady ---------------------------------+--> EventQueue(16)
 ButtonsManager poll --> press/hold/release/double/combination -----+        |
                                                              one event per pass
                                                                           |
                          piezo on/off <-- dispatch_event <----------------+
                                                 |
                               Controller::processEvent --> heater PWM, LCD, BeepManager
                               Controller::poll         --> LCD back to temperature
                               BeepManager::poll        --> piezo off
```

### Inventory

| component | state | operations | must hold |
|---|---|---|---|
| `Controller` | setpoint, last sample, state, display mode and deadline, stored power, time of the last PID step, two held flags | `processEvent` over a table of (state, event, value, guard, action, next state), `poll` | no heat above the limit; the timer carries the stored power; state, display and regulator memory are about the present setpoint and sample; the setpoint leaves the display |
| `PIDInt` | integrator, previous error, has-previous flag | `reset`, `update` | 32-bit casts lose nothing; output and integrator in range; a colder sample never gets less heat |
| `BeepManager` | active, end time | `requestBeep`, `poll` | a sounding piezo has an end; neither early nor late |
| `PwmDriver` | ARR, CCR1 of TIM3 (heater), TIM14 (piezo) | `Init`, `setPower`, `setFrequency` | registers stay in range |
| `TimDriver` (TIM17) | `m_irqCount`, shared with the interrupt | `handleIRQ`, `getIrqCount`, `decIrqCount` | no event counted twice or lost outside the decrement; the backlog drains |
| superloop, `EventQueue` | position in the pass, 16 events, `tick100`, one pending UART release | `app_loop`, `push`, `pop`, `dispatch_event` | accepted samples arrive, in order; a typed key is released in time |
| `ButtonsManager`, `Button` | raw and stable level, last change and hold deadline per key; last release per key; start of a combination | `poll` (= `tick`, `handle`, `checkCombination`) | bounces are not reported, steady levels are; events of a key alternate; lengths of combinations |
| time base, watchdog | `g_msTicks`, IWDG counter | `SysTick_Handler`, `GetMsTicks`, `IWDG_Reload` | comparisons survive the wrap (49.7 days) |
| `UsartDriver` | transmit and receive rings, overrun count, CR1 and ISR of USART1 | `Init`, `write_str`, `handleIRQ`, `has_data`, `read_byte`, `flush` | a byte in the ring is fetched; every received byte is read, waiting or counted as lost; flush ends |
| `DS18B20` | state of a table-driven 1-Wire machine, a union of 72 bytes shared by DMA and decoder, family | `init`, `poll` (one row of the table) | a command needs a presence pulse of its own reset; a complete reading is reported as what it means, a cut one is not; measurements go on |
| `HT1621B` | `m_vram`, the chip's RAM | `ShowString`, `ShowDot`, `ClearSegArea`, `ShowSpecial`, `ShowInt`, `ShowDate`, ... | the text is read in one way only; icons survive it |
| `TwiDriver` | request ring, current request, state, start time | `submit`, `irq`, `tick_1ms` | nothing: no code submits a request (section 6) |
| boot | PRIMASK, `app.uart`, texts still to be written | `main`, `hardware_init`, `services_init`, reset by the watchdog | the last line of the boot is complete; the passes come back after whatever the line did |
| `GpioDriver`, `fw_info`, libc stubs, vendor libraries, build files | - | - | pure I/O, constants or third-party code: not modelled |

### What is hard about it

* **Order.** Samples, keys, ticks and time-outs reach the controller in any order;
  the outputs are computed in one place (`applyState`) and the inputs of that in
  four. The wildcard `State::Any` is also a state the machine can be *in*.
* **Time.** Every deadline is an instant of a wrapping 32-bit counter, and three
  idioms are in use: the signed difference (`timeReached`, correct across the
  wrap), the unsigned difference (`hasElapsed`), and a plain `>=` (`BeepManager`,
  the pending UART release).
* **Interrupts.** `m_irqCount--` in the superloop is a load and a store which
  the TIM17 interrupt can come between.
* **Limits.** A push into a full queue returns `false` and nobody looks; there is
  one slot for a pending UART release; the receive ring drops bytes.
* **Failure.** A measurement that fails pushes no event; the controller never hears
  of a missing sensor. The watchdog ends a pass that takes too long, and an endless interrupt.

`PROJECT.json` lists these hazards one by one at the line where they bite, with the
properties that cover them, or with the reason why none can be stated.

## 2. The modules

| module | models | notes |
|---|---|---|
| `CInt` | C++ integer operations of the code | truncating division, signed casts, clamp |
| `Ticks` | `g_msTicks`, the two wrap-safe comparisons, the watchdog as a bound | external time |
| `PwmDriver` | ARR/CCR1 arithmetic | pure operators |
| `PIDInt` | `PIDInt::reset`, `update` | pure operators on a record of the three members |
| `BeepManager` | `requestBeep`, `poll` | |
| `Controller` | `Controller` with `dispatch_event` | one action per kind of row: `Sample`, `Adjust`, `Key`, `PIDTick`; `CtrlPoll`; `Tick` |
| `Thermostat` | abstract specification of the controller | heat level, setpoint and measurement, two actions |
| `TimDriver` | TIM17's counter and the timer block | the decrement in two halves |
| `KeyReports` | abstract specification of the keys | which events one poll may push |
| `ButtonsManager` | debouncing, hold, double click, combination | `ImplementsKeyReports` |
| `AppLoop` | `app_loop` statement by statement, with the interrupts | composes `Controller`, `BeepManager`, `TimDriver` and, for the keys, `KeyReports` |
| `DS18B20` | the transition table, the union, CRC and conversion; TIM1 and its DMA as the environment | one action per row, `Row` is what all rows share |
| `HT1621` | `m_vram`, the font, the text of `displayTemperature` | images as functions, `Operation` stores and flushes one |
| `UsartDriver` | the two rings, the handler in its steps, the registers of USART1 | bytes are only counted |
| `Boot` | `main`, `hardware_init`, `services_init` and the passes as the UART sees them, the watchdog's reset | composes with `UsartDriver` |
| `MCController`, `MCControllerReset`, `MCPIDInt`, `MCAppLoop`, `MCButtonsManager`, `MCDoubleClick`, `MCDS18B20`, `MCHT1621`, `MCBoot` | instances for TLC, with history variables | the history variables only observe |
| `PIDIntProofs`, `RegulatorProofs`, `ControllerProofs`, `ControllerResetProofs`, `AppLoopProofs`, `ButtonsProofs`, `DeviceProofs` (of `DS18B20` and `HT1621`), `BootProofs` | theorems | section 5 |

How code and model correspond:

* **`Controller`.** The rows of the table fall into four kinds, and each is one action
  that performs the whole of `dispatch_event(e)`: the piezo switched by the
  dispatcher, the held flags at the head of `processEvent`, the row's action, and
  `applyState` with `updateOutputsFor`, which `ApplyState` renders as one conjunct.
  `Adjust` is a hold of S1/S2 or a release that no hold preceded; every other key
  value takes a beep row (`Key`), which names `Any` as the next state. `PIDTick` has a
  row in `Idle` and `Heating` only. `CtrlPoll` and `BeepPoll` are the two `poll`s;
  `Pass` is a pass without an event.
* **`ButtonsManager`.** A poll is one action: `Sensed` and `Ticked` are the two parts
  of `Button::tick`, `Pushed` and `ReleaseStamp` are `handle`, `ComboBegan` to
  `ComboPushed` are `checkCombination`. The pins are read twice by the code, once per
  key and once for the combination; the model takes two independent readings.
* **`AppLoop`.** The program counter `at` names the statement that runs next; each
  statement is an action, and the three interrupts are actions that may come between any
  two. The timer statement is three actions because the decrement is not atomic. The
  sensor is represented by what it pushes: a sample or nothing. An element of the
  receive ring is a key or the model value `other`.
* **`DS18B20`.** A poll that finds TIM1's update flag takes a row of `m_transitions`: `Row`
  clears the flag, moves the machine and names the operation that the row's action
  starts (`running`), so that the register set-up of an operation is its name. The
  rows `IDLE` and `START` are one action because `poll` takes both at once. The hardware
  ends an operation at any time later: a reset slot captures up to two edges, a read
  captures a pulse per bit for as long as a sensor answers, both into the same
  `union` of bytes that `DecodeScratchpad` then works on in place, pulse by pulse.
  After a sensor lets go of the bus, the slots capture short pulses; a bus that is
  stuck captures nothing, and the bytes keep what they had.
* **`HT1621`.** Each operation is a function from the image in `m_vram` to the next one, and
  the action `Operation` stores it and, if told to, flushes it to the glass. The bits
  that digits, decimal points and icons share are at their addresses; drawing a character is
  stated per byte (`Drawn`), which is what the loops over segments come to.
* **`UsartDriver`, `Boot`.** `write_str` puts byte after byte into the ring and enables the
  interrupt after each (`WriteByte`, `EnableTransmit`); the handler may come between the two. It
  has two halves, `TransmitHalf` and, in two steps, `ReadStatus` and the read of RDR, because
  ISR is read once and a byte may arrive before RDR is read. The hardware takes a byte from TDR
  (`Transmit`) or delivers one (`Arrive`) at any moment; a byte that finds RDR occupied sets ORE.
  The program runs only while no handler does and none is due, or while interrupts are masked.
  `Boot` follows `main`: the UART is the first peripheral that `hardware_init` sets up, so bytes may
  arrive while the rest is set up with interrupts masked; `print_fw_info` writes its texts
  (their lengths are `InfoTexts`, together longer than the ring, so that they are cut), `flush`
  waits, "System ready." follows, and a pass writes a message of the sensor now and then, reads
  what was received, and reloads the watchdog. `flush` waits in a loop without a side effect: the build
  with `-O0` keeps it, an optimising one may drop it, and `flushKept` is either. When a request of
  the interrupt cannot be cleared the program does not run any more, and `WatchdogReset` starts
  everything anew. A ring's `push`, `pop`, `full` and `empty` are one step each: the library they come
  from is not part of the repository. `write_int`, `read`, `read_str`, `available`, `clear_rx` and the
  accessors of the count have no caller. In `AppLoop` the receive ring carries which key a byte stands for.
* **What is abstracted.** A sample is one of a few integers (`Temps`) on both sides of
  every threshold. The text on the display is a
  label and a clamped value in `Controller`, and its six characters in `HT1621`. PWM set-up,
  polarity and logging are left out. All readings of `g_msTicks` within one action are the
  same one: a tick between two readings of a statement is taken as one before or after it. The capture of a read that stalled stays
  enabled until the next reset slot; what edges on the bus might still write during the pause is left out. The presence checks do not depend on it, because
  `FillUnion` writes the bytes they read, nor do complete and cut reads, which write all bytes; what a later stalled read is
  decoded from does, and with it the claim of `SensorType` that `cnt_per_c` is not 0. A watchdog reset is a step in `Boot`; elsewhere it appears as
  the bound that no pass lasts longer than `IwdgTimeout` ticks.

## 3. What the runs check

Pass runs:

| run | module, cfg | shows |
|---|---|---|
| `controller` | `MCControllerReset`, `Controller.cfg` | the heater is off above the limit (`NoHeatWhenOverheated`), the timer carries the stored power (`OutputFollowsPower`), the regulator's memory is about the present setpoint and sample (`RegulatorIsCurrent`) and it is not charged with time before its last reset (`IntervalAfterReset`), state and temperatures agree (`StateAgrees`), label and value on the display are never stale (`DisplayAgrees`), a sound has a pending end (`SoundHasEnd`), the controller refines `Thermostat`, and the setpoint leaves the display (`DisplayReverts`, liveness) |
| `pid_arithmetic` | `MCPIDInt`, `PIDInt.cfg` | the fixed-point step equals the exact one (`CastsAreExact`) and is monotone in the sample (`ColderNotLess`) |
| `loop_uart` | `MCAppLoop`, `AppLoopUart.cfg` | release of a typed key and end of a beep are on time: neither early nor more than two passes late (`ReleaseNotEarly`, `ReleaseInTime`, `BeepNotCut`, `BeepEndsInTime`); an update event of TIM17 is lost only between the load and the store of the decrement (`LossOnlyInDecrement`), and the backlog drains once TIM17 and the UART are quiet (`BacklogDrains`, liveness) |
| `loop_samples` | `MCAppLoop`, `AppLoopSamples.cfg` | an accepted sample is not overtaken (`LastSampleWins`) and arrives (`SampleProcessed`, liveness) although queue overflow drops events around it |
| `keys` | `MCButtonsManager`, `Buttons.cfg` | bounces are not reported (`NoBounceReported`), steady levels and holds are, across wraps (`SettlesInTime`, `HoldInTime`), combinations are long or short by the time both keys were held (`ComboLengths`), and the keys refine `KeyReports` |
| `ds18b20` | `MCDS18B20`, `DS18B20.cfg` | nothing an earlier measurement left in the union passes for a presence pulse of the first reset (`ConvertNeedsPresence`); a reading captured to its end is reported as its temperature rounded to tenths, although it is decoded over itself (`ReadingReported`); a cut one is rejected (`CutReadRejected`); measurements go on whatever the bus does (`MeasurementsGoOn`, liveness) |
| `indicator` | `MCHT1621`, `HT1621.cfg` | label and temperature can be read off the glass, in one way only, after any drawing and switching of icons (`TemperatureReadable`); icons survive it (`IconsKept`) |
| `boot` | `MCBoot`, `Boot.cfg` | no byte stays in the transmit ring without an interrupt that will fetch it (`NoByteStranded`); with `flush` in the build the last line of the boot is complete (`ReadyComplete`); until the first overrun of RDR, each byte that arrived is in it, in the ring, read or counted, exactly once (`BytesAccounted`); the passes go on once the line is quiet, through a watchdog reset if need be (`KeepsPassing`, liveness) |

Runs that show a disagreement between the code and what its comments say (TLC finds a
counterexample; `PROJECT.json`, "findings", quotes the lines):

| run | finding |
|---|---|
| `beep_keeps_state` | `actionBeep` says that it keeps the state, but its row names `Any` as the next one, and `processEvent` applies that: after any plain key press the machine is in the wildcard state, and `Tick100ms` has no row until the next sample or time-out |
| `sensor_presence` | the second reset does not clear the edges of the first: when the sensor disappears during its conversion, `check_presence()` accepts the first reset's presence pulse and the read goes on without a sensor (the CRC then rejects it, as "CRC check failed" and not "no sensor") |
| `double_click` | the press before a release zeroes `lastRelease`, so the release is compared with instant 0 and a double click is reported only in the first 250 ms after the counter is 0 |

| `uart_overrun` (`MCBoot`) | the handler's comment says that reading RDR clears ORE too; on this family only ICR clears it, and nothing writes ICR. Two bytes that arrive while `hardware_init` runs with interrupts masked start an endless interrupt, which counts overruns until the watchdog resets |

More of the kind show as exceptions inside properties that hold. `LossOnlyInDecrement` leaves out
the interrupts that do come between the load and the store: their events are lost, and that
"100 ms" tick takes longer. `ReleaseInTime` speaks of the one pending release: a second key typed
within 50 ms replaces it, as the code says it does, and the first key is then never released (its beep still ends:
`BeepEndsInTime`). `ImplementsKeyReports` allows a release with and without a double click; that the latter is lost is the subject
of `double_click` alone. `IconsKept` leaves out the icon
"k", whose bit the last digit overwrites. `CutReadRejected` is checked for the cuts the run lists: an
eight-bit CRC lets some pass, and the code then reports any number, -3252.0 degrees included. And
`BeepNotCut` and `BeepEndsInTime` (and the two release properties) exclude deadlines that
cross the wrap, because a plain `>=` ends the beep at the next poll then; and
`HoldInTime` excludes a hold deadline of 0, which the code takes for "none", so that a
held key whose deadline falls on that instant stops repeating.

### Bounds, and why they are enough

* `TickMod`, 2^32 in the code, is 2 to 12 (5 for the keys, 4 for the controller). Every comparison depends on differences
  only, so what matters is that deadlines fall before, on and after the wrap; all
  durations are scaled to stay below `TickMod / 2` where the code's are below 2^31.
  Each run wraps many times.
* `IwdgTimeout` is 1 or 2 ticks: a pass may be shorter than a tick or longer than one.
* `Temps` has a sample on each side of each threshold of the setpoints reachable in the run
  (heating, idle, overheated); in `controller` the same sample is overheated for one
  setpoint and not for the other. The setpoint has the two values a step apart that make
  both limits bite.
* PID coefficients are those of `config.h`; the integrator's range is +-20 in place of
  +-2000 so that it saturates within a few samples. `IntMod` is scaled with it in
  `pid_arithmetic`, to 2^15: `error * dt` leaves the signed range there while the increment after the
  division does not, as in the code for intervals up to days. `ErrorMax` and `IntervalMax` there are the
  largest error and interval of the run, and `WidthAssumption` says that with them nothing reaches the width.
* The queue holds 2 events in place of 16, so that it overflows; the receive ring one byte;
  `MaxBacklog` bounds the update events of TIM17 that are pending in `AppLoop`: two in
  `loop_uart`, one to be counted and one that comes during its decrement. `AgeMax` caps the history
  counters of `loop_uart`, `loop_samples` and `keys` above every duration they are compared with
  (`AgeAssumption`, `ObserverAssumption`).
* The assumption `AppLoopAssumption` bounds `MaxBacklog` below the modulus of the 16-bit interrupt
  counter. One event is counted per pass and TIM17 makes one per millisecond, so this leaves out a
  firmware whose passes take longer than a millisecond for minutes on end: its backlog would wrap.
* In `boot` the rings hold two bytes, `InfoTexts` is a text as long as the ring and one more, so that
  a text is cut; a message of the sensor is longer than the ring; `CountMod` is 5, so that the count wraps,
  and larger than what the driver can hold, so that no loss is hidden by the wrap.
* The sensors of `ds18b20` send five readings: below and above zero, of both families, above the
  limit, and one whose first bytes look like a presence pulse. `Cuts` and `Stalls` are the bits
  after which an answer ends: none, within a byte, between bytes, in the CRC, before the last bit.
  `MCDS18B20` computes the CRC they send by polynomial division, not by the code's loop.
* `MaxDrawn` bounds how many drawings that do not clear may follow one another in `indicator`.
  The values contain every digit, the sign, and both limits.

### Fairness

* The superloop contains no wait: `WF(Main)` in `AppLoop`, `WF(Pass)` in `Controller`.
* `DS18B20`: the superloop polls for ever, and TIM1 in one-pulse mode always ends. Both are
  written as `[]<>` of what the step brings about, because the guard of the step is just that it has not
  happened; TLC need not evaluate the decoder to find out whether a poll is enabled.
* SysTick is a free-running hardware timer: `WF(Tick)` in `Controller`. In the presence of
  the watchdog bound, a tick and a pass alternate for ever.
* `Boot`: the handler and the transmitter do not wait, and the watchdog resets a program that has
  stopped (`WF`). The program is suspended by each interrupt; a handler is shorter than the time of a
  byte on the line, so it gets to run between two of them again and again: `SF(Main)`. `KeepsPassing`
  is about executions in which bytes stop arriving in the end, because nothing bounds the loop over
  received bytes otherwise.
* No fairness is assumed of keys, bytes, samples or TIM17. The liveness property of
  `loop_samples` has no bytes on the UART: while bytes arrive faster than the loop of
  `app_loop` drains them, the rest of the pass does not run, and nothing in the code
  bounds that.
* `DisplayReverts` excludes executions in which the user changes the setpoint for ever,
  which do keep it on the display.

## 4. Properties and the mistakes they catch

Each property of a passing run is paired in `PROJECT.json` ("mutants") with a plausible
mistake in the code that TLC then refutes, defined next to the definition it replaces
(`Mut...`): the power of an error that does not reach the timer, a setpoint change that keeps
the regulator or its time stamp, a comparison of instants as numbers, a flag in place of
the interrupt counter, a product computed in 32 bits, a queue that overwrites its oldest event,
a debounce that a bounce does not restart, and so on. The mutants are not part of any
specification.

## 5. What is proved

The `...Proofs` modules are checked by tlapm to the last leaf. They assume only the named assumptions
of the modules, which TLC evaluates in the runs. Most say no more than that a constant is a number in its range
(`TickAssumption`, `PidAssumption`, `BeepAssumption`, `TimAssumption`, `ButtonsAssumption`, `UsartAssumption`,
`BootAssumption`, `AgeAssumption`, `ValuesAssumption`). The others:

* `ControllerAssumption` has `SetpointDefault + ErrorDelta >= 0`, because the machine starts in `Idle` with a current
  temperature of 0.
* `AppLoopAssumption` has `MaxBacklog < IrqMod`: the 16-bit count of update events does not wrap, which is a bound of the
  model and not a promise of the code (section 3).
* `WidthAssumption` has that errors and intervals are small enough for 32 bits after the division. Errors of temperatures in the
  sensor's range are below 1600 tenths and `SampleTime` is 1000, so that it admits intervals of two weeks; after a longer
  outage of the sensor the code wraps, which is a listed hazard.
* `ObserverAssumption` has that `HoldMs` is at most half a period of the counter, and the debounce and combination times shorter
  still: seconds against 49 days.
* `SensorAssumption` says of the capture unit that it delivers at most two edges of 16 bits, and `CountAssumption` of the sensors
  that there is a bit of `cnt_per_c`, by which the code divides, that all of them send as 1: the byte is the constant 16 in every
  sensor of both families.
* `ReadingsAssumption` has that a reading is eight bytes and that its answer is one of `Answers`; of a DS18S20, whose register
  counts halves, that it is within -55 to 125 degrees and that the count within a degree (`remain`) does not exceed `cnt_per_c`. The
  DS18B20's register may hold any 16 bits.

### The regulator and the controller

* **`PidUpdateRange`** (`PIDIntProofs`): for any coefficients, limits, memory, setpoint, sample and interval,
  `update()` returns a power within `OutMin..OutMax` and leaves an integrator within the
  anti-windup range. It rests on lemmas about clamping, truncating division and the signed cast.
* **`RegulatorInvariance`, `StepsAreExact`, `ColderGetsNoLess`** (`RegulatorProofs`): for every width, limits and
  coefficients that are not negative. The invariant is that the remembered error is one that a sample had, which bounds the
  slope of the derivative; `TruncDivBound` then keeps both increments within the width, where `ToSignedExact` makes the
  casts the identity. The order of samples goes through each operation of `update()`: `PidErrorAntitone`,
  `TermsMonotone` for the three terms (a truncated quotient is monotone, `TruncDivMonotone`, on both sides of zero), and
  `OutputMonotone` for the sum, the dead band and the limits.
* **`Invariance`** (`ControllerProofs`): the conjunction `Inv` of the type invariant and the six safety
  invariants is inductive. No single conjunct is: `NoHeatWhenOverheated` fails to be preserved by a beep row on
  its own, since that row writes the stored power to the timer without looking at the
  temperature. It needs `OutputFollowsPower` and that the stored power is 0 already; a time-out of the
  display needs `RegulatorIsCurrent` to know that a power other than 0 was computed for the present
  setpoint and sample. The proof has one lemma per action (`SampleInv`, `AdjustInv`, `KeyInv`,
  `PIDTickInv`, `CtrlPollInv`, `BeepPollInv`, `TickInv`), each with one step per conjunct, and
  `ApplyStateEffect` states once what every action gets from `applyState`.
* **`TypeCorrect`, `HeaterSafe`, `OutputSound`, `RegulatorSound`, `StateSound`, `DisplaySound`,
  `SoundEnds`**: the invariants of the run, for every value of the constants, from `Invariance`.
* **`Implementation`**: the controller implements `Thermostat`. The heat level is the compare value
  of the heater's timer; `DispatchRefines` maps a sample to `Measure`, a setpoint key to `Touch`, and
  everything else, time-outs and plain keys included, to a stutter. The last part uses that re-applying
  a state writes the value the timer already has (`OutputFollowsPower`), or 0 where it is 0 already.
* **`ChargedAfterReset`** (`ControllerResetProofs`): the interval the regulator is charged with lies after its
  last reset, for every width of the clock. `ResetInv` adds the range of the history variable to `Inv`;
  the proof compares two wrapping counters, the interval since the time stamp and the one since the reset, which a
  tick lengthens alike or starts again alike (`ElapsedTick`, `TickCounts`).

### The superloop

* **`SuperloopInvariance`, `SuperloopHeaterSafe`** (`AppLoopProofs`): the controller's invariant holds
  with the queue, the keys, the UART and the interrupts around it, for every queue length. The controller's lemmas
  are about `Dispatch(e)` for an event of its own, so the strengthening is `SafeInv`: `Inv`, and
  whatever waits in the queue or is kept as a pending release is such an event. `EnqueueType` shows it of a push
  that drops, `PollPushesKeys` of a poll of the keys.
* **`SuperloopImplementation`**: the superloop implements `Thermostat`. An interrupt, a push, a statement that only
  moves on is a stutter; a popped event is the controller's step.
* **`LossOnlyThere`**: an update event of TIM17 is lost only between the load and the store of the decrement.
  `CountInv` is what holds at each of the two: the loaded value is what is owed.
* **`LoopTypeCorrect`**: the queue, the receive ring and the counters keep their bounds (`LoopInv`).
* **`SamplesInOrder`**: the controller has the last accepted sample or it is the last one in the queue. One lemma per
  way the queue changes: other events are pushed or dropped behind it (`OthersQueued`), a sample is pushed
  (`SampleQueued`), the oldest event is taken (`EventTaken`).
* **`ReleasesInTime`, `ReleasesNotEarly`, `BeepsEndInTime`, `BeepsNotCut`**: the two deadlines that the code compares as plain
  numbers, for all durations and any length of a pass. `TimesInv` (`DeadlinesInvariance`) relates a deadline to the clock, to the
  time since its request and to the statement that runs next: before the statement that tests the deadline in this pass,
  its lateness is at most what the last pass and the ticks of this one add up to; after it, what the ticks of this one do. So
  the bound of the watchdog on a pass enters twice.

### Keys and UART

* **`KeysTypeCorrect`, `KeysImplementation`** (`ButtonsProofs`): for every set of keys and all durations,
  whatever the pins read and the clock does, a poll reports what `KeyReports` allows of the state of the keys:
  `PushedFits` says it of one key, `ComboFits` of the combination, and `EventsAgree` that both modules put the same
  values into the same events. `KeysInv` adds that no combination begins without both of its keys.
* **`LevelsSettle`, `HoldsRepeat`, `BouncesIgnored`, `CombosMeasured`**: the times of the keys, for every period of the clock and
  all durations. `ObserverInv` (`ObserverInvariance`) says what the instants in a `Button` mean: the last change was `steady`
  ticks ago, a hold deadline lies `HoldMs - quiet` ahead or is late by no more than a pass, `comboStart` is where both keys were
  first seen down. Its proof follows a tick (`ObserverTick`), which moves the clock and all ages, and a poll (`ObserverPoll`),
  which reads them; `ElapsedTick` and `HoldReached` carry it across the wrap.
* **`UartTypeCorrect`, `BytesFetched`, `ReadyLineComplete`** (`BootProofs`): from the inductive `BootInv`, for every size of the
  rings and of the texts. `ReadyComplete` needs `ReadyFits`: after `flush` the ring and the rest of the line together
  are no longer than the line, which itself fits the ring; and `NoTextLeft`: no text of `print_fw_info` comes after it.
* **`ReceptionAccounted`**: received bytes are accounted for, for every modulus of the count. `AccountInv` adds that what
  the handler saw in ISR still is so when it reads RDR; that a remainder may be taken before an addition is `ModAdd`.

### Sensor and indicator (`DeviceProofs`)

* **`ConversionHasSensor`**: a conversion is commanded only after a presence pulse in its own reset
  slot, whatever edges are captured and whatever the union held. The invariant `PresenceInv` follows the measurement:
  before the slot ends, the second edge still is the 0xFFFF that `fill_union` wrote, which `CheckPresence`
  refuses (`NoEdge`); after it, a second edge in range is a sensor's (`CapturedAnswer`).
* **`DecodedInPlace`**: `decode_scratchpad()` loses no pulse to the bits it writes over them, for any 72 bytes. The
  invariant of a round is `Decoded`: the first n pulses are bits, and a byte is untouched until the first of its own
  bits is written, which is after its pulse has been read. The induction over rounds is on sets of numbers (`SetInduction`, from the
  library's well-founded minimum), because an induction theorem with an operator as a parameter cannot be
  instantiated; `RoundsExist` shows that the recursive definition defines something.
* **`SensorTypeInvariance`**: the bytes stay bytes and a reported temperature fits its `int16_t`. The strengthening is
  `CountPulse`: the pulse of the bit in `CountAssumption` is short in every answer, in the zeroed object, and in whatever a
  cut or stalled read leaves, because only a read writes that byte (section 2 names the capture that is left out). So the division by `cnt_per_c` never is one by 0.
* **`ReadingsAreReported`**: a reading that was captured to its end is reported, as its temperature, for every
  reading that `ReadingsAssumption` allows. After `SensorTypeInvariance` and `DecodedInPlace` three things are left.
  The invariant `HeldInv`: once the read is over, the pulses in the union are the whole answer of the sensor that `delivered`
  names. The CRC: `CrcIsRemainder` says that the code's loop over bits, which shifts a byte and flips three of its bits, leaves
  the remainder of dividing the 64 bits by x^8 + x^5 + x^4 + 1, which is what the sensor appends; the invariant of a round (`Agree`) is that what is
  left of the division is the message with the register added to its next eight bits. The arithmetic (`TemperatureIsTenths`): no cast or
  sum leaves the `int16_t`, >> and / round by less than a tenth.
* **`DisplayTypeInvariance`, `IconsAreKept`**: every operation of the indicator draws bytes, for any text, digit, number and
  position, and a temperature stays between the bytes 1 and 24.
* **`TemperatureIsReadable`**: for every temperature. `ShownInv` says that `m_vram` and the glass each hold the segments of the text
  and one point, whatever the bit of the icon "k" is: a text is drawn so whatever was there (`TemperatureShows`), a flush and the
  icons keep it (`FlushShows`, `IconShows`), and the thirteen characters look different (`CharsDiffer`).

### Only model-checked

Liveness (`DisplayReverts`, `BacklogDrains`, `SampleProcessed`, `MeasurementsGoOn`, `KeepsPassing`): beyond the prover.
`CutReadRejected` holds for the readings and cuts of the run and not for all: there are cuts that an eight-bit CRC lets pass.

## 6. What is not modelled, and why

* `TwiDriver`: nothing in the firmware submits a request. Its queue stays empty, its state `Idle`; it never writes a START
  condition, so its interrupt is not requested, and `tick_1ms` returns at its first test. A model of it would have no step that
  the program takes.
* `GpioDriver`: single register accesses; a pin's level is an input of `ButtonsManager`.
* `fw_info` and the stubs of the C library: a constant record, and functions that the firmware does not call.
* CMSIS, HAL and the other code under `src/Libraries` (which is most of the repository by size), start-up code, linker
  scripts and build files: third-party or generated. `etl::circular_buffer` enters as a bounded sequence
  or a count, from how the code uses it; the library itself is an empty submodule. What its `push` and `pop` do in halves when
  the handler comes between is therefore not modelled.
* Register set-up of clocks, pins, timers and DMA; bit-banging of the LCD bus; formatting of messages.

Partly modelled: `PwmDriver` (the values of ARR and CCR1; polarity and prescaler are set once), the time base and the watchdog
(the counter, its comparisons, the bound on a pass and the reset; the set-up of the clocks is left out), the configuration (its
constants are the constants of the modules), and the boot (its order as far as the UART and its
interrupt see it; the set-up of the other peripherals is one step that leaves the states in which the other modules start).

Not stated, because neither the code nor its documentation promises it: how long the heater may keep its power without
a sample (no event tells the controller of a failed measurement), that a complete click changes the setpoint when the queue drops
one half of it or a typed press falls into a hold, that a reading which passes the CRC by accident is plausible, and that the
increment of the integrator fits 32 bits after an outage of days.
