# TLA+ specifications of the charge controller firmware

These modules model the control logic of the Libre Solar charge controller firmware
(`app/src/`), which decides when a battery is charged, when a load is powered and when the
power electronics are stopped. Boards are single-core microcontrollers under Zephyr: the
hard part is not parallelism but what interrupts and threads of higher priority do *between*
two statements of a control function, and which history of limits, timers and flags a long
sequence of legal calls leaves behind.

## The system

| Part | State | Operations | Interacts with |
|---|---|---|---|
| Main loop (`main.cpp`), 1 Hz, preemptible priority 0 | time of the next round | `discharge_control`, `charge_control`, energy and SOC, `fuse_destruction`, LEDs, storage | calls charger, DC/DC, device status, storage |
| Control thread (`main.cpp`), about 10 Hz, cooperative | none | `daq_update`, bus margins, `PwmSwitch::control`, `Dcdc::control`, `LoadOutput::control` | preempts every other thread, sleeps 100 ms |
| Charger (`bat_charger.cpp`) | state, time stamps, `full`, counters, current limits of the port | see main loop; `update_soc`, `detect_num_batteries` | `state` and error flags written by alerts, target current by CAN |
| DC/DC converter (`dcdc.cpp`) | control state, direction, previous power, time stamps, statics of the short detection, of the inhibit time and of the fuse | `control`, `stop`, `fuse_destruction` | `stop` from alerts; bridge shared with the fuse destruction |
| Half bridge (`half_bridge.c`) | compare register, its limits, output enable | `half_bridge_*` | three timers that start differently |
| Load output (`load.cpp`) | switch, state, error flags, enable, time stamps, debounce counter | `control`, `stop` | `stop` from comparator and ADC interrupts; `enable` from the user |
| PWM switch (`pwm_switch.cpp`) | duty, time stamps | `control`, `stop` | timer interrupt, ADC alerts and their inhibit time |
| Data acquisition (`daq.cpp`, `daq_driver.c`) | filtered readings, alerts with debounce counters | `adc_update_value` at 1 kHz in an interrupt, `daq_update`, limits | alerts call `stop` of the outputs |
| Device status (`device_status.*`) | error flags, energy counters, extreme values | `set_error`, `clear_error`, `update_energy`, `update_min_max_values` | error flags written by everybody, unprotected; totals stored |
| Battery configuration (`bat_charger.cpp`, `data_objects.cpp`) | `bat_conf` in force, `bat_conf_user` requested | init, check, overwrite, `data_objects_update_conf` | requested by communication threads, read by both loops, stored |
| Storage (`data_storage.cpp`) | one record in EEPROM or flash, a buffer and its mutex | read, write, update | called by the main loop and the communication threads |
| Serial (`ext/serial.cpp`) | line buffer, two semaphores, discard flag | receive interrupt, processing thread | hands lines to the ThingSet library |
| CAN (`ext/can.cpp`) | queue of received frames | publication and control messages every 100 ms, ISO-TP requests | other controllers; target current and time of the charger |
| Data objects, power ports, LEDs, display, boards | tables, derived values, output | | |

What makes it hard, in order of weight:

1. **Interrupts inside control functions.** `flags_set`, `set_error` and the like are
   read-modify-writes; checks and the actions they justify are not atomic.
2. **State written behind the back of a state machine.** The ADC alerts assign
   `charger.state` and stop the converter in the middle of a call.
3. **Time.** A dozen delays in seconds, kept as time stamps that different events set.
4. **Legal sequences** of phases, each relying on limits an earlier one set.
5. **Progress.** Everything that was switched off must come on again.
6. **Failures.** The supply fails in the middle of a write, the memory reports errors, frames and
   characters are lost, other controllers on the bus come and go.

For each component the properties that make it correct: the load and the converter must be
off whenever their evidence says so, known to be on when they are on, and restarted only
after their delays; the charger's limits must fit its state, its phases must end, and its
errors must match what is blocked; what is stopped must restart. A configuration in force must be
plausible, and the same as the one requested and stored; a stored record must be one snapshot;
totals must neither lose nor invent energy; a line must arrive as typed or not at all; controllers
on one bus must agree on whom they follow. The list `hazards` in
`PROJECT.json` gives each danger with its line and the properties that cover it.

## Modules

| Module | Models | Composed of |
|---|---|---|
| `LoadOutput` | `LoadOutput::control()`, `stop()`, comparator and ADC interrupts, the user | |
| `Charger` | `discharge_control()`, `charge_control()`, alerts, measurements, control messages, changes of the configuration | |
| `HalfBridge` | the timer: register, limits, start, stop | |
| `Dcdc` | `Dcdc::control()`, `stop()`, alerts, `fuse_destruction()`, the main thread's error flags | extends `HalfBridge` |
| `PwmSwitch` | `PwmSwitch::control()`, `stop()`, the driver, alerts, the main thread's error flags | |
| `AdcAlert` | `adc_update_value()` of one channel, the timer interrupt of the PWM signal, what the control thread does to the alert | |
| `BatConf` | the battery configuration as data: factory settings of all types, plausibility check, copy | |
| `Configuration` | start-up, requests, check and copy field by field, storing page by page, errors, power failures | extends `BatConf`, implements `SnapshotStore` |
| `SnapshotStore` | abstract: what the storage promises those who use it | |
| `LineText` | lines and how they are edited | |
| `LineChannel` | abstract: what the serial interface promises its peer | extends `LineText` |
| `SerialRx` | `serial_cb()` and `serial_thread()`, character by character | extends `LineText`, implements `LineChannel` |
| `Energy` | `energy_balance()`, `update_energy()`, `update_min_max_values()`, stores and restarts | |
| `CanControl` | `can_pubsub_thread()` of several controllers and the part of `charge_control()` that follows | |
| `MCLoadOutput`, `MCCharger`, `MCDcdc`, `MCPwmSwitch`, `MCAdcAlert`, `MCConfiguration`, `MCCanControl` | instances for TLC | |
| `LoadOutputProofs`, `ChargerProofs`, `DcdcProofs`, `PwmSwitchProofs`, `AdcAlertProofs`, `SerialRxProofs`, `StorageProofs` (of `Configuration` and `Energy`), `CanControlProofs` | theorems | |

How they correspond to the code:

* **Threads as program counters.** A control function is a sequence of steps `pc`, cut where
  an interrupt matters: around every `|=` on error flags (the action that decides loads the
  new value into `reg`, `Store` writes it, `pc` goes to `ret`), between the check and the act
  it justifies, and between `switch (state)` and the handler. Interrupts and preempting
  threads are actions enabled at any `pc`; threads of lower priority only while the others
  sleep. In `AdcAlert` the interrupt itself is cut (`isr`), at every access to the counter that the
  timer interrupt of higher priority also writes. In `Dcdc` the main thread has a second program
  counter `main_pc` whose steps need the control thread to sleep.
* **Time as ages.** A time stamp is `uptime()` minus the stamp, saturated one past the delay it
  is compared with, so every comparison of the code gives the same answer. `Tick` (or `Wake`)
  is a second.
* **Measurements as intervals.** Voltages, currents and temperatures are the intervals that
  comparisons tell apart. `Samples` (or `Measured`) says what may be measured; a new sample is
  taken where `daq_update()` runs. For the DC/DC converter the sample depends on the register,
  so that a solar panel with a maximum power point can be described.
* **History variables** are declared apart from the state and never read by an action's guard, but
  for `held` in `AdcAlert`, which the bound `Longest` limits.
* **Communication threads.** In `Configuration` a thread runs while none of higher priority does
  (`Scheduled`): the main thread outranks it, and gives way while it waits for the memory or for
  the buffer. A copy is one assignment per step, because the control thread may read between any
  two; the record is written page by page, because the supply may fail between any two.
* **Refinement.** `SerialRx` maps its state to `LineChannel` by `Given`, the text of the buffer
  from the signal of a line end until the buffer is set back; every other step is a stutter or a
  character typed. `LinesAsTyped` is the specification of the channel as a property. `Configuration`
  maps its record to the memory of `SnapshotStore` (its data if start-up will take it for valid,
  nothing otherwise), the buffer while it is locked to the write under way, and `spoiled` to its error. A page that
  spoils or completes the record is a `Write`, any other page and everything the threads do with the
  configuration is a stutter. `StoresSnapshots` is the specification of the store as a property.
* **Faults** are actions: `FailStore` and `PowerFailure`, after which the record may be unreadable, in
  `Configuration`, `Restart` with an unreadable record in `Energy`, `Drop` in `SerialRx`, a full queue in
  `Send`, and `SendFails`, `Fail`, `Restart` and `Command` in `CanControl`.
* A definition with a comment in parentheses, before the one it varies, is that definition with a plausible
  error; the properties are known to detect it.

Abstractions that matter: the thermal model of the load and its power-good pin are one input;
`perturb_observe_buck` and `_boost` are one function of the power in the direction of
conversion, their five limits one input; current limits of the charger are named by the
setting they come from; the coulomb counter, SOC and SOH feed back into no decision and are
left out; temperature errors of over and under are one flag per direction; the comparison
`current_filtered < topping_cutoff_current` is an input, and so is that of the voltage with the one at which the
overvoltage flag is cleared, which may lie below the charging targets. The configuration of `Charger` changes
between two rounds of the main loop, as a copy by a thread of lower priority does (half a copy is the
matter of `Configuration`); its durations are constants of a behaviour. An error of the battery that forbids a start is one
flag in `Dcdc`, and `charge_control()` one change of the limits per second. The PWM switch keeps its duty as the
compare register, 200 steps in the boards' 20 ms; its voltages are intervals around the target.
`AdcAlert` is the channel of the low-side voltage on a board with a PWM switch; an alert of the
other side or direction is the same code without the inhibition.
`BatConf` computes in mV, mA and mV of drop at the largest current, so that the arithmetic of the
check is exact; two equalization settings stand for all six, which are treated alike. The six hours
between two periodic stores are an arbitrary moment, and the checksum is taken to tell any two
contents apart. A device that is not ready is one whose every access fails. `Energy` counts in parts of a watt-hour instead of 24-bit floating point, stores at
arbitrary moments (a store is one step: `StoresSnapshots` shows that it is whole or not at all), and
leaves the other maxima out, which have no value of the day. What floating point does to the energies
(increments that are rounded, or vanish beside a large total) is outside these theorems. In `CanControl` a period of
100 ms is a step of all controllers, their seconds begin together, reports of
other data are one frame per controller and second, and of the charging state only
FOLLOWER is told from the others; the addresses stay as they are and fit into the 8 bits of a frame, although
`can_node_addr` is a data object of 16 bits that clients may write.

## Runs

| Run | Instance | Shows |
|---|---|---|
| `load` | delays 1 and 2 s, debounce 2 calls, 11 measurements | `SwitchIsKnown`, `ExposureBounded`, `RecoveryDelays`, `Recovers` |
| `load_short_circuit` | same | violated: `ShortCircuitLatched` |
| `charger` | all delays 0 or 1 rounds, 3 configurations, which may change, 5 measurements | `LimitFitsState`, `PhasesBounded`, `TemperatureStops`, `RestHolds`, `DischargeBlocked`, `Recharges` |
| `dcdc` | register 0..7 with limits 2 and 6, delays up to 2 s, 3 boards | `EmergencyStops`, `LowPowerStops`, `RestsBeforeRestart`, `SettledStart`, `DutyStepwise`, `Tracks`, `ShortAnswered` |
| `dcdc_restart` | same | violated: `StartsWhenValid` |
| `pwm` | register 0..8 with limits 2 and 6, delays 1 and 2 s, 12 measurements | `SignalIsKnown`, `LowPowerStops`, `RestsBeforeRestart`, `Derates`, `Restarts` |
| `alert` | readings 0..3, filter constant 2, period 5, inhibitions 2 and 5, counter of 5 bits | `DetectionBounded`, `PulseTolerated`, `Settles` |
| `conf` | 12 V gel battery of 50 Ah, 3 requests, the serial and the main thread, EEPROM of 2 pages or NVS | `TypeOK`, `ConfInForceValid`, `OldOrNew`, `AtRestAgreed`, `StoresSnapshots`, `Answered` |
| `serial` | buffer of 4 places, lines of up to 5 characters, two ordinary ones and the three special ones | `TypeOK` (the buffer), `LinesAsTyped`, `LostForAReason`, `BufferReleased` |
| `energy` | two counters, 2 parts to a watt-hour, night of 1 s, 2 new beginnings | `Accounted`, `PeakOfAllTime` |
| `can` | three controllers, addresses different or two equal, queue of 2, 2 periods per second, one event | `Follows`, `Released`, `SameCurrent` |
| `can_follow` | same, with the control object of the repository's table | violated: `Follows` |

The type invariants of the other components are proved below and not run again.

The bounds are small because every counter is compared with one constant: what matters is
"before", "at" and "past" it. The delays differ from each other (1 and 2) where their order could matter.
Each measurement set has every interval that some comparison reacts to, and pairs that trigger
two reactions at once. The three plants of `MCDcdc` are a solar panel with its maximum in the
middle of the duty range (needed for `Tracks`: an arbitrary plant has no maximum power
point), a plant whose measurements jump arbitrarily while running, and one with a
shorted high-side MOSFET on a board that answers it with the fuse. `LowPowerStops` has its own age of the last
good power (`sinceGood`) and does not look at the code's time stamp. Curtailed power, which makes the duty walk
to its limit, is in the second plant, so `Tracks` says nothing of it.
`MCAdcAlert` has the shortest period that exceeds the inhibition by an edge and the debounce, so that
an edge falls into every phase of a count; the bound of `DetectionBounded` is reached there.
`Longest` keeps an overvoltage shorter than the counter: in the code each call of the control
thread moves the limit to 1.2 times the filtered voltage (`main.cpp:147`), long before 32 s.
The three requests of `conf` are one that is accepted, one that is refused as a whole although one
of its values is plausible, and one of the capacity, the last field copied; they touch both
pages of the record, so that a failure in between leaves halves of two records. In `serial` a line
of four or five characters overflows the buffer, and a backspace may fall on either side of its end.
In `energy` a second may fill a watt-hour, and sunrise, restart and unreadable record occur in every
order that the bound of two allows. In `can` a second of two periods and a queue of two places lose
control frames every second, as ten periods and ten places do with the reports of a table of real size; any
set of controllers may be without power at first, so that the one event (a failure, a restart, a
command, a frame that is not sent or a new current) meets every membership; `Settled`, seven periods, is what the longest of three waits takes, by the theorems
below: two seconds of silence and one until the next round of the main loop (`Released`, `3 * Periods`); two
seconds and a period to be heard and looked at (`Follows`, `2 * Periods + 1`); a second and two periods for each
controller on the way from the leader to the last (`SameCurrent`, `Periods + 2 * 3 - 1`).
The delays 0 of `ShortDelay` and `FuseDelay` shorten the way to the fuse, not what happens there.

Fairness. `LoadOutput`: the control thread is periodic and above all threads, so weak
fairness of a call's steps; time passes. `Charger`: the main loop is periodic, and what
preempts it ends. `Dcdc`: weak fairness of the control thread; the main thread and time go on only
between two calls, which recur but never last, so strong fairness of both. `PwmSwitch`: likewise for thread and time. `AdcAlert`:
both interrupts are periodic, so weak fairness of each. `Configuration`: the main thread is busy for
a moment of every second, so a communication thread is interrupted again and again but not kept
from running: strong fairness of each thread's steps; a request need not arrive. `SerialRx`: weak fairness of
the processing thread, since only interrupts and sleeping threads preempt it. Nothing is
assumed of interrupts, users and measurements, except as the hypothesis of a
liveness property ("when alerts cease ...").

## What the violated properties show

Each states what a comment of the code promises and what the code, interleaved as the
scheduler may, does not keep.

* `ShortCircuitLatched` (`load.h:66`): a store of `control()` drops the flag the comparator set.
* `StartsWhenValid` (`dcdc.h:127`): an alert between check and start is undone by the start.
* `Follows` (`bat_charger.h:331`): the filter of `can.cpp:238` refuses the only control object
  there is, whose id is 0x7001 "for testing"; the run `can` has an id above 0x8000, as the comment of
  `data_objects.cpp:1126` says and a table of one's own (`CUSTOM_DATA_OBJECTS_FILE`) may have.

Other disagreements between code and comments that the models show (each a reachable state or behaviour
of the module, without a run of its own):

* `Charger`: an alert during equalization leaves its voltage and current in force in IDLE, past
  the duration of `bat_charger.h:161`; a control message overrides the temperature stop
  of the same round (with a control object that is heard); the overvoltage flag an alert sets is lost if the
  alert comes between the read and the write of the flags, until the next one.
* `Dcdc`: TIM1 and TIM3 do not start with the empty register that `fuse_destruction()` sets, against
  `dcdc.h:134`; with HRTIM1 the next call of `control()` intervenes. The flag of a broken MOSFET, "never
  cleared" by `device_status.h:88`, is lost where `set_error()` of the control thread meets a store of the main
  thread; `ShortAnswered` says that it is set again while the main thread stores no other.
* `PwmSwitch`: an active switch never looks at the current margin (`pwm_switch.cpp:124`), so a
  limit of zero, for instance at too high a temperature, does not switch it off.
* `AdcAlert`: the timer interrupt writes the counter between the read and the write of
  `debounce_ms++`, and the inhibition of that pulse is lost.
* `Configuration`: with the serial and the ISO-TP thread (two boards have both) one
  may copy what the other has written after its check, and an implausible configuration gets into
  force. The factory cut-off current of lithium batteries, C/10 (`bat_charger.cpp:109`), fails
  the check (`bat_charger.cpp:256`): such a battery starts with a configuration that would be refused, and
  every other change is refused with it (`FactoryPrevails`, proved and not run; it is about capacities that are
  multiples of 5 Ah, since a C/10 that is not exact may be rounded to less and pass). Equalization settings are stored and read back but never
  put in force (`AtRestAgreed` excepts them); the limits of the USB output are set at boot only.
* `Energy`: the peak called "today" (`data_objects.cpp:760`) is not reset at sunrise.

The passing properties are stated so that they hold in spite of these: `RestsBeforeRestart`
for instance names the alert that hits the starting call as the only exception, and
`PulseTolerated` the edge that hits the count (`undone`).

Seen in the models but without a property: the error that makes the PWM switch start softly, set
when no further derating is possible, is cleared in the same call if the voltage is low (a current
limit was exceeded); and the first edge after a start shortens its inhibition of 50 ms to 10 ms
when the duty is below 100%.

## Proofs

TLAPS proves, for every value of the constants that satisfies the named assumptions
(`LoadAssumption`, `ChargerAssumption`, `HalfBridgeAssumption`, `DcdcAssumption`,
`PlantAssumption`, `PwmAssumption`, `AdcAssumption`, `BatConfAssumption`, `ConfigurationAssumption`,
`LineTextAssumption`, `SerialRxAssumption`, `EnergyAssumption`, `CanAssumption`): type correctness of every component,
every safety property of the passing runs, and both refinements. Where a theorem needs more of the constants than
these assumptions, its statement names it (`LeadAcid`, `OneThread`, `Lithium`, `GetsThrough` and the length of
`Settled`). Each component has inductive invariants; they are called `IInv` or named for what they say:

* **Load output.** `At` and `Seen` read through a pending `Store`. `Recorded`: a measurement that
  demands to open has left a flag by the trip; `Tripped`, `FreshOff`: so a switch closed after the
  trip has no reason to open; `Latched`: a fault keeps its flag until its delay has
  passed. `SwitchIsKnown` and `ExposureBounded` are not inductive without them,
  because they say nothing about the middle of a call. An interrupt only adds flags, and a `Store`
  drops only what an interrupt added: that is why the lost short circuit flag does not
  endanger the other properties.
* **Charger.** `Dispatched`: an alert may only make `state` IDLE, so from `Switch` on the state
  is the one read or IDLE; `Fits` holds for both. `Young` bounds the age of a phase by the
  timer that ends it; `Stopped` follows a round that has found the battery too hot or too cold;
  `Rested` ties the time stamp to the history; `Agreed` is `DischargeBlocked` seen through a pending `Store`.
* **DC/DC.** `Opened`: an alert only opens the bridge, so it stays open up to
  `Start`; `Prepared`: what a start found at its check; `Aged`: the code's time stamps are never
  older than the truth, and that of good power never younger (`sinceGood`); `Powered` accounts for a second without a call; `Limits` and `Broken` separate
  the time after `fuse_destruction()` has given up the limits. `DutyStepwise` needs a minimum duty of at least
  one step (`StepSize <= CcrMin`) and a register of 15 bits, or `uint16_t` would wrap: the clamp would hide that
  from a type invariant, not from this property.
* **PWM switch.** `Divided`: an alert only switches off, so a call that found the switch inactive
  keeps it so up to `Activate`, and only from `Drive` on is there a signal; `Aged` and `Powered` as for
  the converter. The register stays in range for any step, because a wrapped sum is
  refused (`StepInRange`).
* **ADC alert.** `Level` reads the counter through an interrupt under way. `Counted`: it never leads
  the samples, so it does not wrap (`Longest + 1 < HalfRange`). `Delayed`: the wait exceeds it by the
  delay of a start, or by that of a start and one edge, and then it follows the time
  since the edge. An edge finds it at 1 at most, or the alert would have been called: that
  is why edges do not add up. It needs a period longer than the inhibition and the
  debounce. `FilterBounded` is the arithmetic of the low-pass filter: `adc_filtered` cannot exceed the
  largest reading, scaled, so its 32 bits suffice.
* **Configuration in force.** `OnlyPlausible` and `CopyOfTwoPlausible` hold for lead-acid batteries of every
  size and capacity and every set of requests, with one communication thread (`LeadAcid`, `OneThread`: of lithium
  batteries and of two threads they are false). The factory settings pass the check
  (`LeadAcidPlausible`, linear in cells and capacity); the check reads only what the copy copies
  (`CheckReadsCopied`), each field once (`CopiedOnce`), so a finished copy of a checked
  configuration passes the check, and an unfinished one is a prefix of it over the one before.
  `OneConfigurationAtRest` has the same hypotheses. Its invariant follows a change through all
  its copies: `Copies`, from the request to what is in force and to the load output; `Written`, from
  there into the buffer and the record; `Fixed`, the settings no copy touches. That a restart brings back the
  same one (`RestoredAgrees`) needs all three, and the record to be whole.
* **Lithium.** `LithiumKeepsFactory`: of every lithium battery, number of cells and of threads, the
  configuration in force stays the factory's while nobody asks for another cut-off current or
  capacity. `SealedInv`: whatever requests write, what clients see, what is being stored and what
  can be read back all carry the factory's cut-off current, which the check refuses
  (`LithiumImplausible`); so neither a request nor a restart begins a copy.
* **Storage.** None of its three theorems needs a hypothesis on battery or threads. `TypeInv`: the mutex says
  who has the buffer, and an owner is at its store (`BufferHasOneOwner`). `RecordInv`: a header that
  fits the data makes them one snapshot (`SnapshotsStayWhole`, which the run does not check separately). `PagesInv`: the pages written so far are the
  buffer's, so the last one completes the record whatever was there before (`WholeRecord`). With these,
  three lemmas say what the abstract store does in each operation (`BeginsAWrite`, `WritesAPage`,
  `EndsAWrite`), and `StorageIsSnapshotStore` puts them together.
* **Serial interface.** The semaphores say who has the buffer (`rx_buf_mutex = 0` exactly from a
  line end to `GiveBuffer`); by `Agreement`, while the interrupt has it and nothing has been lost the
  buffer is what has been typed, or it is too long. So the step that signals a line end hands over the typed line, a lost
  character leads to `Lose`, and all others stutter: `ReceiverIsChannel`.
* **Energy.** `Books` says for each counter how total, energy of the day and what is stored are related to what
  has passed: whole parts of a watt-hour are lost only where the counting begins anew, at sunrise
  or after a restart, and each time less than one and a second's worth. The peak of a day never exceeds that of all time,
  which is why comparing with the latter only when the former rises loses nothing.
* **CAN.** `Basic`: a controller without power has an empty queue and follows nobody (`Dark`), and in a
  period without reports a queue holds at most one frame of each other controller (`Room`).
  `FollowersReleased`, for every number of controllers, every table and every size of the queue: while nobody
  of lower address publishes, the queue is emptied within a period, the silence grows with the seconds
  and the next round ends following; `Releasing` has one part for each of these waits, counted from where in
  the second the silence began. `CanFollows` and `CanSameCurrent` need frames to get through (`GetsThrough`): an object id
  that passes the filter, seconds with a period free of reports, and a queue with room for a
  frame of each other controller (ten places: eleven controllers). Where one of these is missing frames may be lost for
  ever. `Hearing` is the counterpart of `Releasing`. `Spreading` goes from address to
  address: once all controllers between the leader and this one have its current (`Delay`, two periods more for each),
  nothing else arrives, and what the leader sends in a period without reports does. `NobodyFollows`
  is what the run `can_follow` shows, for every instance: with an object id up to 0x8000, as in the
  repository's table, no controller ever follows another (`Deaf`).

Only model-checked: the liveness properties `Recovers`, `Recharges`, `Tracks`, `ShortAnswered`, `Derates`, `Restarts`, `Settles`,
`Answered` and `BufferReleased` (fairness and ENABLED are beyond the proof system), and the violations of
`ShortCircuitLatched` and `StartsWhenValid`. There are no recursive operators.

## Not modelled, and why

* The components over one `dev_stat.error_flags` with an explicit scheduler: each module has the
  others' writes to the flags it reads as actions instead.
* `update_soc()` and `detect_num_batteries()`: arithmetic on measured values that feeds no decision
  but the size of the intervals; the counters a change of the nominal capacity resets.
* Bus margins and droop (`power_port.cpp`): arithmetic on measurements, whose comparisons are inputs of the models.
* The jitter of `uptime() % 21600 == 0`, looked at once per round, which may skip or repeat a periodic store.
* The global ThingSet object, used by several threads without a lock: its code is not in the repository.
* LED patterns and the display: output on which nothing depends. Watchdogs and pin setup.
* Conversion factors and ADC setup, the measured values of the table of data objects,
  authentication, identifiers, board constants, and the transport protocol of ISO-TP.
