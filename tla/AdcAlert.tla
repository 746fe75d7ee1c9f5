-------------------------------- MODULE AdcAlert --------------------------------
(***************************************************************************)
(* One channel of the data acquisition (app/src/daq.cpp): the low-pass     *)
(* filter of its readings and its upper alert, with the debounce counter   *)
(* that the PWM switch also uses to inhibit the alert.                     *)
(*                                                                         *)
(* Actors:                                                                 *)
(*   - the DMA interrupt of the ADC, once a millisecond:                   *)
(*     adc_update_value(), one access to the counter (isr) at a time;      *)
(*   - the interrupt of timer TIM3, at each rising edge of the PWM signal, *)
(*     of higher priority;                                                 *)
(*   - the control thread, which both interrupts preempt, moves the limit, *)
(*     starts the PWM switch and sets its duty.                            *)
(*                                                                         *)
(* The channel is v_low of a board with a PWM switch, which is always      *)
(* filtered.  Its lower alert is the same code without the inhibition.     *)
(***************************************************************************)
EXTENDS Integers

CONSTANTS
  MaxReading,     \* largest reading of the ADC
  Weight,         \* 2 ^ adc_filter_const
  Readings,       \* the readings considered
  Limits,         \* the limits considered, those above all readings included
  Period,         \* milliseconds between two rising edges of the PWM signal
  PulseInhibit,   \* the 10 ms that an edge inhibits the alert
  StartInhibit,   \* the 50 ms that a start inhibits the alert
  HalfRange,      \* debounce_ms counts from -HalfRange to HalfRange - 1
  Longest         \* samples an overvoltage may last: each call of the control thread moves
                  \* the limit to 1.2 times the filtered voltage

ASSUME AdcAssumption ==
  /\ MaxReading \in Nat
  /\ Weight \in Nat \ {0}
  /\ Readings \subseteq 0 .. MaxReading
  /\ 0 \in Readings
  /\ Limits \subseteq Nat
  /\ PulseInhibit \in Nat
  /\ StartInhibit \in Nat
  /\ PulseInhibit <= StartInhibit
  /\ Period \in Nat
  /\ PulseInhibit + 3 <= Period
  /\ HalfRange \in Nat
  /\ StartInhibit <= HalfRange
  /\ Longest \in Nat
  /\ Longest + 1 < HalfRange

VARIABLES
  reading,        \* adc_readings[pos]
  filtered,       \* adc_filtered[pos]
  limit,          \* adc_alerts_upper[pos].limit
  debounce_ms,    \* adc_alerts_upper[pos].debounce_ms
  called,         \* the last step called the alert
  isr, reg,       \* the DMA interrupt; its register in a read-modify-write
  phase,          \* milliseconds until the next edge
  pulsing,        \* the compare register is below the resolution: duty below 100%
  pc              \* the control thread, "start" between inhibition and start

(***************************************************************************)
(* History, read by the properties and the bound Longest only.             *)
(***************************************************************************)
VARIABLES
  held,           \* samples in a row at or above the limit
  waiting,        \* those of them since the last call of the alert or start of the switch
  inhibited,      \* the last edge has inhibited the alert
  undone          \* it came between a read of the counter and the write that follows

filter == <<reading, filtered>>
alert == <<limit, debounce_ms, called>>
dma == <<isr, reg>>
pwm == <<phase, pulsing, pc>>
history == <<held, waiting, inhibited, undone>>
vars == <<filter, alert, dma, pwm, history>>

\* The callback is not set before the first limit.
NoLimit == MaxReading + 1

\* Conversion of an int to int16_t.
int16(n) == ((n + HalfRange) % (2 * HalfRange)) - HalfRange

\* (The average is taken of the new sum.)
FilterNew(x, y) == x + y - ((x + y) \div Weight)

Filter(x, y) == x + y - (y \div Weight)

Init ==
  /\ reading = 0
  /\ filtered = 0
  /\ limit = NoLimit
  /\ debounce_ms = 0
  /\ called = FALSE
  /\ isr = "idle"
  /\ reg = 0
  /\ phase \in 0 .. Period
  /\ pulsing = TRUE
  /\ pc = "idle"
  /\ held = 0
  /\ waiting = 0
  /\ inhibited = FALSE
  /\ undone = FALSE

-------------------------------------------------------------------------------
\* adc_update_value(): the filter, and the read of debounce_ms++.
Convert ==
  /\ isr = "idle"
  /\ phase > 0
  /\ reading' \in Readings
  /\ held < Longest \/ reading' < limit
  /\ filtered' = Filter(reading', filtered)
  /\ reg' = debounce_ms + 1
  /\ isr' = "count"
  /\ phase' = phase - 1
  /\ called' = FALSE
  /\ UNCHANGED <<limit, debounce_ms, pulsing, pc, history>>

Count ==
  /\ isr = "count"
  /\ debounce_ms' = int16(reg)
  /\ reg' = 0
  /\ isr' = "check"
  /\ called' = FALSE
  /\ UNCHANGED <<filter, limit, pwm, history>>

\* (A low reading resets the counter whatever its value.)
CloseToTriggeringAlways == TRUE

CloseToTriggering == debounce_ms > 0

Exceeded ==
  /\ isr = "check"
  /\ reading >= limit
  /\ called' = (debounce_ms > 1)
  /\ isr' = "idle"
  /\ held' = held + 1
  /\ waiting' = IF called' THEN 0 ELSE waiting + 1
  /\ UNCHANGED <<filter, limit, debounce_ms, reg, pwm, inhibited, undone>>

Normal ==
  /\ isr = "check"
  /\ reading < limit
  /\ called' = FALSE
  /\ isr' = IF CloseToTriggering THEN "reset" ELSE "idle"
  /\ held' = 0
  /\ waiting' = 0
  /\ UNCHANGED <<filter, limit, debounce_ms, reg, pwm, inhibited, undone>>

Reset ==
  /\ isr = "reset"
  /\ debounce_ms' = 0
  /\ isr' = "idle"
  /\ called' = FALSE
  /\ UNCHANGED <<filter, limit, reg, pwm, history>>

\* (The delays add up.)
adc_upper_alert_delay(timeout_ms) ==
  debounce_ms' = IF debounce_ms > 0 THEN -timeout_ms ELSE int16(debounce_ms - timeout_ms)

adc_upper_alert_inhibit(timeout_ms) == debounce_ms' = -timeout_ms

\* TIM3_IRQHandler()
Edge ==
  /\ phase = 0
  /\ phase' = Period
  /\ IF pulsing THEN adc_upper_alert_inhibit(PulseInhibit) ELSE UNCHANGED debounce_ms
  /\ inhibited' = pulsing
  /\ undone' = (isr \in {"count", "reset"})
  /\ called' = FALSE
  /\ UNCHANGED <<filter, limit, dma, pulsing, pc, held, waiting>>

-------------------------------------------------------------------------------
\* daq_set_lv_limits() in the control thread.
SetLimit ==
  /\ isr = "idle"
  /\ pc = "idle"
  /\ limit' \in Limits
  /\ called' = FALSE
  /\ UNCHANGED <<filter, debounce_ms, dma, pwm, history>>

\* The start in PwmSwitch::control().
Inhibit ==
  /\ isr = "idle"
  /\ pc = "idle"
  /\ adc_upper_alert_inhibit(StartInhibit)
  /\ pc' = "start"
  /\ waiting' = 0
  /\ called' = FALSE
  /\ UNCHANGED <<filter, limit, dma, phase, pulsing, held, inhibited, undone>>

Start ==
  /\ isr = "idle"
  /\ pc = "start"
  /\ pulsing' \in BOOLEAN
  /\ pc' = "idle"
  /\ called' = FALSE
  /\ UNCHANGED <<filter, limit, debounce_ms, dma, phase, history>>

SetDuty ==
  /\ isr = "idle"
  /\ pc = "idle"
  /\ pulsing' \in BOOLEAN
  /\ called' = FALSE
  /\ UNCHANGED <<filter, limit, debounce_ms, dma, phase, pc, history>>

Sample == Convert \/ Count \/ Exceeded \/ Normal \/ Reset

Next == Sample \/ Edge \/ SetLimit \/ Inhibit \/ Start \/ SetDuty

Spec == Init /\ [][Next]_vars

\* Both interrupts are periodic.
FairSpec == Spec /\ WF_vars(Sample) /\ WF_vars(Edge)

-------------------------------------------------------------------------------
\* Type invariant; that of the filter: its value stays below the largest reading, scaled.
TypeOK ==
  /\ reading \in Readings
  /\ filtered \in 0 .. MaxReading * Weight
  /\ limit \in Limits \cup {NoLimit}
  /\ debounce_ms \in -HalfRange .. HalfRange - 1
  /\ called \in BOOLEAN
  /\ isr \in {"idle", "count", "check", "reset"}
  /\ reg \in -HalfRange + 1 .. HalfRange
  /\ phase \in 0 .. Period
  /\ pulsing \in BOOLEAN
  /\ pc \in {"idle", "start"}
  /\ held \in 0 .. Longest
  /\ waiting \in Nat
  /\ inhibited \in BOOLEAN
  /\ undone \in BOOLEAN

(***************************************************************************)
(* An overvoltage that lasts is reported in time although every edge of    *)
(* the PWM signal puts the counter back: neither the inhibition by an edge *)
(* on top of that by a start, nor an edge in the middle of the count, nor  *)
(* a limit that moves, nor what an earlier overvoltage has left in the     *)
(* counter delays it any further.                                          *)
(***************************************************************************)
DetectionBounded == waiting <= StartInhibit + PulseInhibit + 3

(***************************************************************************)
(* The voltage rise at an edge of the PWM signal is tolerated: no alert    *)
(* until PulseInhibit samples after it and the two of the debounce, also   *)
(* if the switch is started in that time, unless the edge hits the         *)
(* interrupt between a read of the counter and the write that follows.     *)
(***************************************************************************)
Tolerated == Period - phase >= PulseInhibit + 2
PulseTolerated == called /\ inhibited => undone \/ Tolerated

(***************************************************************************)
(* The filter settles on the value of a constant reading: its integer      *)
(* arithmetic neither stops short of it nor overshoots for good.           *)
(***************************************************************************)
Settles == \A x \in Readings : <>[](reading = x) => <>[](filtered \div Weight = x)
===============================================================================
