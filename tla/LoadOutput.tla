------------------------------ MODULE LoadOutput ------------------------------
(***************************************************************************)
(* The load output of the charge controller (app/src/load.cpp): the        *)
(* switch, its error flags and the 10 Hz state machine that opens and      *)
(* closes it.                                                              *)
(*                                                                         *)
(* Actors:                                                                 *)
(*   - the control thread, cooperative, runs LoadOutput::control().  No    *)
(*     other thread runs during a call, but interrupts do, so the call is  *)
(*     a sequence of steps (pc) and every `error_flags |= x' is a read     *)
(*     (the check that decides on it) followed by a Store;                 *)
(*   - the interrupts, each atomic for the thread, call                    *)
(*     LoadOutput::stop(flag): the comparator on a short circuit, the ADC  *)
(*     alert on a voltage dip;                                             *)
(*   - a communication thread writes `enable' between two calls.           *)
(*                                                                         *)
(* Abstractions: bus voltage and current margin are the intervals that the *)
(* comparisons of control() tell apart; the thermal model, the current     *)
(* limit and the power-good pin are one Boolean, "overcurrent"; a          *)
(* timestamp is kept as its age, saturated one past the delay it is        *)
(* compared with.                                                          *)
(***************************************************************************)
EXTENDS Naturals, FiniteSets

CONSTANTS
  OcRecoveryDelay,   \* CONFIG_LOAD_OC_RECOVERY_DELAY, in ticks of uptime()
  LvdRecoveryDelay,  \* CONFIG_LOAD_LVD_RECOVERY_DELAY
  ControlFrequency,  \* CONFIG_CONTROL_FREQUENCY: calls of control() in the OV debounce time
  Samples            \* the measurements a call of control() may find

(***************************************************************************)
(* Voltage of the bus against its thresholds: "low" is below disconnect,   *)
(* "recovering" up to reconnect, "normal" below overvoltage - ov_hysteresis*)
(* "high" up to overvoltage, "over" above it.  Source current margin:      *)
(* "ample" is < -1 A, "some" up to -0.1 A, "slight" up to 0, "none" >= 0.  *)
(***************************************************************************)
Voltage == {"low", "recovering", "normal", "high", "over"}
Margin  == {"ample", "some", "slight", "none"}
Sample  == [voltage : Voltage, margin : Margin, overcurrent : BOOLEAN]

ASSUME LoadAssumption ==
  /\ OcRecoveryDelay \in Nat
  /\ LvdRecoveryDelay \in Nat
  /\ ControlFrequency \in Nat \ {0}
  /\ Samples \subseteq Sample
  /\ Samples # {}

Shedding == "SHEDDING"
Overvoltage == "OVERVOLTAGE"
Overcurrent == "OVERCURRENT"
ShortCircuit == "SHORT_CIRCUIT"
VoltageDip == "VOLTAGE_DIP"
BusSrcCurrent == "BUS_SRC_CURRENT"
Flag == {Shedding, Overvoltage, Overcurrent, ShortCircuit, VoltageDip, BusSrcCurrent}
\* Flags that make stop() restart the overcurrent recovery delay.
UserFault == {Overcurrent, VoltageDip, ShortCircuit}

OnSteps  == {"overcurrent", "bus_src", "shedding", "overvoltage", "trip", "stamp", "obey"}
OffSteps == {"clear_shedding", "clear_overcurrent", "clear_overvoltage", "clear_bus_src",
             "clear_short", "decide", "close", "mark"}
Step == {"idle", "store", "report"} \cup OnSteps \cup OffSteps

VARIABLES
  switch,       \* the MOSFET, as switch_set() left it
  state,        \* LoadOutput::state
  error_flags,  \* LoadOutput::error_flags
  info,         \* LoadOutput::info: the flags it reports, or the state
  enable,       \* LoadOutput::enable, the target set by the user
  ocAge,        \* uptime() - oc_timestamp, saturated
  lvdAge,       \* uptime() - lvd_timestamp, saturated
  ov_debounce_counter,
  sample,       \* what daq_update() measured before this call
  pc,           \* the control thread inside control(), "idle" between calls
  reg,          \* the register of a read-modify-write of error_flags
  ret           \* where control() goes on after the store

(***************************************************************************)
(* History, read by the properties only.                                   *)
(***************************************************************************)
VARIABLES
  exposed,      \* calls in a row that ended with the switch closed against the evidence
  sinceOc,      \* ticks since control() last detected an overcurrent, saturated
  sinceLvd,     \* ticks since it last detected a low voltage, saturated
  shorted       \* a short circuit opened the switch of an enabled load, not disabled since

output  == <<switch, state>>
objects == <<info, enable>>
ages    == <<ocAge, lvdAge>>
timers  == <<ages, ov_debounce_counter>>
register == <<reg, ret>>
thread  == <<pc, register>>
history == <<exposed, sinceOc, sinceLvd, shorted>>
vars == <<output, error_flags, objects, timers, sample, thread, history>>

Older(age, delay) == IF age > delay THEN age ELSE age + 1

\* The measurements on which control() must open the switch at once.
Demands(s) ==
  \/ s.overcurrent
  \/ s.margin \in {"slight", "none"}
  \/ s.voltage = "low"

Init ==
  /\ switch = FALSE
  /\ state = "OFF"
  /\ error_flags = {}
  /\ info = "OFF"
  /\ enable = TRUE
  /\ ocAge = 0
  /\ lvdAge = 0
  /\ ov_debounce_counter = 0
  /\ sample \in Samples
  /\ pc = "idle"
  /\ reg = {}
  /\ ret = "idle"
  /\ exposed = 0
  /\ sinceOc = OcRecoveryDelay + 1
  /\ sinceLvd = LvdRecoveryDelay + 1
  /\ shorted = FALSE

-------------------------------------------------------------------------------
(***************************************************************************)
(* Read-modify-write of error_flags: the check computes the new value from *)
(* the flags it reads, Store writes it back whatever happened in between.  *)
(***************************************************************************)
Update(cond, value, next) ==
  IF cond
  THEN pc' = "store" /\ reg' = value /\ ret' = next
  ELSE pc' = next /\ UNCHANGED register

\* A check that changes nothing but the flags.
Examine(at, cond, value, next) ==
  /\ pc = at
  /\ Update(cond, value, next)
  /\ UNCHANGED <<output, error_flags, objects, timers, sample, history>>

Store ==
  /\ pc = "store"
  /\ error_flags' = reg
  /\ pc' = ret
  /\ reg' = {}
  /\ ret' = "idle"
  /\ UNCHANGED <<output, objects, timers, sample, history>>

BeginControl ==
  /\ pc = "idle"
  /\ sample' \in Samples
  /\ pc' = IF state = "ON" THEN "overcurrent" ELSE "clear_shedding"
  /\ UNCHANGED <<output, error_flags, objects, timers, register, history>>

-------------------------------------------------------------------------------
\* The branch of control() for a load that is on.

CheckOvercurrent ==
  /\ pc = "overcurrent"
  /\ Update(sample.overcurrent, error_flags \cup {Overcurrent}, "bus_src")
  /\ IF sample.overcurrent
     THEN ocAge' = 0 /\ sinceOc' = 0
     ELSE UNCHANGED <<ocAge, sinceOc>>
  /\ UNCHANGED <<output, error_flags, objects, lvdAge, ov_debounce_counter, sample,
                 exposed, sinceLvd, shorted>>

\* (The threshold 0 of the off branch instead of -0.1 A.)
CheckBusSrcAtZero ==
  Examine("bus_src", sample.margin = "none", error_flags \cup {BusSrcCurrent}, "shedding")

CheckBusSrc ==
  Examine("bus_src", sample.margin \in {"slight", "none"}, error_flags \cup {BusSrcCurrent},
          "shedding")

\* (lvd_timestamp is not set.)
CheckSheddingNoStamp ==
  /\ pc = "shedding"
  /\ Update(sample.voltage = "low", error_flags \cup {Shedding}, "overvoltage")
  /\ sinceLvd' = IF sample.voltage = "low" THEN 0 ELSE sinceLvd
  /\ UNCHANGED <<output, error_flags, objects, timers, sample, exposed, sinceOc, shorted>>

CheckShedding ==
  /\ pc = "shedding"
  /\ Update(sample.voltage = "low", error_flags \cup {Shedding}, "overvoltage")
  /\ IF sample.voltage = "low"
     THEN lvdAge' = 0 /\ sinceLvd' = 0
     ELSE UNCHANGED <<lvdAge, sinceLvd>>
  /\ UNCHANGED <<output, error_flags, objects, ocAge, ov_debounce_counter, sample, exposed,
                 sinceOc, shorted>>

\* The counter is an int that control() never resets while the load is off; it
\* saturates here one past the limit it is compared with.
CheckOvervoltage ==
  /\ pc = "overvoltage"
  /\ ov_debounce_counter' =
       IF sample.voltage # "over" THEN 0
       ELSE IF ov_debounce_counter > ControlFrequency THEN ov_debounce_counter
       ELSE ov_debounce_counter + 1
  /\ Update(ov_debounce_counter' > ControlFrequency, error_flags \cup {Overvoltage}, "trip")
  /\ UNCHANGED <<output, error_flags, objects, ages, sample, history>>

\* if (error_flags) stop(): opens the switch, then a store of the flags it read.
Trip ==
  /\ pc = "trip"
  /\ IF error_flags # {}
     THEN switch' = FALSE /\ state' = "OFF"
     ELSE UNCHANGED output
  /\ Update(error_flags # {}, error_flags, IF error_flags # {} THEN "stamp" ELSE "obey")
  /\ UNCHANGED <<error_flags, objects, timers, sample, history>>

Stamp ==
  /\ pc = "stamp"
  /\ ocAge' = IF error_flags \cap UserFault # {} THEN 0 ELSE ocAge
  /\ pc' = "obey"
  /\ UNCHANGED <<output, error_flags, objects, lvdAge, ov_debounce_counter, sample,
                 register, history>>

\* if (enable == false) the user's wish opens the switch without a flag.
Obey ==
  /\ pc = "obey"
  /\ IF enable
     THEN UNCHANGED output
     ELSE switch' = FALSE /\ state' = "OFF"
  /\ pc' = "report"
  /\ UNCHANGED <<error_flags, objects, timers, sample, register, history>>

-------------------------------------------------------------------------------
\* The branch of control() for a load that is off.

ClearShedding ==
  Examine("clear_shedding", /\ Shedding \in error_flags
                            /\ sample.voltage \in {"normal", "high", "over"}
                            /\ lvdAge > LvdRecoveryDelay,
                            error_flags \ {Shedding}, "clear_overcurrent")

\* (The voltage dip is left out of the mask that is cleared.)
ClearOvercurrentOnly ==
  Examine("clear_overcurrent", /\ error_flags \cap {Overcurrent, VoltageDip} # {}
                               /\ ocAge > OcRecoveryDelay,
                               error_flags \ {Overcurrent}, "clear_overvoltage")

ClearOvercurrent ==
  Examine("clear_overcurrent", /\ error_flags \cap {Overcurrent, VoltageDip} # {}
                               /\ ocAge > OcRecoveryDelay,
                               error_flags \ {Overcurrent, VoltageDip}, "clear_overvoltage")

ClearOvervoltage ==
  Examine("clear_overvoltage", /\ Overvoltage \in error_flags
                               /\ sample.voltage \in {"low", "recovering", "normal"},
                               error_flags \ {Overvoltage}, "clear_bus_src")

ClearBusSrc ==
  Examine("clear_bus_src", BusSrcCurrent \in error_flags /\ sample.margin # "none",
                           error_flags \ {BusSrcCurrent}, "clear_short")

ClearShort ==
  Examine("clear_short", ShortCircuit \in error_flags /\ ~enable,
          error_flags \ {ShortCircuit}, "decide")

Decide ==
  /\ pc = "decide"
  /\ pc' = IF enable /\ error_flags = {} /\ sample.margin = "ample" THEN "close" ELSE "report"
  /\ UNCHANGED <<output, error_flags, objects, timers, sample, register, history>>

\* (The two assignments in the other order.)
SwitchOnStateFirst ==
  /\ \/ pc = "close" /\ state' = "ON" /\ pc' = "mark" /\ UNCHANGED switch
     \/ pc = "mark" /\ switch' = TRUE /\ pc' = "report" /\ UNCHANGED state
  /\ UNCHANGED <<error_flags, objects, timers, sample, register, history>>

\* switch_set(true), then state = LOAD_STATE_ON.
SwitchOn ==
  /\ \/ pc = "close" /\ switch' = TRUE /\ pc' = "mark" /\ UNCHANGED state
     \/ pc = "mark" /\ state' = "ON" /\ pc' = "report" /\ UNCHANGED switch
  /\ UNCHANGED <<error_flags, objects, timers, sample, register, history>>

Report ==
  /\ pc = "report"
  /\ info' = IF error_flags # {} THEN "ERROR" ELSE state
  /\ pc' = "idle"
  /\ exposed' = IF switch /\ (error_flags # {} \/ Demands(sample))
                THEN IF exposed > 1 THEN exposed ELSE exposed + 1
                ELSE 0
  /\ UNCHANGED <<output, error_flags, enable, timers, sample, register, sinceOc, sinceLvd,
                 shorted>>

-------------------------------------------------------------------------------
\* LoadOutput::stop(flag) in an interrupt; both flags restart the overcurrent delay.
InterruptStop(flag) ==
  /\ switch' = FALSE
  /\ state' = "OFF"
  /\ error_flags' = error_flags \cup {flag}
  /\ ocAge' = 0
  /\ exposed' = 0
  /\ shorted' = (shorted \/ (flag = ShortCircuit /\ switch /\ enable))
  /\ UNCHANGED <<objects, lvdAge, ov_debounce_counter, sample, thread, sinceOc, sinceLvd>>

ShortCircuitStop == InterruptStop(ShortCircuit)
VoltageDipStop == InterruptStop(VoltageDip)

\* ThingSet write of `enable' by a preemptible thread.
SetEnable ==
  /\ pc = "idle"
  /\ enable' = ~enable
  /\ shorted' = (shorted /\ enable')
  /\ UNCHANGED <<output, error_flags, info, timers, sample, thread, exposed, sinceOc,
                 sinceLvd>>

Tick ==
  /\ ocAge' = Older(ocAge, OcRecoveryDelay)
  /\ lvdAge' = Older(lvdAge, LvdRecoveryDelay)
  /\ sinceOc' = Older(sinceOc, OcRecoveryDelay)
  /\ sinceLvd' = Older(sinceLvd, LvdRecoveryDelay)
  /\ UNCHANGED <<output, error_flags, objects, ov_debounce_counter, sample, thread,
                 exposed, shorted>>

OnBranch ==
  \/ CheckOvercurrent \/ CheckBusSrc \/ CheckShedding \/ CheckOvervoltage
  \/ Trip \/ Stamp \/ Obey

OffBranch ==
  \/ ClearShedding \/ ClearOvercurrent \/ ClearOvervoltage \/ ClearBusSrc \/ ClearShort
  \/ Decide \/ SwitchOn

Control == BeginControl \/ OnBranch \/ OffBranch \/ Store \/ Report

Interrupt == ShortCircuitStop \/ VoltageDipStop

Next == Control \/ Interrupt \/ SetEnable \/ Tick

Spec == Init /\ [][Next]_vars

\* The control thread is periodic and has the highest thread priority; time passes.
FairSpec == Spec /\ WF_vars(Control) /\ WF_vars(Tick)

-------------------------------------------------------------------------------
\* Type invariant of the load output.
TypeOK ==
  /\ switch \in BOOLEAN
  /\ state \in {"ON", "OFF"}
  /\ error_flags \subseteq Flag
  /\ info \in {"ON", "OFF", "ERROR"}
  /\ enable \in BOOLEAN
  /\ ocAge \in 0 .. OcRecoveryDelay + 1
  /\ lvdAge \in 0 .. LvdRecoveryDelay + 1
  /\ ov_debounce_counter \in 0 .. ControlFrequency + 1
  /\ sample \in Samples
  /\ pc \in Step
  /\ reg \subseteq Flag
  /\ ret \in Step \ {"store"}
  /\ exposed \in 0 .. 2
  /\ sinceOc \in 0 .. OcRecoveryDelay + 1
  /\ sinceLvd \in 0 .. LvdRecoveryDelay + 1
  /\ shorted \in BOOLEAN

(***************************************************************************)
(* A closed switch is always one that control() takes for closed: whatever *)
(* the point at which stop() interrupts control(), the load is never left  *)
(* powered with state OFF, where no check would open it again.             *)
(***************************************************************************)
SwitchIsKnown == switch /\ pc # "mark" => state = "ON"

(***************************************************************************)
(* The load is never powered against the evidence for two calls in a row:  *)
(* if a call ends with the switch closed although an error flag is set or  *)
(* its own measurement demands to open it (an interrupt hit the last lines *)
(* of the call, or the off branch closed it without looking), the next     *)
(* call opens it, or finds the reason gone.                                *)
(***************************************************************************)
ExposureBounded == exposed <= 1

(***************************************************************************)
(* The load is powered again after control() found an overcurrent or a low *)
(* voltage only when the recovery delay of each has passed, whatever       *)
(* interrupts and user commands came in between.                           *)
(***************************************************************************)
RecoveryDelays ==
  [][(~switch /\ switch') =>
       sinceOc > OcRecoveryDelay /\ sinceLvd > LvdRecoveryDelay]_vars

(***************************************************************************)
(* When the load stays enabled, the measurements stay good and interrupts  *)
(* cease, the load is powered again, unless a short circuit latched it.    *)
(***************************************************************************)
Good(s) == s.voltage = "normal" /\ s.margin = "ample" /\ ~s.overcurrent
Recovers ==
  <>[](enable /\ Good(sample)) /\ <>[][~Interrupt]_vars
    => <>[](switch \/ ShortCircuit \in error_flags)

(***************************************************************************)
(* load.h: a short circuit flag is "cleared only if load output is        *)
(* manually disabled and enabled again", so the load is not powered again  *)
(* before that.  Fails: a Store drops the flag that the interrupt set      *)
(* after the thread read error_flags, and the load is back on after the    *)
(* delay of whatever fault the thread was recording.                       *)
(***************************************************************************)
ShortCircuitLatched == [][(~switch /\ switch') => ~shorted]_vars
===============================================================================
