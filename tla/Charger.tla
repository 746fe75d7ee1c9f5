-------------------------------- MODULE Charger --------------------------------
(***************************************************************************)
(* The battery charger state machine (app/src/bat_charger.cpp):            *)
(* Charger::discharge_control() and Charger::charge_control(), which the   *)
(* main loop calls once per second.                                        *)
(*                                                                         *)
(* Actors:                                                                 *)
(*   - the main thread runs both functions, one step (pc) at a time;       *)
(*   - the control thread preempts it anywhere and refreshes what          *)
(*     daq_update() measures (Measure);                                    *)
(*   - the ADC interrupt preempts both: an overvoltage alert sets `state'  *)
(*     to IDLE and an error flag behind the back of the state machine;     *)
(*   - threads of lower priority than the main thread receive control      *)
(*     messages and changes of the configuration while it sleeps.          *)
(*                                                                         *)
(* DeviceStatus::set_error and clear_error are unprotected read-modify-    *)
(* writes of dev_stat.error_flags: a Store writes back what was read.      *)
(*                                                                         *)
(* Abstractions: voltages are the number of thresholds they have reached   *)
(* (droop and series count scale all sink thresholds alike), temperatures  *)
(* the intervals the comparisons tell apart, current limits the setting    *)
(* they come from, as it is when they are assigned.  Durations are         *)
(* constants.  A timestamp is kept as its age, saturated one past the      *)
(* delay it is compared with; the two equalization triggers are one        *)
(* Boolean that days or deep discharges may set.  The under- and           *)
(* overtemperature flags of one direction are one flag.  Coulomb counter,  *)
(* SOC, SOH and the charge counters do not feed back into the state        *)
(* machine and are left out.                                               *)
(***************************************************************************)
EXTENDS Naturals

CONSTANTS
  RechargeTime,           \* time_limit_recharge, in calls of charge_control()
  ToppingTimeout,         \* the 8 hours without reaching the topping voltage
  ToppingDuration,        \* topping_duration
  FloatRechargeTime,      \* float_recharge_time
  EqualizationDuration,   \* equalization_duration
  AgeCap,                 \* where the age of the last state change saturates
  BatConfs,               \* the batteries the charger may be configured for
  Samples                 \* the measurements daq_update() may deliver

\* Voltage thresholds in ascending order (that of all factory settings).
AbsoluteMin == 1
Recharge == 2
FloatTarget == 3
ToppingTarget == 4
Level == 0 .. ToppingTarget

\* Temperature against the limits of one direction, "edge" being the hysteresis of 1 degree.
Range == {"inside", "edge", "outside"}

(***************************************************************************)
(* `over' is whether the voltage has reached the last 0.5 V below the      *)
(* absolute maximum, which with the factory settings of a lead-acid        *)
(* battery begin below the topping target; `reserve' the bus voltage       *)
(* against absolute_min_voltage in discharging direction, `charge' and     *)
(* `discharge' the temperature against the limits of the two directions,   *)
(* `cutoff' whether current_filtered is below topping_cutoff_current.      *)
(***************************************************************************)
Sample == [voltage : Level, filtered : Level, over : BOOLEAN,
           reserve : {"under", "hysteresis", "above"}, charge : Range, discharge : Range,
           cutoff : BOOLEAN]

BatConf == [float_enabled : BOOLEAN, equalization_enabled : BOOLEAN]

ASSUME ChargerAssumption ==
  /\ RechargeTime \in Nat
  /\ ToppingTimeout \in Nat
  /\ ToppingDuration \in Nat
  /\ FloatRechargeTime \in Nat
  /\ EqualizationDuration \in Nat
  /\ AgeCap \in Nat
  /\ AgeCap > RechargeTime
  /\ AgeCap > ToppingTimeout + ToppingDuration + 2
  /\ AgeCap > EqualizationDuration + 1
  /\ BatConfs \subseteq BatConf
  /\ Samples \subseteq Sample
  /\ Samples # {}

BatUndervoltage == "BAT_UNDERVOLTAGE"
BatOvervoltage == "BAT_OVERVOLTAGE"
BatDisTemp == "BAT_DIS_TEMP"
BatChgTemp == "BAT_CHG_TEMP"
DischargeErrors == {BatUndervoltage, BatDisTemp}
Error == DischargeErrors \cup {BatOvervoltage, BatChgTemp}

ChargerState == {"IDLE", "BULK", "TOPPING", "FLOAT", "EQUALIZATION", "FOLLOWER"}

Step == ChargerState \cup {"sleep", "discharge", "store", "temperature", "overvoltage",
                           "follow", "switch", "enter_bulk"}

VARIABLES
  bat_conf,       \* the configuration in force
  state,          \* Charger::state
  stateAge,       \* uptime() - time_state_changed, saturated
  never,          \* time_state_changed == CHARGER_TIME_NEVER
  target_voltage_timer,
  reachedAge,     \* uptime() - time_target_voltage_reached, saturated
  due,            \* days or deep discharges since the last equalization reached their trigger
  ctrlAge,        \* uptime() - time_last_ctrl_msg, saturated
  full,
  pos,            \* port->pos_current_limit
  neg,            \* port->neg_current_limit allows discharging
  intercept,      \* bus->sink_voltage_intercept
  error_flags,    \* the battery errors in dev_stat.error_flags
  sample,         \* what daq_update() measured last
  pc,             \* the main thread, "sleep" between two rounds of the loop
  reg, ret        \* read-modify-write of error_flags: its register, where it returns

(***************************************************************************)
(* History, read by the properties only.                                   *)
(***************************************************************************)
VARIABLES
  outside,        \* this round found the battery outside its charging temperature
  sinceStop       \* rounds since charging was stopped for being full or too hot or cold

ages    == <<stateAge, never, target_voltage_timer, reachedAge, due, ctrlAge>>
limits  == <<pos, neg, intercept>>
thread  == <<pc, reg, ret>>
history == <<outside, sinceStop>>
vars == <<bat_conf, state, ages, full, limits, error_flags, sample, thread, history>>

Older(age, delay) == IF age > delay THEN age ELSE age + 1

Init ==
  /\ bat_conf \in BatConfs
  /\ state = "IDLE"
  /\ stateAge = AgeCap
  /\ never = TRUE
  /\ target_voltage_timer = 0
  /\ reachedAge = FloatRechargeTime + 1
  /\ due \in BOOLEAN
  /\ ctrlAge = 2
  /\ full = FALSE
  /\ pos = "charge"
  /\ neg = TRUE
  /\ intercept = "topping"
  /\ error_flags = {}
  /\ sample \in Samples
  /\ pc = "sleep"
  /\ reg = {}
  /\ ret = "sleep"
  /\ outside = FALSE
  /\ sinceStop = RechargeTime + 1

-------------------------------------------------------------------------------
(***************************************************************************)
(* Read-modify-write of error_flags: the thread computes the new value     *)
(* from the flags it reads, Store writes it back whatever came in between. *)
(***************************************************************************)
Update(cond, value, next) ==
  IF cond
  THEN pc' = "store" /\ reg' = value /\ ret' = next
  ELSE pc' = next /\ UNCHANGED <<reg, ret>>

Store ==
  /\ pc = "store"
  /\ error_flags' = reg
  /\ pc' = ret
  /\ reg' = {}
  /\ ret' = "sleep"
  /\ UNCHANGED <<bat_conf, state, ages, full, limits, sample, history>>

\* (The plain assignment that the alerts use.)
EnterStateUnstamped(next) == state' = next /\ UNCHANGED <<stateAge, never>>

EnterState(next) ==
  /\ state' = next
  /\ stateAge' = 0
  /\ never' = FALSE

\* One second later: the next round of the main loop.  A day may have ended, or the load
\* been shed, which discharge_control() counts as a deep discharge.
Wake ==
  /\ pc = "sleep"
  /\ pc' = "discharge"
  /\ stateAge' = IF stateAge < AgeCap THEN stateAge + 1 ELSE stateAge
  /\ reachedAge' = Older(reachedAge, FloatRechargeTime)
  /\ ctrlAge' = Older(ctrlAge, 1)
  /\ due' \in {due, TRUE}
  /\ sinceStop' = Older(sinceStop, RechargeTime)
  /\ UNCHANGED <<bat_conf, state, never, target_voltage_timer, full, limits, error_flags,
                 sample, reg, ret, outside>>

\* The faults that stop discharging, and those whose hysteresis has been left.
Faults ==
  {e \in DischargeErrors : \/ e = BatUndervoltage /\ sample.reserve = "under"
                           \/ e = BatDisTemp /\ sample.discharge = "outside"}
Resolved ==
  {e \in DischargeErrors : \/ e = BatUndervoltage /\ sample.reserve = "above"
                           \/ e = BatDisTemp /\ sample.discharge = "inside"}

\* (One fault gone is taken for all faults gone.)
AllowedAgainAny == Resolved # {}

AllowedAgain == (error_flags \ Resolved) \cap DischargeErrors = {}

\* (One store for all: nobody else writes these flags, and an alert that came between two
\* stores is the same as one before the first.)
LimitDischarge ==
  /\ pc = "discharge"
  /\ \/ /\ neg
        /\ neg' = (Faults = {})
        /\ Update(Faults # {}, error_flags \cup Faults, "temperature")
     \/ /\ ~neg
        /\ neg' = AllowedAgain
        /\ Update(Resolved # {}, error_flags \ Resolved, "temperature")
  /\ UNCHANGED <<bat_conf, state, ages, full, pos, intercept, error_flags, sample, history>>

-------------------------------------------------------------------------------
\* charge_control(), before its state machine.

\* (enter_state() is left out.)
StopOutsideTemperatureOnly ==
  /\ pc = "temperature"
  /\ outside' = (sample.charge = "outside")
  /\ IF sample.charge = "outside"
     THEN pos' = "zero" /\ sinceStop' = 0
     ELSE UNCHANGED <<pos, sinceStop>>
  /\ Update(sample.charge = "outside", error_flags \cup {BatChgTemp}, "overvoltage")
  /\ UNCHANGED <<bat_conf, state, ages, full, neg, intercept, error_flags, sample>>

StopOutsideTemperature ==
  /\ pc = "temperature"
  /\ outside' = (sample.charge = "outside")
  /\ IF sample.charge = "outside"
     THEN EnterState("IDLE") /\ pos' = "zero" /\ sinceStop' = 0
     ELSE UNCHANGED <<state, stateAge, never, pos, sinceStop>>
  /\ Update(sample.charge = "outside", error_flags \cup {BatChgTemp}, "overvoltage")
  /\ UNCHANGED <<bat_conf, target_voltage_timer, reachedAge, due, ctrlAge, full, neg, intercept,
                 error_flags, sample>>

ClearOvervoltage ==
  /\ pc = "overvoltage"
  /\ Update(BatOvervoltage \in error_flags /\ ~sample.over,
            error_flags \ {BatOvervoltage}, "follow")
  /\ UNCHANGED <<bat_conf, state, ages, full, limits, error_flags, sample, history>>

Follow ==
  /\ pc = "follow"
  /\ IF state # "FOLLOWER" /\ ctrlAge <= 1
     THEN EnterState("FOLLOWER")
     ELSE UNCHANGED <<state, stateAge, never>>
  /\ pc' = "switch"
  /\ UNCHANGED <<bat_conf, target_voltage_timer, reachedAge, due, ctrlAge, full, limits,
                 error_flags, sample, reg, ret, history>>

\* switch (state): from here the round goes on with the state it has read.
Switch ==
  /\ pc = "switch"
  /\ pc' = state
  /\ UNCHANGED <<bat_conf, state, ages, full, limits, error_flags, sample, reg, ret, history>>

-------------------------------------------------------------------------------
(***************************************************************************)
(* The state machine.  A handler writes `state' last, so an interrupt      *)
(* during a handler is one between Switch and the handler.                 *)
(***************************************************************************)

Sleep == pc' = "sleep" /\ UNCHANGED <<reg, ret, outside>>

StartConditions ==
  /\ never \/ (stateAge > RechargeTime /\ sample.voltage < Recharge)
  /\ sample.voltage >= AbsoluteMin
  /\ sample.charge = "inside"

Idle ==
  /\ pc = "IDLE"
  /\ ~StartConditions
  /\ UNCHANGED <<bat_conf, state, ages, full, limits, error_flags, sample, sinceStop>>
  /\ Sleep

StartCharging ==
  /\ pc = "IDLE"
  /\ StartConditions
  /\ intercept' = "topping"
  /\ pos' = "charge"
  /\ full' = FALSE
  /\ Update(TRUE, error_flags \ {BatChgTemp, BatOvervoltage}, "enter_bulk")
  /\ UNCHANGED <<bat_conf, state, ages, neg, error_flags, sample, history>>

EnterBulk ==
  /\ pc = "enter_bulk"
  /\ EnterState("BULK")
  /\ UNCHANGED <<bat_conf, target_voltage_timer, reachedAge, due, ctrlAge, full, limits,
                 error_flags, sample, sinceStop>>
  /\ Sleep

Bulk ==
  /\ pc = "BULK"
  /\ intercept' = "topping"
  /\ IF sample.voltage >= ToppingTarget
     THEN EnterState("TOPPING") /\ target_voltage_timer' = 0
     ELSE UNCHANGED <<state, stateAge, never, target_voltage_timer>>
  /\ UNCHANGED <<bat_conf, reachedAge, due, ctrlAge, full, pos, neg, error_flags, sample,
                 sinceStop>>
  /\ Sleep

\* The next state of a battery that is full; equalization only after topping.
EqualizationDue == bat_conf.equalization_enabled /\ due

Equalize == EnterState("EQUALIZATION") /\ intercept' = "equalization" /\ pos' = "equalization"
Floating == EnterState("FLOAT") /\ intercept' = "float" /\ UNCHANGED pos
Rest(kept) == EnterState("IDLE") /\ intercept' = kept /\ pos' = "zero"

\* (Only the calls below the cut-off current are counted.)
TimerAfterCutoff(reached) == target_voltage_timer + (IF reached /\ sample.cutoff THEN 1 ELSE 0)

TimerAfter(reached) == target_voltage_timer + (IF reached THEN 1 ELSE 0)

Complete == sample.cutoff \/ target_voltage_timer > ToppingDuration

\* (A phase that never reached its target is not given up.)
GiveUpUnlessTimed == stateAge > ToppingTimeout /\ target_voltage_timer > 0

GiveUp == stateAge > ToppingTimeout

Topping ==
  /\ pc = "TOPPING"
  /\ LET reached == sample.filtered >= ToppingTarget
     IN  /\ target_voltage_timer' = TimerAfter(reached)
         /\ full' = (full \/ (reached /\ Complete))
         /\ \/ full' /\ EqualizationDue /\ Equalize
            \/ full' /\ ~EqualizationDue /\ bat_conf.float_enabled /\ Floating
            \/ full' /\ ~EqualizationDue /\ ~bat_conf.float_enabled /\ Rest("topping")
            \/ /\ ~full'
               /\ intercept' = "topping"
               /\ UNCHANGED pos
               /\ IF ~reached /\ GiveUp
                  THEN EnterState("BULK")
                  ELSE UNCHANGED <<state, stateAge, never>>
  /\ sinceStop' = IF pos' = "zero" THEN 0 ELSE sinceStop
  /\ UNCHANGED <<bat_conf, reachedAge, due, ctrlAge, neg, error_flags, sample>>
  /\ Sleep

\* (The current limit of an equalization is kept.)
FloatKeepLimit ==
  /\ pc = "FLOAT"
  /\ intercept' = "float"
  /\ reachedAge' = IF sample.voltage >= FloatTarget THEN 0 ELSE reachedAge
  /\ IF reachedAge' > FloatRechargeTime /\ sample.filtered < Recharge
     THEN EnterState("BULK") /\ full' = FALSE
     ELSE UNCHANGED <<state, stateAge, never, full>>
  /\ UNCHANGED <<bat_conf, target_voltage_timer, due, ctrlAge, pos, neg, error_flags, sample,
                 sinceStop>>
  /\ Sleep

Float ==
  /\ pc = "FLOAT"
  /\ intercept' = "float"
  /\ reachedAge' = IF sample.voltage >= FloatTarget THEN 0 ELSE reachedAge
  /\ IF reachedAge' > FloatRechargeTime /\ sample.filtered < Recharge
     THEN EnterState("BULK") /\ pos' = "charge" /\ full' = FALSE
     ELSE UNCHANGED <<state, stateAge, never, pos, full>>
  /\ UNCHANGED <<bat_conf, target_voltage_timer, due, ctrlAge, neg, error_flags, sample,
                 sinceStop>>
  /\ Sleep

Equalization ==
  /\ pc = "EQUALIZATION"
  /\ \/ /\ stateAge > EqualizationDuration
        /\ due' = FALSE
        /\ IF bat_conf.float_enabled THEN Floating ELSE Rest("equalization")
     \/ /\ stateAge <= EqualizationDuration
        /\ intercept' = "equalization"
        /\ UNCHANGED <<state, stateAge, never, due, pos>>
  /\ sinceStop' = IF pos' = "zero" THEN 0 ELSE sinceStop
  /\ UNCHANGED <<bat_conf, target_voltage_timer, reachedAge, ctrlAge, full, neg, error_flags,
                 sample>>
  /\ Sleep

Follower ==
  /\ pc = "FOLLOWER"
  /\ IF ctrlAge > 1
     THEN EnterState("BULK") /\ pos' = "charge" /\ UNCHANGED intercept
     ELSE pos' = "external" /\ intercept' = "absolute_max" /\ UNCHANGED <<state, stateAge, never>>
  /\ UNCHANGED <<bat_conf, target_voltage_timer, reachedAge, due, ctrlAge, full, neg,
                 error_flags, sample, sinceStop>>
  /\ Sleep

-------------------------------------------------------------------------------
\* daq_update() in the control thread.
Measure ==
  /\ sample' \in Samples
  /\ UNCHANGED <<bat_conf, state, ages, full, limits, error_flags, thread, history>>

\* The alerts of daq.cpp: "do not use enter_state function".
\* The high-side one sets ERR_DCDC_HS_OVERVOLTAGE, which the charger does not read.
LvOvervoltageAlert ==
  /\ state' = "IDLE"
  /\ error_flags' = error_flags \cup {BatOvervoltage}
  /\ UNCHANGED <<bat_conf, ages, full, limits, sample, thread, history>>

HvOvervoltageAlert ==
  /\ state' = "IDLE"
  /\ UNCHANGED <<bat_conf, ages, full, limits, error_flags, sample, thread, history>>

\* A control message; its target current is what pos = "external" stands for.
ControlMessage ==
  /\ pc = "sleep"
  /\ ctrlAge' = 0
  /\ UNCHANGED <<bat_conf, state, stateAge, never, target_voltage_timer, reachedAge, due, full,
                 limits, error_flags, sample, thread, history>>

\* A request of a client that passes the check, copied but for the equalization settings.
data_objects_update_conf ==
  /\ pc = "sleep"
  /\ bat_conf' \in {b \in BatConfs : b.equalization_enabled = bat_conf.equalization_enabled}
  /\ UNCHANGED <<state, ages, full, limits, error_flags, sample, thread, history>>

StateMachine ==
  Idle \/ StartCharging \/ EnterBulk \/ Bulk \/ Topping \/ Float \/ Equalization \/ Follower

Main ==
  \/ Wake \/ LimitDischarge \/ Store
  \/ StopOutsideTemperature \/ ClearOvervoltage \/ Follow \/ Switch \/ StateMachine

Interrupt == LvOvervoltageAlert \/ HvOvervoltageAlert

Next == Main \/ Measure \/ Interrupt \/ ControlMessage \/ data_objects_update_conf

Spec == Init /\ [][Next]_vars

\* The main loop is periodic; interrupts and the other threads leave it time to run.
FairSpec == Spec /\ WF_vars(Main)

-------------------------------------------------------------------------------
\* Type invariant of the charger.
TypeOK ==
  /\ bat_conf \in BatConfs
  /\ state \in ChargerState
  /\ stateAge \in 0 .. AgeCap
  /\ never \in BOOLEAN
  /\ target_voltage_timer \in Nat
  /\ reachedAge \in 0 .. FloatRechargeTime + 1
  /\ due \in BOOLEAN
  /\ ctrlAge \in 0 .. 2
  /\ full \in BOOLEAN
  /\ pos \in {"zero", "charge", "equalization", "external"}
  /\ neg \in BOOLEAN
  /\ intercept \in {"topping", "float", "equalization", "absolute_max"}
  /\ error_flags \subseteq Error
  /\ sample \in Samples
  /\ pc \in Step
  /\ reg \subseteq Error
  /\ ret \in Step
  /\ outside \in BOOLEAN
  /\ sinceStop \in 0 .. RechargeTime + 1

(***************************************************************************)
(* The charging states always have the current limit that goes with them,  *)
(* whatever alert or control message came in between: never a bulk phase   *)
(* that waits forever with a limit of 0, never a topping phase at the      *)
(* external limit, no equalization above its own limit.                    *)
(***************************************************************************)
LimitFitsState ==
  /\ state \in {"BULK", "TOPPING"} => pos = "charge"
  /\ state = "EQUALIZATION" => pos = "equalization"
  /\ state = "FLOAT" => pos \in {"charge", "equalization"}

(***************************************************************************)
(* A topping phase ends: after ToppingTimeout every further call that does *)
(* not leave it counts towards ToppingDuration, so measurements that       *)
(* alternate around the target cannot prolong it.  So does equalization.   *)
(***************************************************************************)
PhasesBounded ==
  /\ state = "TOPPING" => stateAge <= ToppingTimeout + ToppingDuration + 2
  /\ state = "EQUALIZATION" => stateAge <= EqualizationDuration + 1

(***************************************************************************)
(* A round that found the battery outside its charging temperature leaves  *)
(* it without charging current, unless an external controller leads, even  *)
(* if the temperature changes while the round goes on.                     *)
(***************************************************************************)
TemperatureStops == pc = "sleep" /\ outside /\ ctrlAge > 1 => pos = "zero"

(***************************************************************************)
(* Charging that was stopped because the battery is full or its            *)
(* temperature outside the limits starts again from IDLE only after the    *)
(* recharge delay.                                                         *)
(***************************************************************************)
RestHolds == pc = "enter_bulk" => sinceStop > RechargeTime

(***************************************************************************)
(* Discharging is blocked exactly while one of its error flags is set: no  *)
(* interleaving with the alerts leaves a flag without the block, or a      *)
(* block that no flag would ever release.                                  *)
(***************************************************************************)
DischargeBlocked ==
  pc # "store" => (neg <=> error_flags \cap DischargeErrors = {})

(***************************************************************************)
(* A battery that stays discharged and within its temperature limits is    *)
(* eventually charged for good, from any state the charger may have been   *)
(* left in, once alerts and control messages cease.                        *)
(***************************************************************************)
Discharged(s) == s.voltage = AbsoluteMin /\ s.filtered = AbsoluteMin /\ s.charge = "inside"
Recharges ==
  <>[]Discharged(sample) /\ <>[][~Interrupt /\ ~ControlMessage]_vars
    => <>[](state = "BULK" /\ pos = "charge")
===============================================================================
