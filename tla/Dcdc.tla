--------------------------------- MODULE Dcdc ---------------------------------
(***************************************************************************)
(* The DC/DC converter (app/src/dcdc.cpp): start conditions, MPPT by       *)
(* perturb and observe, stop, detection of a shorted high-side MOSFET and  *)
(* the destruction of the battery fuse that answers it.                    *)
(*                                                                         *)
(* Actors:                                                                 *)
(*   - the control thread, cooperative, runs daq_update() and              *)
(*     Dcdc::control() about ten times a second, one step (pc) at a time;  *)
(*   - the ADC interrupt may call Dcdc::stop() between any two steps;      *)
(*   - the main thread, of lower priority and so running only while the    *)
(*     control thread sleeps, once a second lets the charger change the    *)
(*     battery errors and calls fuse_destruction() (main_pc);              *)
(*   - a communication thread writes `enable' while both threads sleep.    *)
(*                                                                         *)
(* Measurements depend on the plant connected: Measured(p, on, c) are the  *)
(* samples that plant p may deliver at register value c.                   *)
(*                                                                         *)
(* Abstractions: the five limits that perturb and observe respects are one *)
(* Boolean (and one control state, "LIMIT"); power is a level, 0 being     *)
(* below output_power_min and 2 or more above 10 W; a timestamp is its     *)
(* age, saturated one past the delay it is compared with; the errors that  *)
(* forbid a start are one flag, BatFault.                                  *)
(***************************************************************************)
EXTENDS HalfBridge

CONSTANTS
  RestartInterval,    \* restart_interval
  InhibitTime,        \* DCDC_STARTUP_INHIBIT_TIME
  LowPowerTime,       \* the 10 s of low power before the converter stops
  ShortDelay,         \* the 10 s of current before a MOSFET is taken for shorted
  FuseDelay,          \* the 20 calls that fuse_destruction() waits
  StepSize,           \* DUTY_STEP_SIZE
  MaxPower,           \* largest power level measured
  Confs,              \* the boards, modes and plants considered
  Measured(_, _, _)

Power == -MaxPower .. MaxPower

(***************************************************************************)
(* `exceeded': one of the maximum voltages is; `start': the mode voltages  *)
(* and current margins allow (minimum voltage included); `duty': the duty  *)
(* a start would set, Arr + 1 standing for a ratio above 1; `forward':     *)
(* inductor current above 0.1 A; `leak': current and filtered voltage of a *)
(* shorted high-side MOSFET; `limit': one of the limits of perturb and     *)
(* observe reached; `low': output below its source control voltage.        *)
(***************************************************************************)
Sample == [exceeded : BOOLEAN, start : {"OFF", "BUCK", "BOOST"}, duty : 0 .. Arr + 1,
           forward : BOOLEAN, leak : BOOLEAN, limit : BOOLEAN, low : BOOLEAN, power : Power]

Conf == [mode : {"BUCK", "BOOST", "AUTO"}, timer : {"TIM1", "TIM3", "HRTIM1"},
         fail_safe : BOOLEAN, plant : STRING]

ASSUME DcdcAssumption ==
  /\ RestartInterval \in Nat
  /\ InhibitTime \in Nat
  /\ LowPowerTime \in Nat
  /\ ShortDelay \in Nat
  /\ FuseDelay \in Nat
  /\ StepSize \in Nat
  /\ StepSize <= CcrMin
  /\ MaxPower \in Nat
  /\ Confs \subseteq Conf

ASSUME PlantAssumption ==
  \A b \in Confs, on \in BOOLEAN, c \in 0 .. Arr : Measured(b.plant, on, c) \subseteq Sample

BatFault == "BAT_FAULT"
HsShort == "DCDC_HS_MOSFET_SHORT"
Error == {BatFault, HsShort}

VARIABLES
  conf,
  enable,
  state,
  hvs,              \* the output MOSFET of output_hvs_enable() is on
  offAge,           \* uptime() - off_timestamp, saturated
  powerAge,         \* uptime() - power_good_timestamp, saturated
  pwm_direction,
  power_prev,
  suspected,        \* first_time_detected # 0
  suspectedAge,     \* uptime() - first_time_detected, saturated
  inhibitAge,       \* uptime() - inhibit_start, saturated
  error_flags,
  sample,
  pc, reg,          \* control thread; its register in a read-modify-write
  main_pc, main_reg,
  counter,          \* calls of fuse_destruction(), saturated
  called            \* the control thread has run this second

(***************************************************************************)
(* History, read by the properties only.                                   *)
(***************************************************************************)
VARIABLES
  sinceStop,        \* time since stop() switched the bridge off
  sinceUnfit,       \* age of the last call that found no reason to start
  sinceGood,        \* time the bridge has been on without good power being measured
  raced             \* an alert has hit the call that is running or that started the bridge

control_state == <<enable, state, hvs, pwm_direction, power_prev>>
ages == <<offAge, powerAge, suspected, suspectedAge, inhibitAge>>
thread == <<pc, reg>>
main == <<main_pc, main_reg, counter>>
history == <<sinceStop, sinceUnfit, sinceGood, raced>>
vars == <<bridge, conf, control_state, ages, error_flags, sample, thread, main, called, history>>

Older(age, delay) == IF age > delay THEN age ELSE age + 1

Init ==
  /\ HalfBridgeInit
  /\ conf \in Confs
  /\ enable = TRUE
  /\ state = "OFF"
  /\ hvs = FALSE
  /\ offAge = RestartInterval + 1
  /\ powerAge = LowPowerTime + 2
  /\ pwm_direction = 0
  /\ power_prev = 0
  /\ suspected = FALSE
  /\ suspectedAge = 0
  \* The control thread starts when uptime() is 2.
  /\ inhibitAge \in {2, InhibitTime + 1} \cap 0 .. InhibitTime + 1
  /\ error_flags = {}
  /\ sample \in Measured(conf.plant, enabled, ccr)
  /\ pc = "sleep"
  /\ reg = {}
  /\ main_pc = "wait"
  /\ main_reg = {}
  /\ counter = 0
  /\ called = FALSE
  /\ sinceStop = RestartInterval + 1
  /\ sinceUnfit = InhibitTime + 1
  /\ sinceGood = 0
  /\ raced = FALSE

-------------------------------------------------------------------------------
\* daq_update(), then the first look at the bridge.
BeginControl ==
  /\ pc = "sleep"
  /\ sample' \in Measured(conf.plant, enabled, ccr)
  /\ pc' = IF enabled THEN "on" ELSE "off"
  /\ called' = TRUE
  /\ raced' = (enabled /\ raced)
  /\ UNCHANGED <<bridge, conf, control_state, ages, error_flags, reg, main, sinceStop,
                 sinceUnfit, sinceGood>>

\* (The time of the first detection is written at every one.)
CheckShortAnew ==
  /\ pc = "off"
  /\ suspected' = sample.leak
  /\ suspectedAge' = 0
  /\ pc' = (IF HsShort \in error_flags THEN "sleep" ELSE "check")
  /\ UNCHANGED <<bridge, conf, control_state, offAge, powerAge, inhibitAge, error_flags, sample,
                 reg, main, called, history>>

\* check_hs_mosfet_short()
CheckShort ==
  /\ pc = "off"
  /\ suspected' = sample.leak
  /\ suspectedAge' = IF sample.leak /\ suspected THEN suspectedAge ELSE 0
  /\ IF sample.leak /\ suspected /\ suspectedAge > ShortDelay
     THEN pc' = "store" /\ reg' = error_flags \cup {HsShort}
     ELSE pc' = (IF HsShort \in error_flags THEN "sleep" ELSE "check") /\ UNCHANGED reg
  /\ UNCHANGED <<bridge, conf, control_state, offAge, powerAge, inhibitAge, error_flags, sample,
                 main, called, history>>

Store ==
  /\ pc = "store"
  /\ error_flags' = reg
  /\ reg' = {}
  /\ pc' = "sleep"
  /\ UNCHANGED <<bridge, conf, control_state, ages, sample, main, called, history>>

\* check_start_conditions() and the mode that control() wants.
StartConditions ==
  /\ enable
  /\ ~sample.exceeded
  /\ BatFault \notin error_flags
  /\ offAge >= RestartInterval
  /\ sample.start # "OFF"
  /\ conf.mode \in {sample.start, "AUTO"}

\* (startup_inhibit(true) is left out.)
RefuseWithoutReset ==
  /\ pc = "check"
  /\ ~StartConditions
  /\ sinceUnfit' = 0
  /\ pc' = "sleep"
  /\ UNCHANGED <<bridge, conf, control_state, ages, error_flags, sample, reg, main, called,
                 sinceStop, sinceGood, raced>>

Refuse ==
  /\ pc = "check"
  /\ ~StartConditions
  /\ inhibitAge' = 0
  /\ sinceUnfit' = 0
  /\ pc' = "sleep"
  /\ UNCHANGED <<bridge, conf, control_state, offAge, powerAge, suspected, suspectedAge,
                 error_flags, sample, reg, main, called, sinceStop, sinceGood, raced>>

Inhibit ==
  /\ pc = "check"
  /\ StartConditions
  /\ inhibitAge < InhibitTime
  /\ hvs' = TRUE
  /\ pc' = "sleep"
  /\ UNCHANGED <<bridge, conf, enable, state, pwm_direction, power_prev, ages, error_flags,
                 sample, reg, main, called, history>>

Prepare ==
  /\ pc = "check"
  /\ StartConditions
  /\ inhibitAge >= InhibitTime
  /\ hvs' = TRUE
  /\ pwm_direction' = IF sample.start = "BUCK" THEN 1 ELSE -1
  /\ half_bridge_set_duty_cycle(sample.duty)
  /\ pc' = "start"
  /\ UNCHANGED <<enabled, conf, enable, state, power_prev, ages, error_flags, sample, reg, main,
                 called, history>>

Start ==
  /\ pc = "start"
  /\ half_bridge_start(conf.timer)
  /\ powerAge' = 0
  /\ sinceGood' = 0
  /\ pc' = "sleep"
  /\ UNCHANGED <<ccr, tim_ccr_min, tim_ccr_max, conf, control_state, offAge, suspected,
                 suspectedAge, inhibitAge, error_flags, sample, reg, main, called, sinceStop,
                 sinceUnfit, raced>>

-------------------------------------------------------------------------------
\* (The time is not stamped.)
stopUnstamped ==
  /\ half_bridge_stop
  /\ state' = "OFF"
  /\ hvs' = FALSE
  /\ sinceStop' = IF enabled THEN 0 ELSE sinceStop
  /\ UNCHANGED <<ccr, tim_ccr_min, tim_ccr_max, offAge>>

stop ==
  /\ half_bridge_stop
  /\ state' = "OFF"
  /\ offAge' = 0
  /\ hvs' = FALSE
  /\ sinceStop' = IF enabled THEN 0 ELSE sinceStop
  /\ UNCHANGED <<ccr, tim_ccr_min, tim_ccr_max>>

\* (The high-side voltage is not looked at.)
StopReasonDisabled == ~enable

StopReason == sample.exceeded \/ ~enable

Emergency ==
  /\ pc = "on"
  /\ StopReason
  /\ stop
  /\ pc' = "sleep"
  /\ UNCHANGED <<conf, enable, pwm_direction, power_prev, powerAge, suspected, suspectedAge,
                 inhibitAge, error_flags, sample, reg, main, called, sinceUnfit, sinceGood,
                 raced>>

(***************************************************************************)
(* perturb_observe_buck() and perturb_observe_boost(): the same function   *)
(* of the power in the direction of conversion, the boost converter raises *)
(* its output by lowering the duty.                                        *)
(***************************************************************************)
Buck == conf.mode = "BUCK" \/ (conf.mode = "AUTO" /\ sample.forward)
Output(power) == IF Buck THEN power ELSE -power
Increase == IF Buck THEN 1 ELSE -1

GoodPower == Output(sample.power) >= 1

\* (Every call is stamped that does not measure negative power.)
PowerAgeHopeful == IF Output(sample.power) >= 0 THEN 0 ELSE powerAge

PowerAge == IF GoodPower THEN 0 ELSE powerAge

LowPower ==
  /\ conf.mode # "AUTO"
  /\ PowerAge > LowPowerTime \/ Output(sample.power) <= -2

Region ==
  IF LowPower THEN "OFF"
  ELSE IF sample.limit THEN "LIMIT"
  ELSE IF ~GoodPower /\ sample.low THEN "RAISE"
  ELSE "MPPT"

\* (The direction is turned when power has risen.)
TrackedBackwards ==
  IF Output(power_prev) < Output(sample.power) THEN -pwm_direction ELSE pwm_direction

Tracked == IF Output(power_prev) > Output(sample.power) THEN -pwm_direction ELSE pwm_direction

Direction == [OFF |-> 0, LIMIT |-> -Increase, RAISE |-> Increase, MPPT |-> Tracked][Region]

NextCcr == ccr + pwm_direction' * StepSize

PerturbObserve ==
  /\ pc = "on"
  /\ ~StopReason
  /\ powerAge' = PowerAge
  /\ sinceGood' = IF GoodPower THEN 0 ELSE sinceGood
  /\ power_prev' = sample.power
  /\ pwm_direction' = Direction
  /\ \/ pwm_direction' = 0 /\ stop
     \/ /\ pwm_direction' # 0
        /\ state' = IF Region = "RAISE" THEN state ELSE Region
        /\ half_bridge_set_ccr(NextCcr)
        /\ UNCHANGED <<enabled, offAge, hvs, sinceStop>>
  /\ pc' = "sleep"
  /\ UNCHANGED <<conf, enable, suspected, suspectedAge, inhibitAge, error_flags, sample, reg,
                 main, called, sinceUnfit, raced>>

-------------------------------------------------------------------------------
\* The ADC alerts of daq.cpp; the high-side one raises an error that forbids nothing.
OvervoltageAlert ==
  /\ stop
  /\ error_flags' \in {error_flags, error_flags \cup {BatFault}}
  /\ raced' = (pc # "sleep")
  /\ UNCHANGED <<conf, enable, pwm_direction, power_prev, powerAge, suspected, suspectedAge,
                 inhibitAge, sample, thread, main, called, sinceUnfit, sinceGood>>

SetEnable ==
  /\ pc = "sleep"
  /\ enable' = ~enable
  /\ UNCHANGED <<bridge, conf, state, hvs, pwm_direction, power_prev, ages, error_flags, sample,
                 thread, main, called, history>>

\* One second later.
Tick ==
  /\ pc = "sleep"
  /\ main_pc = "wait"
  /\ called
  /\ called' = FALSE
  /\ main_pc' = "charge"
  /\ offAge' = Older(offAge, RestartInterval)
  /\ powerAge' = Older(powerAge, LowPowerTime + 1)
  /\ suspectedAge' = IF suspected THEN Older(suspectedAge, ShortDelay) ELSE 0
  /\ inhibitAge' = Older(inhibitAge, InhibitTime)
  /\ sinceStop' = Older(sinceStop, RestartInterval)
  /\ sinceUnfit' = Older(sinceUnfit, InhibitTime)
  /\ sinceGood' = IF enabled THEN Older(sinceGood, LowPowerTime + 1) ELSE 0
  /\ UNCHANGED <<bridge, conf, control_state, suspected, error_flags, sample, thread, main_reg,
                 counter, raced>>

-------------------------------------------------------------------------------
\* The main thread: the charger sets or clears a battery error, or leaves the errors alone.
\* (One store a second stands for the several that discharge_control() and charge_control()
\* may make.)
ChargeControl ==
  /\ pc = "sleep"
  /\ main_pc = "charge"
  /\ \/ main_pc' = "fuse" /\ UNCHANGED main_reg
     \/ /\ main_reg' \in {error_flags \cup {BatFault}, error_flags \ {BatFault}}
        /\ main_pc' = "store"
  /\ UNCHANGED <<bridge, conf, control_state, ages, error_flags, sample, thread, counter, called,
                 history>>

MainStore ==
  /\ pc = "sleep"
  /\ main_pc = "store"
  /\ error_flags' = main_reg
  /\ main_reg' = {}
  /\ main_pc' = "fuse"
  /\ UNCHANGED <<bridge, conf, control_state, ages, sample, thread, counter, called, history>>

\* fuse_destruction(), if the board wants it and the error is there.
FuseWait ==
  /\ pc = "sleep"
  /\ main_pc = "fuse"
  /\ \/ /\ ~conf.fail_safe \/ HsShort \notin error_flags
        /\ UNCHANGED counter
     \/ /\ conf.fail_safe /\ HsShort \in error_flags
        /\ counter <= FuseDelay
        /\ counter' = counter + 1
  /\ main_pc' = "wait"
  /\ UNCHANGED <<bridge, conf, control_state, ages, error_flags, sample, thread, main_reg, called,
                 history>>

FuseStep(from, to) ==
  /\ pc = "sleep"
  /\ main_pc = from
  /\ main_pc' = to
  /\ UNCHANGED <<conf, control_state, ages, error_flags, sample, thread, main_reg, counter,
                 called, history>>

\* (data_storage_write() comes first, which nothing here depends on.)
FuseStop ==
  /\ conf.fail_safe /\ HsShort \in error_flags
  /\ counter > FuseDelay
  /\ FuseStep("fuse", "init")
  /\ half_bridge_stop
  /\ UNCHANGED <<ccr, tim_ccr_min, tim_ccr_max>>

FuseInit ==
  /\ FuseStep("init", "duty")
  /\ half_bridge_init(0, CcrFuse)
  /\ UNCHANGED enabled

FuseDuty ==
  /\ FuseStep("duty", "start")
  /\ half_bridge_set_duty_cycle(0)
  /\ UNCHANGED enabled

FuseStart ==
  /\ FuseStep("start", "wait")
  /\ half_bridge_start(conf.timer)
  /\ UNCHANGED <<ccr, tim_ccr_min, tim_ccr_max>>

Control ==
  \/ BeginControl \/ CheckShort \/ Store
  \/ Refuse \/ Inhibit \/ Prepare \/ Start
  \/ Emergency \/ PerturbObserve

Main ==
  \/ ChargeControl \/ MainStore
  \/ FuseWait \/ FuseStop \/ FuseInit \/ FuseDuty \/ FuseStart

Next == Control \/ OvervoltageAlert \/ SetEnable \/ Tick \/ Main

Spec == Init /\ [][Next]_vars

\* The control thread is periodic; it sleeps between two calls, again and again long enough
\* for the main thread to run and for time to pass.
FairSpec == Spec /\ WF_vars(Control) /\ SF_vars(Main) /\ SF_vars(Tick)
-------------------------------------------------------------------------------
\* Type invariant of the converter.
TypeOK ==
  /\ enabled \in BOOLEAN
  /\ ccr \in 0 .. Arr
  /\ \/ tim_ccr_min = CcrMin /\ tim_ccr_max = CcrMax
     \/ tim_ccr_min = 0 /\ tim_ccr_max = CcrFuse
  /\ conf \in Confs
  /\ enable \in BOOLEAN
  /\ state \in {"OFF", "LIMIT", "MPPT"}
  /\ hvs \in BOOLEAN
  /\ offAge \in 0 .. RestartInterval + 1
  /\ powerAge \in 0 .. LowPowerTime + 2
  /\ pwm_direction \in {-1, 0, 1}
  /\ power_prev \in Power
  /\ suspected \in BOOLEAN
  /\ suspectedAge \in 0 .. ShortDelay + 1
  /\ inhibitAge \in 0 .. InhibitTime + 1
  /\ error_flags \subseteq Error
  /\ sample \in Sample
  /\ pc \in {"sleep", "off", "store", "check", "start", "on"}
  /\ reg \subseteq Error
  /\ main_pc \in {"wait", "charge", "store", "fuse", "init", "duty", "start"}
  /\ main_reg \subseteq Error
  /\ counter \in 0 .. FuseDelay + 1
  /\ called \in BOOLEAN
  /\ sinceStop \in 0 .. RestartInterval + 1
  /\ sinceUnfit \in 0 .. InhibitTime + 1
  /\ sinceGood \in 0 .. LowPowerTime + 2
  /\ raced \in BOOLEAN

\* Before fuse_destruction() gives up the limits of the duty cycle.
Intact == tim_ccr_min = CcrMin

Starts == ~enabled /\ enabled'

(***************************************************************************)
(* No call of control() that has measured an excessive voltage leaves the  *)
(* converter running, whichever steps an alert has come between.           *)
(***************************************************************************)
EmergencyStops == Intact /\ pc = "sleep" /\ sample.exceeded => ~enabled

(***************************************************************************)
(* An alert can hurry a restart only by hitting the call that starts: in   *)
(* every other case the converter rests for the restart interval and has   *)
(* its output MOSFET switched on before the bridge.                        *)
(***************************************************************************)
RestsBeforeRestart ==
  [][(Starts /\ Intact) => raced \/ (sinceStop >= RestartInterval /\ hvs)]_vars

(***************************************************************************)
(* The voltages have had time to settle: all calls during the inhibit time *)
(* before a start have found its conditions met, alert or not.             *)
(***************************************************************************)
SettledStart == [][(Starts /\ Intact) => sinceUnfit >= InhibitTime]_vars

(***************************************************************************)
(* Outside nanogrid mode the converter never runs for more than            *)
(* LowPowerTime and the rest of a second without good power having been    *)
(* measured since, also when alerts stop and calls restart it.             *)
(***************************************************************************)
LowPowerStops ==
  Intact /\ enabled /\ conf.mode # "AUTO" => sinceGood <= LowPowerTime + 1

(***************************************************************************)
(* A running converter changes its duty by one step at a time: neither the *)
(* unsigned arithmetic nor the limits ever make it jump.                   *)
(***************************************************************************)
DutyStepwise ==
  [][(enabled /\ enabled' /\ Intact) => ccr' - ccr \in -StepSize .. StepSize]_vars

(***************************************************************************)
(* A shorted high-side MOSFET is answered: on a board that wants the fuse  *)
(* destroyed, a current through the bridge that is off leads to it once    *)
(* the charger leaves the errors alone, however often its stores have      *)
(* dropped the error before.                                               *)
(***************************************************************************)
ShortAnswered ==
  conf.fail_safe /\ <>[]sample.leak /\ <>[][~MainStore]_vars => <>~Intact

(***************************************************************************)
(* dcdc.h, stop(): "DC/DC will be restarted automatically from control     *)
(* function if condtions are valid."  Fails: an alert between the check    *)
(* and half_bridge_start() stops a bridge that is then started despite the *)
(* error and the restart interval.                                         *)
(***************************************************************************)
StartsWhenValid ==
  [][(Starts /\ Intact) => offAge >= RestartInterval /\ BatFault \notin error_flags]_vars
===============================================================================
