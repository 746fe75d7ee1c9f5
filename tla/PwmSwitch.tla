------------------------------- MODULE PwmSwitch -------------------------------
(***************************************************************************)
(* The PWM switch between a solar panel and the battery bus                *)
(* (app/src/pwm_switch.cpp and its driver).                                *)
(*                                                                         *)
(* Actors:                                                                 *)
(*   - the control thread, cooperative, runs daq_update() and              *)
(*     PwmSwitch::control() about ten times a second, one step (pc) at a   *)
(*     time;                                                               *)
(*   - the ADC interrupt may call PwmSwitch::stop() between any two steps; *)
(*   - the main thread, of lower priority, sets and clears other errors in *)
(*     the word that holds ERR_PWM_SWITCH_OVERVOLTAGE: main_reg is what it *)
(*     has read and will write back;                                       *)
(*   - a communication thread writes `enable' while both sleep.            *)
(*                                                                         *)
(* Abstractions: the duty is the compare register, in steps of the timer;  *)
(* a timestamp is its age, saturated one past the delay it is compared     *)
(* with; voltages are intervals around the target sink_control_voltage().  *)
(***************************************************************************)
EXTENDS Integers

CONSTANTS
  Resolution,         \* _pwm_resolution, the register value of 100%
  DutyMin,            \* that of 5%
  DutyMax,            \* that of 95%
  Derating,           \* the 10 steps of a decrease
  Word,               \* number of values of uint32_t
  RestartInterval,    \* restart_interval
  LowPowerTime,       \* the 10 s of low power before the switch stops
  Measured(_)         \* samples with the signal off or on

(***************************************************************************)
(* `voltage': "low" is more than 0.5 V below the target, "over" more than  *)
(* 0.3 V above it; `current': "charging" is above 0.1 A, "excess" above    *)
(* the limit of port or board; `unfit': current out of the battery, too    *)
(* little voltage for the drivers or a port limit of 0; `allowed':         *)
(* sink_current_margin > 0; `sun': the panel is far enough above the bus.  *)
(***************************************************************************)
Sample == [voltage : {"low", "near", "target", "above", "over"},
           current : {"none", "charging", "excess"},
           unfit : BOOLEAN, allowed : BOOLEAN, sun : BOOLEAN]

ASSUME PwmAssumption ==
  /\ Resolution \in Nat
  /\ DutyMin \in Nat \ {0}
  /\ DutyMax \in Nat
  /\ DutyMin < DutyMax
  /\ DutyMax < Resolution
  /\ Derating \in Nat \ {0}
  /\ Derating <= DutyMin        \* on all boards, by their period of 20 ms
  /\ Word \in Nat
  /\ Resolution + Derating < Word
  /\ RestartInterval \in Nat
  /\ LowPowerTime \in Nat
  /\ \A on \in BOOLEAN : Measured(on) \subseteq Sample

VARIABLES
  channel,            \* the timer drives the output
  active,             \* _pwm_active
  ccr,                \* the compare register
  enable,
  offAge,             \* uptime() - off_timestamp, saturated
  powerAge,           \* uptime() - power_good_timestamp, saturated
  overvoltage,        \* ERR_PWM_SWITCH_OVERVOLTAGE
  main_reg,           \* {}, or what the main thread will make of it
  sample,
  pc,
  called              \* the control thread has run this second

(***************************************************************************)
(* History, read by the properties only.                                   *)
(***************************************************************************)
VARIABLES
  sinceOn,            \* time since the signal was last on
  sinceCharge,        \* time without a charging current while active
  raced               \* an alert has hit the call that is running or that started the switch

signal == <<channel, active, ccr>>
ages == <<offAge, powerAge>>
error_flags == <<overvoltage, main_reg>>
thread == <<sample, pc, called>>
history == <<sinceOn, sinceCharge, raced>>
vars == <<signal, enable, ages, error_flags, thread, history>>

Older(age, delay) == IF age > delay THEN age ELSE age + 1

Init ==
  /\ channel = FALSE
  /\ active = FALSE
  /\ ccr = 0
  /\ enable = TRUE
  /\ offAge = RestartInterval + 1
  /\ powerAge \in 0 .. LowPowerTime + 1
  /\ overvoltage = FALSE
  /\ main_reg = {}
  /\ sample \in Measured(FALSE)
  /\ pc = "sleep"
  /\ called = FALSE
  /\ sinceOn = RestartInterval + 1
  /\ sinceCharge = 0
  /\ raced = FALSE

-------------------------------------------------------------------------------
\* (Only the software is told.)
pwm_signal_forget ==
  /\ active' = FALSE
  /\ UNCHANGED channel

pwm_signal_stop ==
  /\ channel' = FALSE
  /\ active' = FALSE

stop ==
  /\ pwm_signal_stop
  /\ offAge' = 0

\* The register stays as it is when the step would leave 0 .. Resolution.
uint32(n) == n % Word
pwm_signal_duty_cycle_step(delta) ==
  ccr' = IF uint32(ccr + delta) <= Resolution THEN uint32(ccr + delta) ELSE ccr

\* daq_update(), then the first look at the switch.
BeginControl ==
  /\ pc = "sleep"
  /\ sample' \in Measured(channel)
  /\ pc' = IF active THEN "on" ELSE "off"
  /\ called' = TRUE
  /\ raced' = (active /\ raced)
  /\ sinceCharge' = IF active /\ sample'.current = "none" THEN sinceCharge ELSE 0
  /\ UNCHANGED <<signal, enable, ages, error_flags, sinceOn>>

\* (Enough sun counts as power.)
PowerAgeSun == IF sample.current = "none" /\ ~sample.sun THEN powerAge ELSE 0

PowerAge == IF sample.current = "none" THEN powerAge ELSE 0

LowPower == PowerAge > LowPowerTime

Unfit == LowPower \/ sample.unfit \/ ~enable

LimitReached == sample.voltage = "above" \/ sample.current = "excess"

Adjust ==
  /\ pc = "on"
  /\ powerAge' = PowerAge
  /\ pc' = "clear"
  /\ UNCHANGED <<enable, main_reg, sample, called, history>>

Halt ==
  /\ Adjust
  /\ Unfit
  /\ stop
  /\ UNCHANGED <<ccr, overvoltage>>

HaltOver ==
  /\ Adjust
  /\ ~Unfit
  /\ sample.voltage = "over"
  /\ stop
  /\ overvoltage' = TRUE
  /\ UNCHANGED ccr

Within == ~Unfit /\ sample.voltage # "over"

LeaveFull ==
  /\ Adjust
  /\ Within /\ LimitReached
  /\ ccr > DutyMax
  /\ ccr' = DutyMax
  /\ UNCHANGED <<channel, active, offAge, overvoltage>>

\* (A register below DutyMin is stepped like any other.)
HaltDeratedNever ==
  /\ Adjust
  /\ Within /\ LimitReached
  /\ ccr < DutyMin
  /\ pwm_signal_duty_cycle_step(-Derating)
  /\ UNCHANGED <<channel, active, offAge, overvoltage>>

HaltDerated ==
  /\ Adjust
  /\ Within /\ LimitReached
  /\ ccr < DutyMin
  /\ stop
  /\ overvoltage' = TRUE
  /\ UNCHANGED ccr

Derate ==
  /\ Adjust
  /\ Within /\ LimitReached
  /\ ccr \in DutyMin .. DutyMax
  /\ pwm_signal_duty_cycle_step(-Derating)
  /\ UNCHANGED <<channel, active, offAge, overvoltage>>

Raise ==
  /\ Adjust
  /\ Within /\ ~LimitReached
  /\ IF ccr > DutyMax THEN ccr' = Resolution ELSE pwm_signal_duty_cycle_step(1)
  /\ UNCHANGED <<channel, active, offAge, overvoltage>>

Clear ==
  /\ pc = "clear"
  /\ overvoltage' = (overvoltage /\ sample.voltage # "low")
  /\ pc' = "sleep"
  /\ UNCHANGED <<signal, enable, ages, main_reg, sample, called, history>>

-------------------------------------------------------------------------------
\* (As for the DC/DC converter: not with the error.)
StartConditionsNoError ==
  /\ sample.allowed
  /\ sample.voltage \in {"low", "near"}
  /\ sample.sun
  /\ offAge > RestartInterval
  /\ enable
  /\ ~overvoltage

\* (The restart interval is not looked at.)
StartConditionsHasty ==
  /\ sample.allowed
  /\ sample.voltage \in {"low", "near"}
  /\ sample.sun
  /\ enable

StartConditions ==
  /\ sample.allowed
  /\ sample.voltage \in {"low", "near"}
  /\ sample.sun
  /\ offAge > RestartInterval
  /\ enable

Check ==
  /\ pc = "off"
  /\ pc' = IF StartConditions THEN "start" ELSE "sleep"
  /\ UNCHANGED <<signal, enable, ages, error_flags, sample, called, history>>

\* pwm_signal_start(), which an alert may divide.
Drive ==
  /\ pc = "start"
  /\ ccr' = IF overvoltage THEN DutyMin ELSE Resolution
  /\ channel' = TRUE
  /\ sinceOn' = 0
  /\ pc' = "activate"
  /\ UNCHANGED <<active, enable, ages, error_flags, sample, called, sinceCharge, raced>>

Activate ==
  /\ pc = "activate"
  /\ active' = TRUE
  /\ powerAge' = 0
  /\ pc' = "sleep"
  /\ UNCHANGED <<channel, ccr, enable, offAge, error_flags, sample, called, history>>

-------------------------------------------------------------------------------
\* lv_overvoltage_alert()
OvervoltageAlert ==
  /\ stop
  /\ raced' = (pc # "sleep")
  /\ UNCHANGED <<ccr, enable, powerAge, error_flags, thread, sinceOn, sinceCharge>>

SetEnable ==
  /\ pc = "sleep"
  /\ enable' = ~enable
  /\ UNCHANGED <<signal, ages, error_flags, thread, history>>

\* The two halves of set_error() and clear_error() in the main thread.
MainLoad ==
  /\ pc = "sleep"
  /\ main_reg = {}
  /\ main_reg' = {overvoltage}
  /\ UNCHANGED <<signal, enable, ages, overvoltage, thread, history>>

MainStore ==
  /\ pc = "sleep"
  /\ overvoltage' \in main_reg
  /\ main_reg' = {}
  /\ UNCHANGED <<signal, enable, ages, thread, history>>

\* One second later.
Tick ==
  /\ pc = "sleep"
  /\ called
  /\ called' = FALSE
  /\ offAge' = Older(offAge, RestartInterval)
  /\ powerAge' = Older(powerAge, LowPowerTime)
  /\ sinceOn' = IF channel THEN 0 ELSE Older(sinceOn, RestartInterval)
  /\ sinceCharge' = IF active THEN Older(sinceCharge, LowPowerTime + 1) ELSE 0
  /\ UNCHANGED <<signal, enable, error_flags, sample, pc, raced>>

Control ==
  \/ BeginControl
  \/ Halt \/ HaltOver \/ LeaveFull \/ HaltDerated \/ Derate \/ Raise \/ Clear
  \/ Check \/ Drive \/ Activate

Next == Control \/ OvervoltageAlert \/ SetEnable \/ MainLoad \/ MainStore \/ Tick

Spec == Init /\ [][Next]_vars

\* The control thread is periodic; between its calls time passes.
FairSpec == Spec /\ WF_vars(Control) /\ SF_vars(Tick)

-------------------------------------------------------------------------------
\* Type invariant; that of the register: steps neither wrap nor leave its range.
TypeOK ==
  /\ channel \in BOOLEAN
  /\ active \in BOOLEAN
  /\ ccr \in 0 .. Resolution
  /\ enable \in BOOLEAN
  /\ offAge \in 0 .. RestartInterval + 1
  /\ powerAge \in 0 .. LowPowerTime + 1
  /\ overvoltage \in BOOLEAN
  /\ main_reg \in {{}, {TRUE}, {FALSE}}
  /\ sample \in Sample
  /\ pc \in {"sleep", "on", "clear", "off", "start", "activate"}
  /\ called \in BOOLEAN
  /\ sinceOn \in 0 .. RestartInterval + 1
  /\ sinceCharge \in 0 .. LowPowerTime + 2
  /\ raced \in BOOLEAN

(***************************************************************************)
(* Between two calls the signal is never on without control() knowing of   *)
(* it, although an alert may divide a start; and never after a call that   *)
(* has measured an overvoltage.                                            *)
(***************************************************************************)
SignalIsKnown ==
  pc = "sleep" /\ channel => active /\ sample.voltage # "over"

(***************************************************************************)
(* The switch is not active without a charging current for longer than     *)
(* LowPowerTime, also when an alert has divided the start and it is active *)
(* without a signal.                                                       *)
(***************************************************************************)
LowPowerStops == active => sinceCharge <= LowPowerTime + 1

(***************************************************************************)
(* The signal rests for the restart interval, alerts and short starts      *)
(* included, unless an alert hits the very call that starts it.            *)
(***************************************************************************)
RestsBeforeRestart ==
  [][~channel /\ channel' => raced \/ sinceOn >= RestartInterval]_vars

(***************************************************************************)
(* A limit that stays exceeded switches off: no duty is too small to be    *)
(* decreased and none is kept.                                             *)
(***************************************************************************)
Derates == <>[]LimitReached => []<>~active

(***************************************************************************)
(* When charging stays possible and alerts cease, the switch is on again   *)
(* and again, whatever errors and times it was stopped with.               *)
(***************************************************************************)
Sunny == enable /\ sample.allowed /\ sample.sun /\ sample.voltage \in {"low", "near"}
Restarts == <>[]Sunny /\ <>[][~OvervoltageAlert]_vars => []<>(active /\ channel)
===============================================================================
