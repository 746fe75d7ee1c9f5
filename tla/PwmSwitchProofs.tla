---------------------------- MODULE PwmSwitchProofs ----------------------------
(***************************************************************************)
(* Theorems about PwmSwitch for all resolutions, duties and delays.        *)
(*                                                                         *)
(* An alert only switches off, so the call that found the switch inactive  *)
(* keeps it so up to Activate, and only from Drive on is there a signal    *)
(* (Divided).  The age of the last stop is not above that of the last      *)
(* signal (Aged); that of good power bounds the time without a charging    *)
(* current, and the call that finds it too high stops (Powered).           *)
(***************************************************************************)
EXTENDS PwmSwitch, TLAPS

Divided ==
  /\ pc \in {"off", "start", "activate"} => ~active
  /\ channel => active \/ pc = "activate"
  /\ pc \in {"start", "activate"} => sample.voltage # "over"
  /\ pc \in {"clear", "sleep"} /\ active => sample.voltage # "over"

Aged ==
  /\ ~channel => offAge <= sinceOn
  /\ pc = "start" => raced \/ sinceOn >= RestartInterval

Powered ==
  /\ active => sinceCharge <= powerAge
  /\ active => powerAge <= LowPowerTime \/ pc = "on" \/ (pc = "sleep" /\ ~called)
  /\ pc = "on" /\ active /\ sample.current # "none" => sinceCharge = 0
  /\ pc \in {"off", "start", "activate"} => sinceCharge = 0

IInv == Divided /\ Aged /\ Powered

Adjustment == Halt \/ HaltOver \/ LeaveFull \/ HaltDerated \/ Derate \/ Raise
-------------------------------------------------------------------------------
(***************************************************************************)
(* Whatever the step, the register stays in its range: the unsigned sum    *)
(* wraps to a value that is refused.                                       *)
(***************************************************************************)
LEMMA StepInRange ==
  ASSUME TypeOK, NEW d \in Int, pwm_signal_duty_cycle_step(d)
  PROVE  ccr' \in 0 .. Resolution
<1>1. ccr + d \in Int /\ Word \in Nat \ {0} /\ Resolution \in Nat
  BY PwmAssumption, SMT DEF PwmAssumption, TypeOK
<1>2. uint32(ccr + d) \in 0 .. Word - 1
  BY <1>1, SMT DEF uint32
<1> QED BY <1>1, <1>2, SMT DEF pwm_signal_duty_cycle_step, TypeOK

(***************************************************************************)
(* An adjustment keeps the switch or stops it, and always on low power.    *)
(***************************************************************************)
LEMMA AdjustmentEffect ==
  ASSUME TypeOK, Adjustment
  PROVE  /\ ccr' \in 0 .. Resolution
         /\ overvoltage' \in BOOLEAN
         /\ \/ channel' = FALSE /\ active' = FALSE /\ offAge' = 0
            \/ /\ UNCHANGED <<channel, active, offAge>>
               /\ ~LowPower
               /\ sample.voltage # "over"
<1> USE PwmAssumption DEF PwmAssumption
<1>1. CASE Halt \/ HaltOver \/ HaltDerated
  BY <1>1 DEF Halt, HaltOver, HaltDerated, stop, pwm_signal_stop, TypeOK
<1>2. CASE LeaveFull
  <2>1. DutyMax \in 0 .. Resolution
    BY SMT
  <2> QED BY <1>2, <2>1 DEF LeaveFull, Within, Unfit, TypeOK
<1>3. CASE Derate
  <2>1. -Derating \in Int
    BY SMT
  <2>2. ccr' \in 0 .. Resolution
    BY <1>3, <2>1, StepInRange DEF Derate
  <2> QED BY <1>3, <2>2 DEF Derate, Within, Unfit, TypeOK
<1>4. CASE Raise
  <2>1. ccr' \in 0 .. Resolution
    <3>1. CASE ccr > DutyMax
      BY <1>4, <3>1, SMT DEF Raise
    <3>2. CASE ~(ccr > DutyMax)
      BY <1>4, <3>2, StepInRange DEF Raise
    <3> QED BY <3>1, <3>2
  <2> QED BY <1>4, <2>1 DEF Raise, Within, Unfit, TypeOK
<1> QED BY <1>1, <1>2, <1>3, <1>4 DEF Adjustment

(***************************************************************************)
(* Common to all adjustments: the thread moves on to Clear, and the age of *)
(* good power is looked at.                                                *)
(***************************************************************************)
LEMMA AdjustmentFrame ==
  ASSUME Adjustment
  PROVE  /\ pc = "on" /\ pc' = "clear"
         /\ powerAge' = PowerAge
         /\ UNCHANGED <<enable, main_reg, sample, called, sinceOn, sinceCharge, raced>>
BY DEF Adjustment, Halt, HaltOver, LeaveFull, HaltDerated, Derate, Raise, Adjust, history
-------------------------------------------------------------------------------
(***************************************************************************)
(* Every state of the PWM switch is well typed: the register stays between *)
(* 0 and the resolution.                                                   *)
(***************************************************************************)
THEOREM PwmTypeCorrect == Spec => []TypeOK
<1> USE PwmAssumption DEF PwmAssumption
<1>1. Init => TypeOK
  <2> SUFFICES ASSUME Init
               PROVE  TypeOK
    OBVIOUS
  <2>1. /\ ccr \in 0 .. Resolution
        /\ offAge \in 0 .. RestartInterval + 1
        /\ sinceOn \in 0 .. RestartInterval + 1
        /\ sinceCharge \in 0 .. LowPowerTime + 2
    BY SMT DEF Init
  <2>2. sample \in Sample
    BY DEF Init
  <2> QED BY <2>1, <2>2 DEF Init, TypeOK
<1>2. TypeOK /\ [Next]_vars => TypeOK'
  <2> SUFFICES ASSUME TypeOK, [Next]_vars
               PROVE  TypeOK'
    OBVIOUS
  <2> USE DEF TypeOK, signal, ages, error_flags, thread, history
  <2>1. CASE BeginControl
    <3>1. sample' \in Sample
      BY <2>1 DEF BeginControl
    <3>2. sinceCharge' \in 0 .. LowPowerTime + 2
      <4>1. sinceCharge' = sinceCharge \/ sinceCharge' = 0
        BY <2>1 DEF BeginControl
      <4> QED BY <4>1, SMT
    <3> QED BY <2>1, <3>1, <3>2 DEF BeginControl
  <2>2. CASE Adjustment
    <3>1. powerAge' \in 0 .. LowPowerTime + 1
      <4>1. powerAge' = powerAge \/ powerAge' = 0
        BY <2>2, AdjustmentFrame DEF PowerAge
      <4> QED BY <4>1, SMT
    <3>2. offAge' \in 0 .. RestartInterval + 1
      <4>1. offAge' = offAge \/ offAge' = 0
        BY <2>2, AdjustmentEffect
      <4> QED BY <4>1, SMT
    <3>3. channel' \in BOOLEAN /\ active' \in BOOLEAN
      BY <2>2, AdjustmentEffect
    <3> QED BY <2>2, <3>1, <3>2, <3>3, AdjustmentEffect, AdjustmentFrame
  <2>3. CASE Clear
    BY <2>3 DEF Clear
  <2>4. CASE Check
    BY <2>4 DEF Check
  <2>5. CASE Drive
    <3>1. ccr' \in 0 .. Resolution /\ sinceOn' \in 0 .. RestartInterval + 1
      <4>1. ccr' = DutyMin \/ ccr' = Resolution
        BY <2>5 DEF Drive
      <4>2. sinceOn' = 0
        BY <2>5 DEF Drive
      <4> QED BY <4>1, <4>2, SMT
    <3> QED BY <2>5, <3>1 DEF Drive
  <2>6. CASE Activate
    <3>1. powerAge' \in 0 .. LowPowerTime + 1
      BY <2>6, SMT DEF Activate
    <3> QED BY <2>6, <3>1 DEF Activate
  <2>7. CASE OvervoltageAlert
    <3>1. offAge' \in 0 .. RestartInterval + 1
      BY <2>7, SMT DEF OvervoltageAlert, stop
    <3>2. raced' \in BOOLEAN
      BY <2>7 DEF OvervoltageAlert
    <3> QED BY <2>7, <3>1, <3>2 DEF OvervoltageAlert, stop, pwm_signal_stop
  <2>8. CASE SetEnable
    BY <2>8 DEF SetEnable
  <2>9. CASE MainLoad
    BY <2>9 DEF MainLoad
  <2>10. CASE MainStore
    <3>1. overvoltage' \in BOOLEAN
      <4>1. main_reg = {TRUE} \/ main_reg = {FALSE}
        BY <2>10 DEF MainStore
      <4>2. overvoltage' = TRUE \/ overvoltage' = FALSE
        BY <2>10, <4>1 DEF MainStore
      <4> QED BY <4>2
    <3>2. main_reg' = {}
      BY <2>10 DEF MainStore
    <3> QED BY <2>10, <3>1, <3>2 DEF MainStore
  <2>11. CASE Tick
    <3>1. /\ offAge' \in 0 .. RestartInterval + 1
          /\ powerAge' \in 0 .. LowPowerTime + 1
      BY <2>11, SMT DEF Tick, Older
    <3>2. sinceOn' \in 0 .. RestartInterval + 1
      <4>1. sinceOn' = 0 \/ sinceOn' = Older(sinceOn, RestartInterval)
        BY <2>11 DEF Tick
      <4> QED BY <4>1, SMT DEF Older
    <3>3. sinceCharge' \in 0 .. LowPowerTime + 2
      <4>1. sinceCharge' = 0 \/ sinceCharge' = Older(sinceCharge, LowPowerTime + 1)
        BY <2>11 DEF Tick
      <4> QED BY <4>1, SMT DEF Older
    <3> QED BY <2>11, <3>1, <3>2, <3>3 DEF Tick
  <2>12. CASE UNCHANGED vars
    BY <2>12 DEF vars
  <2> QED BY <2>1, <2>2, <2>3, <2>4, <2>5, <2>6, <2>7, <2>8, <2>9, <2>10, <2>11, <2>12
          DEF Next, Control, Adjustment
<1> QED BY <1>1, <1>2, PTL DEF Spec
-------------------------------------------------------------------------------
(***************************************************************************)
(* The switch starts off, long after its last stop.                        *)
(***************************************************************************)
LEMMA PwmInitially == Init => IInv
<1> SUFFICES ASSUME Init
             PROVE  IInv
  OBVIOUS
<1>1. Divided /\ Powered
  BY DEF Init, Divided, Powered
<1>2. Aged
  BY PwmAssumption, SMT DEF PwmAssumption, Init, Aged
<1> QED BY <1>1, <1>2 DEF IInv

(***************************************************************************)
(* The sample decides which branch of the call runs.                       *)
(***************************************************************************)
LEMMA BeginStep ==
  ASSUME TypeOK, IInv, BeginControl
  PROVE  IInv'
<1> USE DEF TypeOK, IInv, BeginControl, signal, ages
<1>1. Divided'
  BY DEF Divided
<1>2. Aged'
  BY DEF Aged
<1>3. Powered'
  <2>1. CASE active /\ sample'.current = "none"
    BY <2>1 DEF Powered
  <2>2. CASE ~(active /\ sample'.current = "none")
    <3>1. sinceCharge' = 0
      BY <2>2
    <3>2. 0 <= powerAge
      BY PwmAssumption, SMT DEF PwmAssumption
    <3> QED BY <3>1, <3>2 DEF Powered
  <2> QED BY <2>1, <2>2
<1> QED BY <1>1, <1>2, <1>3

(***************************************************************************)
(* Low power, the only way for the age of good power to exceed its bound,  *)
(* stops the switch in the same step.                                      *)
(***************************************************************************)
LEMMA AdjustmentStep ==
  ASSUME TypeOK, IInv, Adjustment
  PROVE  IInv'
<1> USE AdjustmentEffect, AdjustmentFrame
<1>1. Divided'
  <2>1. CASE channel' = FALSE /\ active' = FALSE
    BY <2>1 DEF Divided
  <2>2. CASE UNCHANGED <<channel, active>> /\ sample.voltage # "over"
    BY <2>2 DEF IInv, Divided
  <2> QED BY <2>1, <2>2
<1>2. Aged'
  <2>1. 0 <= sinceOn
    BY PwmAssumption, SMT DEF PwmAssumption, TypeOK
  <2> QED BY <2>1 DEF IInv, Aged
<1>3. Powered'
  <2>1. CASE active' = FALSE
    BY <2>1 DEF Powered
  <2>2. CASE active' # FALSE
    <3>1. active /\ ~LowPower
      BY <2>2 DEF TypeOK
    <3>2. PowerAge <= LowPowerTime
      BY <3>1, PwmAssumption, SMT DEF PwmAssumption, TypeOK, LowPower, PowerAge
    <3>3. sinceCharge <= PowerAge
      <4>1. CASE sample.current = "none"
        BY <3>1, <4>1 DEF IInv, Powered, PowerAge
      <4>2. CASE sample.current # "none"
        BY <3>1, <4>2, SMT DEF IInv, Powered, PowerAge
      <4> QED BY <4>1, <4>2
    <3> QED BY <3>2, <3>3 DEF Powered
  <2> QED BY <2>1, <2>2
<1> QED BY <1>1, <1>2, <1>3 DEF IInv

(***************************************************************************)
(* The end of a call keeps the switch as it is.                            *)
(***************************************************************************)
LEMMA ClearStep ==
  ASSUME IInv, Clear
  PROVE  IInv'
BY DEF IInv, Clear, Divided, Aged, Powered, signal, ages, history

(***************************************************************************)
(* A start needs a call that has found the switch inactive, a voltage      *)
(* below the target, and a rest.                                           *)
(***************************************************************************)
LEMMA CheckStep ==
  ASSUME TypeOK, IInv, Check
  PROVE  IInv'
<1> USE DEF Check, signal, ages, history
<1>1. Divided'
  BY DEF IInv, Divided, StartConditions
<1>2. Aged'
  <2>1. ~channel
    BY DEF IInv, Divided
  <2>2. offAge <= sinceOn
    BY <2>1 DEF IInv, Aged
  <2>3. pc' = "start" => sinceOn >= RestartInterval
    <3> SUFFICES ASSUME pc' = "start"
                 PROVE  sinceOn >= RestartInterval
      OBVIOUS
    <3>1. offAge > RestartInterval
      BY DEF StartConditions
    <3> QED BY <2>2, <3>1, PwmAssumption, SMT DEF PwmAssumption, TypeOK
  <2> QED BY <2>2, <2>3 DEF Aged
<1>3. Powered'
  BY DEF IInv, Divided, Powered
<1> QED BY <1>1, <1>2, <1>3 DEF IInv

(***************************************************************************)
(* The start sets signal and flag in two steps of the same call, and the   *)
(* age of good power with the second.                                      *)
(***************************************************************************)
LEMMA StartStep ==
  ASSUME TypeOK, IInv, Drive \/ Activate
  PROVE  IInv'
<1>1. CASE Drive
  BY <1>1 DEF IInv, Divided, Aged, Powered, Drive, ages
<1>2. CASE Activate
  <2>1. sinceCharge' <= powerAge' /\ powerAge' <= LowPowerTime
    BY <1>2, PwmAssumption, SMT DEF PwmAssumption, IInv, Powered, Activate, history
  <2> QED BY <1>2, <2>1 DEF IInv, Divided, Aged, Powered, Activate, history
<1> QED BY <1>1, <1>2

(***************************************************************************)
(* An alert leaves no signal, but may be undone in part by the start that  *)
(* it divides.                                                             *)
(***************************************************************************)
LEMMA AlertStep ==
  ASSUME TypeOK, IInv, OvervoltageAlert
  PROVE  IInv'
<1> USE DEF OvervoltageAlert, stop, pwm_signal_stop, thread
<1>1. Divided'
  BY DEF IInv, Divided
<1>2. Aged'
  <2>1. 0 <= sinceOn
    BY PwmAssumption, SMT DEF PwmAssumption, TypeOK
  <2> QED BY <2>1 DEF Aged
<1>3. Powered'
  BY DEF IInv, Powered
<1> QED BY <1>1, <1>2, <1>3 DEF IInv

(***************************************************************************)
(* The ages grow together.                                                 *)
(***************************************************************************)
LEMMA TickStep ==
  ASSUME TypeOK, IInv, Tick
  PROVE  IInv'
<1> USE DEF Tick, signal
<1>1. Divided'
  BY DEF IInv, Divided
<1>2. Aged'
  <2>1. CASE channel
    BY <2>1 DEF Aged
  <2>2. CASE ~channel
    <3>1. /\ offAge <= sinceOn
          /\ offAge' = Older(offAge, RestartInterval)
          /\ sinceOn' = Older(sinceOn, RestartInterval)
      BY <2>2 DEF IInv, Aged
    <3>2. offAge' <= sinceOn'
      BY <3>1, PwmAssumption, SMT DEF PwmAssumption, TypeOK, Older
    <3> QED BY <3>2 DEF Aged
  <2> QED BY <2>1, <2>2
<1>3. Powered'
  <2>1. CASE ~active
    BY <2>1 DEF Powered
  <2>2. CASE active
    <3>1. /\ sinceCharge <= powerAge
          /\ powerAge <= LowPowerTime
          /\ sinceCharge' = Older(sinceCharge, LowPowerTime + 1)
          /\ powerAge' = Older(powerAge, LowPowerTime)
      BY <2>2 DEF IInv, Powered
    <3>2. sinceCharge' <= powerAge'
      BY <3>1, PwmAssumption, SMT DEF PwmAssumption, TypeOK, Older
    <3> QED BY <3>2 DEF Powered
  <2> QED BY <2>1, <2>2
<1> QED BY <1>1, <1>2, <1>3 DEF IInv

\* The steps of the other threads touch nothing the invariant reads.
LEMMA ElsewhereStep ==
  ASSUME IInv, UNCHANGED <<channel, active, ages, thread, history>>
  PROVE  IInv'
BY DEF IInv, Divided, Aged, Powered, ages, thread, history

(***************************************************************************)
(* The inductive invariant of the switch.                                  *)
(***************************************************************************)
THEOREM PwmInvariant == Spec => []IInv
<1>1. TypeOK /\ IInv /\ [Next]_vars => IInv'
  <2> SUFFICES ASSUME TypeOK, IInv, [Next]_vars
               PROVE  IInv'
    OBVIOUS
  <2>1. CASE BeginControl
    BY <2>1, BeginStep
  <2>2. CASE Adjustment
    BY <2>2, AdjustmentStep
  <2>3. CASE Clear
    BY <2>3, ClearStep
  <2>4. CASE Check
    BY <2>4, CheckStep
  <2>5. CASE Drive \/ Activate
    BY <2>5, StartStep
  <2>6. CASE OvervoltageAlert
    BY <2>6, AlertStep
  <2>7. CASE Tick
    BY <2>7, TickStep
  <2>8. CASE SetEnable \/ MainLoad \/ MainStore \/ UNCHANGED vars
    BY <2>8, ElsewhereStep DEF SetEnable, MainLoad, MainStore, vars, signal
  <2> QED BY <2>1, <2>2, <2>3, <2>4, <2>5, <2>6, <2>7, <2>8 DEF Next, Control, Adjustment
<1> QED BY <1>1, PwmInitially, PwmTypeCorrect, PTL DEF Spec
-------------------------------------------------------------------------------
(***************************************************************************)
(* Between two calls a signal is known to the software and follows no      *)
(* measured overvoltage, for all interleavings with alerts.                *)
(***************************************************************************)
THEOREM PwmSignalIsKnown == Spec => []SignalIsKnown
<1>1. IInv => SignalIsKnown
  BY DEF IInv, Divided, SignalIsKnown
<1> QED BY <1>1, PwmInvariant, PTL

(***************************************************************************)
(* For all delays, low power stops the switch in time, over divided starts *)
(* and alerts.                                                             *)
(***************************************************************************)
THEOREM PwmLowPowerStops == Spec => []LowPowerStops
<1>1. TypeOK /\ IInv => LowPowerStops
  <2> SUFFICES ASSUME TypeOK, IInv, active
               PROVE  sinceCharge <= LowPowerTime + 1
    BY DEF LowPowerStops
  <2>1. sinceCharge <= powerAge
    BY DEF IInv, Powered
  <2> QED BY <2>1, PwmAssumption, SMT DEF PwmAssumption, TypeOK
<1> QED BY <1>1, PwmTypeCorrect, PwmInvariant, PTL

(***************************************************************************)
(* For all restart intervals, only an alert that hits the starting call    *)
(* shortens the rest of the signal.                                        *)
(***************************************************************************)
THEOREM PwmRestsBeforeRestart == Spec => RestsBeforeRestart
<1>1. TypeOK /\ IInv /\ [Next]_vars
        => [~channel /\ channel' => raced \/ sinceOn >= RestartInterval]_vars
  <2> SUFFICES ASSUME TypeOK, IInv, [Next]_vars, ~channel, channel'
               PROVE  raced \/ sinceOn >= RestartInterval
    OBVIOUS
  <2>1. CASE Drive
    BY <2>1 DEF IInv, Aged, Drive
  <2>2. CASE Adjustment
    BY <2>2, AdjustmentEffect
  <2>3. CASE ~Drive /\ ~Adjustment
    BY <2>3
       DEF Next, Control, Adjustment, BeginControl, Clear, Check, Activate, OvervoltageAlert, stop,
           pwm_signal_stop, SetEnable, MainLoad, MainStore, Tick, vars, signal
  <2> QED BY <2>1, <2>2, <2>3
<1> QED BY <1>1, PwmTypeCorrect, PwmInvariant, PTL DEF Spec, RestsBeforeRestart
===============================================================================
