----------------------------- MODULE ChargerProofs -----------------------------
(***************************************************************************)
(* Theorems about Charger for all delays, batteries and measurements.      *)
(*                                                                         *)
(* The argument: an alert may change `state' only to IDLE, so from Switch  *)
(* on the round works on the state it has read or on IDLE (Dispatched);    *)
(* what is known of the state the round has read is carried along with pc  *)
(* until the handler has run.                                              *)
(***************************************************************************)
EXTENDS Charger, TLAPS

At   == IF pc = "store" THEN ret ELSE pc
Seen == IF pc = "store" THEN reg ELSE error_flags

Dispatched ==
  /\ pc = "store" => ret \in {"temperature", "overvoltage", "follow", "enter_bulk"}
  /\ At \in ChargerState => state \in {At, "IDLE"}
  /\ At = "enter_bulk" => state = "IDLE" /\ pos = "charge"

\* The limit that goes with a state, for the current state and for the one read by Switch.
Fits(s) ==
  /\ s \in {"BULK", "TOPPING"} => pos = "charge"
  /\ s = "EQUALIZATION" => pos = "equalization"
  /\ s = "FLOAT" => pos \in {"charge", "equalization"}

\* Between two rounds a phase is one younger than during the next one.
Young ==
  /\ state = "TOPPING" =>
       /\ target_voltage_timer <= ToppingDuration + 1
       /\ stateAge <= ToppingTimeout + target_voltage_timer + (IF pc = "sleep" THEN 0 ELSE 1)
  /\ state = "EQUALIZATION" => stateAge <= EqualizationDuration + (IF pc = "sleep" THEN 0 ELSE 1)

\* From a temperature stop to the end of the round the state machine stays in IDLE.
Stopped ==
  outside /\ ctrlAge > 1 =>
    /\ At \in {"overvoltage", "follow", "switch"} \cup ChargerState =>
         pos = "zero" /\ state = "IDLE" /\ stateAge = 0 /\ ~never
    /\ At = "sleep" => pos = "zero"
    /\ At \in ChargerState \cup {"enter_bulk"} => At = "IDLE"

Rested ==
  /\ sinceStop > RechargeTime \/ (~never /\ stateAge <= sinceStop)
  /\ At = "enter_bulk" => sinceStop > RechargeTime

Agreed == neg <=> Seen \cap DischargeErrors = {}

IInv ==
  /\ Dispatched
  /\ Fits(state)
  /\ Fits(pc)
  /\ Young
  /\ Stopped
  /\ Rested
  /\ Agreed
-------------------------------------------------------------------------------
(***************************************************************************)
(* Every state of the charger is well typed.                               *)
(***************************************************************************)
THEOREM ChargerTypeOK == Spec => []TypeOK
<1>1. Init => TypeOK
  <2> SUFFICES ASSUME Init PROVE TypeOK
    OBVIOUS
  <2>1. never \in BOOLEAN /\ due \in BOOLEAN /\ full \in BOOLEAN /\ neg \in BOOLEAN /\ outside \in BOOLEAN
    BY DEF Init
  <2>. QED
    BY <2>1, ChargerAssumption DEF ChargerAssumption, Init, TypeOK, ChargerState, Step
<1>2. TypeOK /\ [Next]_vars => TypeOK'
  <2> SUFFICES ASSUME TypeOK, [Next]_vars PROVE TypeOK'
    OBVIOUS
  <2> USE ChargerAssumption DEF ChargerAssumption, TypeOK, ages, limits, thread, history
  <2>1. CASE Wake
    <3>1. due' \in BOOLEAN
      BY <2>1 DEF Wake, Older
    <3>. QED
      BY <2>1, <3>1 DEF Wake, Older, Step
  <2>2. CASE LimitDischarge
    BY <2>2 DEF LimitDischarge, Update, Faults, Resolved, AllowedAgain, Step, Error
  <2>3. CASE Store
    BY <2>3 DEF Store, Step
  <2>4. CASE StopOutsideTemperature
    <3>1. never' \in BOOLEAN /\ outside' \in BOOLEAN
      BY <2>4 DEF StopOutsideTemperature, Update, EnterState
    <3>. QED
      BY <2>4, <3>1 DEF StopOutsideTemperature, Update, EnterState, Step, Error, ChargerState
  <2>5. CASE ClearOvervoltage
    BY <2>5 DEF ClearOvervoltage, Update, Step
  <2>6. CASE Follow
    <3>1. never' \in BOOLEAN
      BY <2>6 DEF Follow, EnterState
    <3>. QED
      BY <2>6, <3>1 DEF Follow, EnterState, Step, ChargerState
  <2>7. CASE Switch
    BY <2>7 DEF Switch, Step
  <2>8. CASE Idle
    BY <2>8 DEF Idle, Sleep, Step
  <2>9. CASE StartCharging
    BY <2>9 DEF StartCharging, StartConditions, Update, Step, ChargerState, Error
  <2>10. CASE EnterBulk
    <3>1. never' \in BOOLEAN
      BY <2>10 DEF EnterBulk, EnterState, Sleep
    <3>. QED
      BY <2>10, <3>1 DEF EnterBulk, EnterState, Sleep, Step, ChargerState, Error
  <2>11. CASE Bulk
    <3>1. never' \in BOOLEAN
      BY <2>11 DEF Bulk, EnterState, Sleep
    <3>. QED
      BY <2>11, <3>1 DEF Bulk, EnterState, Sleep, Step, ChargerState, Error
  <2>12. CASE Topping
    <3>1. never' \in BOOLEAN /\ full' \in BOOLEAN
      BY <2>12 DEF Topping, TimerAfter, Complete, GiveUp, Equalize, Floating, Rest, EnterState,
         Sleep
    <3>. QED
      BY <2>12, <3>1 DEF Topping, TimerAfter, Complete, GiveUp, Equalize, Floating, Rest,
         EnterState, Sleep, Step, ChargerState, Error
  <2>13. CASE Float
    <3>1. never' \in BOOLEAN /\ full' \in BOOLEAN
      BY <2>13 DEF Float, EnterState, Sleep
    <3>. QED
      BY <2>13, <3>1 DEF Float, EnterState, Sleep, Step, ChargerState, Error
  <2>14. CASE Equalization
    <3>1. never' \in BOOLEAN /\ due' \in BOOLEAN
      BY <2>14 DEF Equalization, Floating, Rest, EnterState, Sleep
    <3>. QED
      BY <2>14, <3>1 DEF Equalization, Floating, Rest, EnterState, Sleep, Step, ChargerState,
         Error
  <2>15. CASE Follower
    <3>1. never' \in BOOLEAN
      BY <2>15 DEF Follower, EnterState, Sleep
    <3>. QED
      BY <2>15, <3>1 DEF Follower, EnterState, Sleep, Step, ChargerState, Error
  <2>16. CASE Measure
    BY <2>16 DEF Measure, Step, ChargerState, Error
  <2>17. CASE Interrupt
    BY <2>17 DEF Interrupt, LvOvervoltageAlert, HvOvervoltageAlert, Step, ChargerState, Error
  <2>18. CASE ControlMessage
    BY <2>18 DEF ControlMessage, Step, ChargerState, Error
  <2>19. CASE data_objects_update_conf
    BY <2>19 DEF data_objects_update_conf, Step, ChargerState, Error
  <2>20. CASE UNCHANGED vars
    BY <2>20 DEF vars, Step, ChargerState, Error
  <2>. QED
    BY <2>1, <2>2, <2>3, <2>4, <2>5, <2>6, <2>7, <2>8, <2>9, <2>10, <2>11, <2>12, <2>13, <2>14,
       <2>15, <2>16, <2>17, <2>18, <2>19, <2>20
       DEF Next, Main, StateMachine
<1>. QED
  BY <1>1, <1>2, PTL DEF Spec
-------------------------------------------------------------------------------
(***************************************************************************)
(* The inductive invariant of the charger.                                 *)
(***************************************************************************)
THEOREM ChargerInvariant == Spec => []IInv
<1>1. Init => IInv
  BY ChargerAssumption DEF ChargerAssumption, Init, IInv, Dispatched, Fits, Young, Stopped, Rested,
     Agreed, At, Seen, ChargerState, DischargeErrors
<1>2. TypeOK /\ TypeOK' /\ IInv /\ [Next]_vars => IInv'
  <2> SUFFICES ASSUME TypeOK, TypeOK', IInv, [Next]_vars PROVE IInv'
    OBVIOUS
  <2> USE ChargerAssumption DEF ChargerAssumption, TypeOK, ages, limits, thread, history, IInv, At,
          Seen, ChargerState
  <2>1. CASE Wake
    BY <2>1 DEF Wake, Older, Dispatched, Fits, Young, Stopped, Rested, Agreed
  <2>2. CASE LimitDischarge
    <3>1. Dispatched'
      BY <2>2 DEF LimitDischarge, Update, Faults, Resolved, AllowedAgain, Dispatched, Fits
    <3>2. (Fits(state) /\ Fits(pc))'
      BY <2>2 DEF LimitDischarge, Update, Faults, Resolved, AllowedAgain, Dispatched, Fits
    <3>3. Young'
      BY <2>2 DEF LimitDischarge, Update, Faults, Resolved, AllowedAgain, Dispatched, Young
    <3>4. Stopped'
      BY <2>2 DEF LimitDischarge, Update, Faults, Resolved, AllowedAgain, Dispatched, Stopped
    <3>5. Rested'
      BY <2>2 DEF LimitDischarge, Update, Faults, Resolved, AllowedAgain, Dispatched, Rested
    <3>6. Agreed'
      BY <2>2 DEF LimitDischarge, Update, Faults, Resolved, AllowedAgain, Dispatched, Agreed,
         DischargeErrors, BatUndervoltage, BatDisTemp, BatOvervoltage, BatChgTemp
    <3>. QED
      BY <3>1, <3>2, <3>3, <3>4, <3>5, <3>6
  <2>3. CASE Store
    BY <2>3 DEF Store, Dispatched, Fits, Young, Stopped, Rested, Agreed
  <2>4. CASE StopOutsideTemperature
    <3>1. Dispatched'
      BY <2>4 DEF StopOutsideTemperature, Update, EnterState, Dispatched, Fits
    <3>2. (Fits(state) /\ Fits(pc))'
      BY <2>4 DEF StopOutsideTemperature, Update, EnterState, Dispatched, Fits
    <3>3. Young'
      BY <2>4 DEF StopOutsideTemperature, Update, EnterState, Dispatched, Young
    <3>4. Stopped'
      BY <2>4 DEF StopOutsideTemperature, Update, EnterState, Dispatched, Stopped
    <3>5. Rested'
      BY <2>4 DEF StopOutsideTemperature, Update, EnterState, Dispatched, Rested
    <3>6. Agreed'
      BY <2>4 DEF StopOutsideTemperature, Update, EnterState, Dispatched, Agreed, Faults,
         Resolved, AllowedAgain, DischargeErrors, BatUndervoltage, BatDisTemp, BatOvervoltage,
         BatChgTemp
    <3>. QED
      BY <3>1, <3>2, <3>3, <3>4, <3>5, <3>6
  <2>5. CASE ClearOvervoltage
    BY <2>5 DEF ClearOvervoltage, Update, Dispatched, Fits, Young, Stopped, Rested, Agreed,
       DischargeErrors, BatUndervoltage, BatDisTemp, BatOvervoltage, BatChgTemp
  <2>6. CASE Follow
    BY <2>6 DEF Follow, EnterState, Dispatched, Fits, Young, Stopped, Rested, Agreed
  <2>7. CASE Switch
    BY <2>7 DEF Switch, Dispatched, Fits, Young, Stopped, Rested, Agreed
  <2>8. CASE Idle
    BY <2>8 DEF Idle, Sleep, Dispatched, Fits, Young, Stopped, Rested, Agreed
  <2>9. CASE StartCharging
    BY <2>9 DEF StartCharging, StartConditions, Update, Dispatched, Fits, Young, Stopped,
       Rested, Agreed, DischargeErrors, BatUndervoltage, BatDisTemp, BatOvervoltage, BatChgTemp
  <2>10. CASE EnterBulk
    BY <2>10 DEF EnterBulk, EnterState, Sleep, Dispatched, Fits, Young, Stopped, Rested, Agreed
  <2>11. CASE Bulk
    <3>1. Dispatched'
      BY <2>11 DEF Bulk, EnterState, Sleep, Dispatched, Fits
    <3>2. (Fits(state) /\ Fits(pc))'
      BY <2>11 DEF Bulk, EnterState, Sleep, Dispatched, Fits
    <3>3. Young'
      <4>1. state \in {"BULK", "IDLE"}
        BY <2>11 DEF Bulk, Dispatched
      <4>2. CASE sample.voltage >= ToppingTarget
        <5>1. state' = "TOPPING" /\ stateAge' = 0 /\ target_voltage_timer' = 0
          BY <2>11, <4>2 DEF Bulk, EnterState
        <5>. QED
          BY <5>1 DEF Young
      <4>3. CASE ~(sample.voltage >= ToppingTarget)
        BY <2>11, <4>1, <4>3 DEF Bulk, EnterState, Sleep, Young
      <4>. QED
        BY <4>2, <4>3
    <3>4. Stopped'
      BY <2>11 DEF Bulk, EnterState, Sleep, Dispatched, Stopped
    <3>5. Rested'
      BY <2>11 DEF Bulk, EnterState, Sleep, Dispatched, Rested
    <3>6. Agreed'
      BY <2>11 DEF Bulk, EnterState, Sleep, Dispatched, Agreed, Faults, Resolved, AllowedAgain,
         DischargeErrors, BatUndervoltage, BatDisTemp, BatOvervoltage, BatChgTemp
    <3>. QED
      BY <3>1, <3>2, <3>3, <3>4, <3>5, <3>6
  <2>12. CASE Topping
    <3>1. Dispatched'
      BY <2>12 DEF Topping, TimerAfter, Complete, GiveUp, Equalize, Floating, Rest, EnterState,
         Sleep, Dispatched, Fits
    <3>2. (Fits(state) /\ Fits(pc))'
      BY <2>12 DEF Topping, TimerAfter, Complete, GiveUp, Equalize, Floating, Rest, EnterState,
         Sleep, Dispatched, Fits
    <3>3. Young'
      <4>1. pc' = "sleep" /\ state \in {"TOPPING", "IDLE"}
        BY <2>12 DEF Topping, Sleep, Dispatched
      <4>2. CASE full'
        BY <2>12, <4>1, <4>2 DEF Topping, EnterState, Equalize, Floating, Rest, Young
      <4>3. CASE ~full' /\ sample.filtered >= ToppingTarget
        <5>1. target_voltage_timer' = target_voltage_timer + 1
          BY <2>12, <4>3 DEF Topping, TimerAfter
        <5>2. ~Complete
          BY <2>12, <4>3 DEF Topping
        <5>3. target_voltage_timer <= ToppingDuration
          BY <5>2 DEF Complete
        <5>4. state' = state /\ stateAge' = stateAge
          BY <2>12, <4>3 DEF Topping
        <5>. QED
          BY <4>1, <5>1, <5>3, <5>4 DEF Young
      <4>4. CASE ~full' /\ ~(sample.filtered >= ToppingTarget)
        <5>1. target_voltage_timer' = target_voltage_timer
          BY <2>12, <4>4 DEF Topping, TimerAfter
        <5>2. state' = "BULK" \/ (state' = state /\ stateAge' = stateAge /\ stateAge <= ToppingTimeout)
          BY <2>12, <4>4 DEF Topping, GiveUp, EnterState
        <5>. QED
          BY <4>1, <5>1, <5>2 DEF Young
      <4>. QED
        BY <4>2, <4>3, <4>4
    <3>4. Stopped'
      BY <2>12 DEF Topping, TimerAfter, Complete, GiveUp, Equalize, Floating, Rest, EnterState,
         Sleep, Dispatched, Stopped
    <3>5. Rested'
      BY <2>12 DEF Topping, TimerAfter, Complete, GiveUp, Equalize, Floating, Rest, EnterState,
         Sleep, Dispatched, Rested, Fits
    <3>6. Agreed'
      BY <2>12 DEF Topping, TimerAfter, Complete, GiveUp, Equalize, Floating, Rest, EnterState,
         Sleep, Dispatched, Agreed, Faults, Resolved, AllowedAgain, DischargeErrors,
         BatUndervoltage, BatDisTemp, BatOvervoltage, BatChgTemp
    <3>. QED
      BY <3>1, <3>2, <3>3, <3>4, <3>5, <3>6
  <2>13. CASE Float
    BY <2>13 DEF Float, EnterState, Sleep, Dispatched, Fits, Young, Stopped, Rested, Agreed
  <2>14. CASE Equalization
    BY <2>14 DEF Equalization, Floating, Rest, EnterState, Sleep, Dispatched, Fits, Young,
       Stopped, Rested, Agreed
  <2>15. CASE Follower
    BY <2>15 DEF Follower, EnterState, Sleep, Dispatched, Fits, Young, Stopped, Rested, Agreed
  <2>16. CASE Measure
    BY <2>16 DEF Measure, Dispatched, Fits, Young, Stopped, Rested, Agreed
  <2>17. CASE Interrupt
    BY <2>17 DEF Interrupt, LvOvervoltageAlert, HvOvervoltageAlert, Dispatched, Fits, Young,
       Stopped, Rested, Agreed, DischargeErrors, BatUndervoltage, BatDisTemp, BatOvervoltage,
       BatChgTemp
  <2>18. CASE ControlMessage
    BY <2>18 DEF ControlMessage, Dispatched, Fits, Young, Stopped, Rested, Agreed
  <2>19. CASE data_objects_update_conf
    BY <2>19 DEF data_objects_update_conf, Dispatched, Fits, Young, Stopped, Rested, Agreed
  <2>20. CASE UNCHANGED vars
    BY <2>20 DEF vars, Dispatched, Fits, Young, Stopped, Rested, Agreed
  <2>. QED
    BY <2>1, <2>2, <2>3, <2>4, <2>5, <2>6, <2>7, <2>8, <2>9, <2>10, <2>11, <2>12, <2>13, <2>14,
       <2>15, <2>16, <2>17, <2>18, <2>19, <2>20
       DEF Next, Main, StateMachine
<1>. QED
  BY <1>1, <1>2, ChargerTypeOK, PTL DEF Spec
-------------------------------------------------------------------------------
(***************************************************************************)
(* Every charging state has the current limit that goes with it, whatever  *)
(* alerts and control messages come between the steps of charge_control(). *)
(***************************************************************************)
THEOREM ChargerLimitFitsState == Spec => []LimitFitsState
<1>1. TypeOK /\ IInv => LimitFitsState
  BY ChargerAssumption DEF ChargerAssumption, TypeOK, IInv, Fits, LimitFitsState
<1>. QED
  BY <1>1, ChargerTypeOK, ChargerInvariant, PTL
(***************************************************************************)
(* Topping and equalization end within their times, for all durations.     *)
(***************************************************************************)
THEOREM ChargerPhasesBounded == Spec => []PhasesBounded
<1>1. TypeOK /\ IInv => PhasesBounded
  BY ChargerAssumption DEF ChargerAssumption, TypeOK, IInv, Young, PhasesBounded
<1>. QED
  BY <1>1, ChargerTypeOK, ChargerInvariant, PTL
(***************************************************************************)
(* A round that found the battery too hot or too cold leaves it without    *)
(* charging current unless an external controller leads.                   *)
(***************************************************************************)
THEOREM ChargerTemperatureStops == Spec => []TemperatureStops
<1>1. TypeOK /\ IInv => TemperatureStops
  BY ChargerAssumption DEF ChargerAssumption, TypeOK, IInv, Stopped, At, TemperatureStops
<1>. QED
  BY <1>1, ChargerTypeOK, ChargerInvariant, PTL
(***************************************************************************)
(* Charging that was stopped starts again only after the recharge delay.   *)
(***************************************************************************)
THEOREM ChargerRestHolds == Spec => []RestHolds
<1>1. TypeOK /\ IInv => RestHolds
  BY ChargerAssumption DEF ChargerAssumption, TypeOK, IInv, Rested, At, RestHolds
<1>. QED
  BY <1>1, ChargerTypeOK, ChargerInvariant, PTL
(***************************************************************************)
(* Discharging is blocked exactly while one of its errors is flagged.      *)
(***************************************************************************)
THEOREM ChargerDischargeBlocked == Spec => []DischargeBlocked
<1>1. TypeOK /\ IInv => DischargeBlocked
  BY ChargerAssumption DEF ChargerAssumption, TypeOK, IInv, Agreed, Seen, DischargeBlocked
<1>. QED
  BY <1>1, ChargerTypeOK, ChargerInvariant, PTL
===============================================================================
