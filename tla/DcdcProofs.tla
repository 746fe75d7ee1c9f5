------------------------------ MODULE DcdcProofs ------------------------------
(***************************************************************************)
(* Theorems about Dcdc for all delays, step sizes, duty limits and plants. *)
(*                                                                         *)
(* The argument: an alert can only open the bridge, so the thread that     *)
(* found it open keeps it open until Start (Opened), and what held when a  *)
(* start was prepared holds at Start unless an alert came in between       *)
(* (Prepared).  The ages that control() keeps are never above the true     *)
(* ones, which the history variables record (Aged).                        *)
(***************************************************************************)
EXTENDS Dcdc, TLAPS

\* From the branch taken for an open bridge on, the bridge is open.
Opened == pc \in {"off", "store", "check", "start"} => ~enabled

Prepared ==
  pc = "start" =>
    /\ ~sample.exceeded
    /\ sinceUnfit >= InhibitTime
    /\ raced \/ (sinceStop >= RestartInterval /\ hvs)

Aged ==
  /\ offAge <= sinceStop
  /\ inhibitAge <= sinceUnfit
  /\ sinceGood <= powerAge

\* A second without a call makes the good power one second older than the call left it.
Powered ==
  Intact /\ enabled /\ conf.mode # "AUTO" =>
    powerAge <= LowPowerTime + (IF called /\ pc = "sleep" THEN 0 ELSE 1)

Limits ==
  /\ Intact => ccr \in CcrMin .. CcrMax
  /\ main_pc \in {"duty", "start"} => ~Intact

\* While fuse_destruction() works on the bridge, the error keeps control() from starting it.
Broken ==
  /\ pc = "store" => HsShort \in reg
  /\ main_pc = "init" => HsShort \in error_flags /\ ~enabled /\ pc \in {"sleep", "off", "store"}

IInv ==
  /\ Opened
  /\ Prepared
  /\ Aged
  /\ EmergencyStops
  /\ Powered
  /\ Limits
  /\ Broken
-------------------------------------------------------------------------------
(***************************************************************************)
(* FALSE is a Boolean, for a flag the code clears.                         *)
(***************************************************************************)
LEMMA Cleared == ASSUME NEW b, b = FALSE PROVE b \in BOOLEAN
  OBVIOUS

(***************************************************************************)
(* Whatever the timer, starting it gives the enable bit a Boolean value.   *)
(***************************************************************************)
LEMMA Started == ASSUME NEW timer, half_bridge_start(timer) PROVE enabled' \in BOOLEAN
<1>1. CASE timer = "HRTIM1"
  <2>1. enabled' = TRUE
    BY <1>1 DEF half_bridge_start, hrtim_start
  <2>. QED
    BY ONLY <2>1, Zenon
<1>2. CASE timer # "HRTIM1"
  <2>1. enabled' = (enabled \/ ccr # 0)
    BY <1>2 DEF half_bridge_start, tim_start
  <2>. QED
    BY ONLY <2>1, Zenon
<1>. QED
  BY <1>1, <1>2

(***************************************************************************)
(* The register written is one of the two limits or between them.          *)
(***************************************************************************)
LEMMA Clamped ==
  ASSUME NEW n \in Int, NEW min \in Int, NEW max \in Int, min <= max
  PROVE  clamp_ccr(uint16(n), min, max) \in min .. max
BY DEF clamp_ccr, uint16

(***************************************************************************)
(* The register cannot be seen to wrap around: a value that fits is kept.  *)
(***************************************************************************)
LEMMA Fitting ==
  ASSUME NEW n \in Int, 0 <= n, n < 65536
  PROVE  uint16(n) = n
BY DEF uint16

(***************************************************************************)
(* half_bridge_set_ccr() keeps to the limits in force.                     *)
(***************************************************************************)
LEMMA SetWithinLimits ==
  ASSUME TypeOK, NEW n \in Int, half_bridge_set_ccr(n)
  PROVE  ccr' \in 0 .. Arr /\ ccr' \in tim_ccr_min .. tim_ccr_max
<1>1. tim_ccr_min \in Int /\ tim_ccr_max \in Int /\ tim_ccr_min <= tim_ccr_max
  BY HalfBridgeAssumption DEF HalfBridgeAssumption, TypeOK
<1>2. ccr' \in tim_ccr_min .. tim_ccr_max
  BY <1>1, Clamped DEF half_bridge_set_ccr
<1>. QED
  BY <1>1, <1>2, HalfBridgeAssumption DEF HalfBridgeAssumption, TypeOK

(***************************************************************************)
(* An age saturates one past the delay it is compared with.                *)
(***************************************************************************)
LEMMA Saturates ==
  ASSUME NEW delay \in Nat, NEW age \in 0 .. delay + 1
  PROVE  Older(age, delay) \in 0 .. delay + 1
BY DEF Older

(***************************************************************************)
(* stop() keeps what it changes well typed and the register as it was.     *)
(***************************************************************************)
LEMMA Stopped ==
  ASSUME TypeOK, stop
  PROVE  /\ enabled' \in BOOLEAN /\ hvs' \in BOOLEAN /\ state' = "OFF"
         /\ offAge' \in 0 .. RestartInterval + 1 /\ sinceStop' \in 0 .. RestartInterval + 1
         /\ UNCHANGED <<ccr, tim_ccr_min, tim_ccr_max>>
<1>1. enabled' \in BOOLEAN /\ hvs' \in BOOLEAN
  BY DEF stop, half_bridge_stop
<1>2. offAge' \in 0 .. RestartInterval + 1 /\ sinceStop' \in 0 .. RestartInterval + 1
  BY DcdcAssumption DEF DcdcAssumption, stop, TypeOK
<1>. QED
  BY <1>1, <1>2 DEF stop

(***************************************************************************)
(* Every measurement is a sample.                                          *)
(***************************************************************************)
LEMMA MeasuredIsSample ==
  ASSUME NEW c \in Confs, NEW on \in BOOLEAN, NEW r \in 0 .. Arr
  PROVE  Measured(c.plant, on, r) \subseteq Sample
BY PlantAssumption DEF PlantAssumption

(***************************************************************************)
(* Perturb and observe moves by one step at most.                          *)
(***************************************************************************)
LEMMA Directed ==
  ASSUME TypeOK
  PROVE  Direction \in {-1, 0, 1}
<1>1. Increase \in {-1, 1}
  BY DEF Increase
<1>2. -Increase \in {-1, 1}
  BY <1>1
<1>3. Tracked \in {-1, 0, 1}
  BY DEF Tracked, TypeOK
<1>4. Region \in {"OFF", "LIMIT", "RAISE", "MPPT"}
  BY DEF Region
<1>. QED
  BY <1>1, <1>2, <1>3, <1>4 DEF Direction
-------------------------------------------------------------------------------
(***************************************************************************)
(* Every state of the converter is well typed; in particular the register  *)
(* never leaves the range of the timer.                                    *)
(***************************************************************************)
THEOREM DcdcTypeOK == Spec => []TypeOK
<1>1. Init => TypeOK
  <2> SUFFICES ASSUME Init PROVE TypeOK
    OBVIOUS
  <2>1. Measured(conf.plant, enabled, ccr) \subseteq Sample
    <3>1. enabled \in BOOLEAN
      BY DEF Init, HalfBridgeInit
    <3>2. conf \in Confs /\ ccr \in 0 .. Arr
      BY HalfBridgeAssumption DEF HalfBridgeAssumption, Init, HalfBridgeInit
    <3>. QED
      BY <3>1, <3>2, MeasuredIsSample
  <2>2. /\ enabled \in BOOLEAN /\ enable \in BOOLEAN /\ hvs \in BOOLEAN
        /\ suspected \in BOOLEAN /\ called \in BOOLEAN /\ raced \in BOOLEAN
    BY DEF Init, HalfBridgeInit
  <2> USE HalfBridgeAssumption, DcdcAssumption DEF HalfBridgeAssumption, DcdcAssumption
  <2>. QED
    BY <2>1, <2>2 DEF Init, HalfBridgeInit, TypeOK, Power
<1>2. TypeOK /\ [Next]_vars => TypeOK'
  <2> SUFFICES ASSUME TypeOK, [Next]_vars PROVE TypeOK'
    OBVIOUS
  <2> USE HalfBridgeAssumption, DcdcAssumption
      DEF HalfBridgeAssumption, DcdcAssumption, TypeOK, bridge, control_state, ages, thread, main,
          history
  <2>1. CASE BeginControl
    <3>1. Measured(conf.plant, enabled, ccr) \subseteq Sample
      BY MeasuredIsSample
    <3>2. raced' \in BOOLEAN
      BY <2>1 DEF BeginControl
    <3>. QED
      BY <2>1, <3>1, <3>2 DEF BeginControl
  <2>2. CASE CheckShort
    <3>1. suspected' \in BOOLEAN
      BY <2>2 DEF CheckShort, Sample
    <3>. QED
      BY <2>2, <3>1 DEF CheckShort, Error
  <2>3. CASE Store
    BY <2>3 DEF Store
  <2>4. CASE Refuse
    BY <2>4 DEF Refuse
  <2>5. CASE Inhibit
    BY <2>5 DEF Inhibit
  <2>6. CASE Prepare
    <3>1. ccr' \in 0 .. Arr /\ UNCHANGED <<tim_ccr_min, tim_ccr_max>>
      <4>1. CASE sample.duty \in 0 .. Arr
        <5>1. half_bridge_set_ccr(sample.duty)
          BY <2>6, <4>1 DEF Prepare, half_bridge_set_duty_cycle
        <5>. QED
          BY <4>1, <5>1, SetWithinLimits DEF half_bridge_set_ccr
      <4>2. CASE sample.duty \notin 0 .. Arr
        BY <2>6, <4>2 DEF Prepare, half_bridge_set_duty_cycle
      <4>. QED
        BY <4>1, <4>2
    <3>2. hvs' \in BOOLEAN /\ pwm_direction' \in {-1, 0, 1}
      BY <2>6 DEF Prepare
    <3>. QED
      BY <2>6, <3>1, <3>2 DEF Prepare
  <2>7. CASE Start
    <3>1. enabled' \in BOOLEAN
      BY <2>7, Started DEF Start
    <3>. QED
      BY <2>7, <3>1 DEF Start, half_bridge_start, tim_start, hrtim_start
  <2>8. CASE Emergency
    <3>1. stop
      BY <2>8 DEF Emergency
    <3>. QED
      BY <2>8, <3>1, Stopped DEF Emergency
  <2>9. CASE PerturbObserve
    <3>1. pwm_direction' \in {-1, 0, 1}
      BY <2>9, Directed DEF PerturbObserve
    <3>2. /\ power_prev' \in Power /\ powerAge' \in 0 .. LowPowerTime + 2
          /\ sinceGood' \in 0 .. LowPowerTime + 2
      BY <2>9 DEF PerturbObserve, PowerAge, Sample
    <3>3. CASE pwm_direction' = 0
      BY <2>9, <3>1, <3>2, <3>3, Stopped DEF PerturbObserve
    <3>4. CASE pwm_direction' # 0
      <4>1. half_bridge_set_ccr(NextCcr)
        BY <2>9, <3>4 DEF PerturbObserve
      <4>2. NextCcr \in Int
        BY <3>1 DEF NextCcr
      <4>3. ccr' \in 0 .. Arr /\ UNCHANGED <<tim_ccr_min, tim_ccr_max>>
        BY <4>1, <4>2, SetWithinLimits DEF half_bridge_set_ccr
      <4>4. Region \in {"OFF", "LIMIT", "RAISE", "MPPT"} /\ Region # "OFF"
        BY <2>9, <3>4 DEF PerturbObserve, Direction, Region
      <4>5. state' \in {"OFF", "LIMIT", "MPPT"} /\ UNCHANGED <<enabled, offAge, hvs, sinceStop>>
        BY <2>9, <3>4, <4>4 DEF PerturbObserve
      <4>. QED
        BY <2>9, <3>1, <3>2, <4>3, <4>5 DEF PerturbObserve
    <3>. QED
      BY <3>3, <3>4
  <2>10. CASE OvervoltageAlert
    <3>1. raced' \in BOOLEAN /\ error_flags' \subseteq Error /\ stop
      BY <2>10 DEF OvervoltageAlert, Error
    <3>. QED
      BY <2>10, <3>1, Stopped DEF OvervoltageAlert
  <2>11. CASE SetEnable
    <3>1. enable' \in BOOLEAN
      BY <2>11 DEF SetEnable, Sample
    <3>. QED
      BY <2>11, <3>1 DEF SetEnable
  <2>12. CASE Tick
    <3>1. /\ offAge' \in 0 .. RestartInterval + 1 /\ sinceStop' \in 0 .. RestartInterval + 1
          /\ inhibitAge' \in 0 .. InhibitTime + 1 /\ sinceUnfit' \in 0 .. InhibitTime + 1
      BY <2>12, Saturates DEF Tick
    <3>2. powerAge' \in 0 .. LowPowerTime + 2 /\ sinceGood' \in 0 .. LowPowerTime + 2
      BY <2>12 DEF Tick, Older
    <3>3. suspectedAge' \in 0 .. ShortDelay + 1
      <4>1. CASE suspected
        BY <2>12, <4>1, Saturates DEF Tick
      <4>2. CASE ~suspected
        BY <2>12, <4>2 DEF Tick
      <4>. QED
        BY <4>1, <4>2
    <3>4. called' \in BOOLEAN
      <4>1. called' = FALSE
        BY <2>12 DEF Tick
      <4>. QED
        BY ONLY <4>1, Cleared, Zenon
    <3>. QED
      BY <2>12, <3>1, <3>2, <3>3, <3>4 DEF Tick
  <2>13. CASE ChargeControl
    BY <2>13 DEF ChargeControl, Error
  <2>14. CASE MainStore
    BY <2>14 DEF MainStore
  <2>15. CASE FuseWait
    BY <2>15 DEF FuseWait
  <2>16. CASE FuseStop
    <3>1. enabled' \in BOOLEAN
      <4>1. enabled' = FALSE
        BY <2>16 DEF FuseStop, half_bridge_stop
      <4>. QED
        BY ONLY <4>1, Cleared, Zenon
    <3>. QED
      BY <2>16, <3>1 DEF FuseStop, FuseStep
  <2>17. CASE FuseInit
    BY <2>17 DEF FuseInit, FuseStep, half_bridge_init, clamp_ccr
  <2>18. CASE FuseDuty
    <3>1. half_bridge_set_ccr(0)
      BY <2>18 DEF FuseDuty, half_bridge_set_duty_cycle
    <3>2. ccr' \in 0 .. Arr /\ UNCHANGED <<tim_ccr_min, tim_ccr_max>>
      BY <3>1, SetWithinLimits DEF half_bridge_set_ccr
    <3>. QED
      BY <2>18, <3>2 DEF FuseDuty, FuseStep
  <2>19. CASE FuseStart
    <3>1. enabled' \in BOOLEAN
      BY <2>19, Started DEF FuseStart
    <3>. QED
      BY <2>19, <3>1 DEF FuseStart, FuseStep, half_bridge_start, tim_start, hrtim_start
  <2>20. CASE UNCHANGED vars
    BY <2>20 DEF vars
  <2>. QED
    BY <2>1, <2>2, <2>3, <2>4, <2>5, <2>6, <2>7, <2>8, <2>9, <2>10, <2>11, <2>12, <2>13, <2>14,
       <2>15, <2>16, <2>17, <2>18, <2>19, <2>20 DEF Next, Control, Main
<1>. QED
  BY <1>1, <1>2, PTL DEF Spec
-------------------------------------------------------------------------------
(***************************************************************************)
(* The inductive invariant of the converter.                               *)
(***************************************************************************)
THEOREM DcdcInvariant == Spec => []IInv
<1>. USE HalfBridgeAssumption, DcdcAssumption DEF HalfBridgeAssumption, DcdcAssumption
<1>1. Init => IInv
  BY DEF Init, HalfBridgeInit, IInv, Opened, Prepared, Aged, EmergencyStops, Powered, Limits, Broken, Intact
<1>2. TypeOK /\ TypeOK' /\ IInv /\ [Next]_vars => IInv'
  <2> SUFFICES ASSUME TypeOK, TypeOK', IInv, [Next]_vars PROVE IInv'
    OBVIOUS
  <2> USE DEF TypeOK, bridge, control_state, ages, thread, main, history, IInv, Intact
  <2>1. CASE BeginControl
    BY <2>1 DEF BeginControl, Opened, Prepared, Aged, EmergencyStops, Powered, Limits, Broken,
       Error, BatFault, HsShort
  <2>2. CASE CheckShort
    BY <2>2 DEF CheckShort, Opened, Prepared, Aged, EmergencyStops, Powered, Limits, Broken,
       Error, BatFault, HsShort
  <2>3. CASE Store
    BY <2>3 DEF Store, Opened, Prepared, Aged, EmergencyStops, Powered, Limits, Broken, Error,
       BatFault, HsShort
  <2>4. CASE Refuse
    BY <2>4 DEF Refuse, Opened, Prepared, Aged, EmergencyStops, Powered, Limits, Broken, Error,
       BatFault, HsShort
  <2>5. CASE Inhibit
    BY <2>5 DEF Inhibit, Opened, Prepared, Aged, EmergencyStops, Powered, Limits, Broken, Error,
       BatFault, HsShort
  <2>6. CASE Prepare
    <3>1. Intact => ccr' \in CcrMin .. CcrMax
      BY <2>6, SetWithinLimits DEF Prepare, half_bridge_set_duty_cycle, Sample, Limits
    <3>. QED
      BY <2>6, <3>1 DEF Prepare, StartConditions, half_bridge_set_duty_cycle, half_bridge_set_ccr,
         Opened, Prepared, Aged, EmergencyStops, Powered, Limits, Broken, Error, BatFault, HsShort
  <2>7. CASE Start
    BY <2>7 DEF Start, half_bridge_start, tim_start, hrtim_start, Opened, Prepared, Aged, EmergencyStops, Powered,
       Limits, Broken, Error, BatFault, HsShort
  <2>8. CASE Emergency
    BY <2>8 DEF Emergency, StopReason, stop, half_bridge_stop, Opened, Prepared, Aged,
       EmergencyStops, Powered, Limits, Broken, Error, BatFault, HsShort
  <2>9. CASE PerturbObserve
    <3>1. Intact => ccr' \in CcrMin .. CcrMax
      <4>1. NextCcr \in Int
        BY DEF NextCcr
      <4>. QED
        BY <2>9, <4>1, SetWithinLimits DEF PerturbObserve, stop, Limits
    <3>2. Limits'
      BY <2>9, <3>1 DEF PerturbObserve, stop, half_bridge_set_ccr, Limits
    <3>3. enabled' => ~LowPower /\ enabled
      <4>1. CASE pwm_direction' = 0
        BY <2>9, <4>1 DEF PerturbObserve, stop, half_bridge_stop
      <4>2. CASE pwm_direction' # 0
        <5>1. ~LowPower
          BY <2>9, <4>2 DEF PerturbObserve, Direction, Region
        <5>2. enabled' = enabled
          BY <2>9, <4>2 DEF PerturbObserve
        <5>. QED
          BY <5>1, <5>2
      <4>. QED
        BY <4>1, <4>2
    <3>4. Powered'
      BY <2>9, <3>3 DEF PerturbObserve, LowPower, PowerAge, Powered
    <3>5. (Opened /\ Prepared /\ EmergencyStops)'
      BY <2>9 DEF PerturbObserve, StopReason, Opened, Prepared, EmergencyStops
    <3>6. Aged'
      BY <2>9 DEF PerturbObserve, PowerAge, stop, Aged
    <3>7. Broken'
      BY <2>9 DEF PerturbObserve, Broken
    <3>. QED
      BY <3>2, <3>4, <3>5, <3>6, <3>7
  <2>10. CASE OvervoltageAlert
    BY <2>10 DEF OvervoltageAlert, stop, half_bridge_stop, Opened, Prepared, Aged,
       EmergencyStops, Powered, Limits, Broken, Error, BatFault, HsShort
  <2>11. CASE SetEnable
    BY <2>11 DEF SetEnable, Opened, Prepared, Aged, EmergencyStops, Powered, Limits, Broken,
       Error, BatFault, HsShort
  <2>12. CASE Tick
    BY <2>12 DEF Tick, Older, Opened, Prepared, Aged, EmergencyStops, Powered, Limits, Broken,
       Error, BatFault, HsShort
  <2>13. CASE ChargeControl
    BY <2>13 DEF ChargeControl, Opened, Prepared, Aged, EmergencyStops, Powered, Limits, Broken,
       Error, BatFault, HsShort
  <2>14. CASE MainStore
    BY <2>14 DEF MainStore, Opened, Prepared, Aged, EmergencyStops, Powered, Limits, Broken,
       Error, BatFault, HsShort
  <2>15. CASE FuseWait
    BY <2>15 DEF FuseWait, Opened, Prepared, Aged, EmergencyStops, Powered, Limits, Broken,
       Error, BatFault, HsShort
  <2>16. CASE FuseStop
    BY <2>16 DEF FuseStop, FuseStep, half_bridge_stop, Opened, Prepared, Aged, EmergencyStops,
       Powered, Limits, Broken, Error, BatFault, HsShort
  <2>17. CASE FuseInit
    BY <2>17 DEF FuseInit, FuseStep, half_bridge_init, clamp_ccr, Opened, Prepared, Aged,
       EmergencyStops, Powered, Limits, Broken, Error, BatFault, HsShort
  <2>18. CASE FuseDuty
    BY <2>18 DEF FuseDuty, FuseStep, half_bridge_set_duty_cycle, half_bridge_set_ccr, Opened,
       Prepared, Aged, EmergencyStops, Powered, Limits, Broken, Error, BatFault, HsShort
  <2>19. CASE FuseStart
    BY <2>19 DEF FuseStart, FuseStep, half_bridge_start, tim_start, hrtim_start, Opened, Prepared, Aged, EmergencyStops,
       Powered, Limits, Broken, Error, BatFault, HsShort
  <2>20. CASE UNCHANGED vars
    BY <2>20 DEF vars, Opened, Prepared, Aged, EmergencyStops, Powered, Limits, Broken, Error,
       BatFault, HsShort
  <2>. QED
    BY <2>1, <2>2, <2>3, <2>4, <2>5, <2>6, <2>7, <2>8, <2>9, <2>10, <2>11, <2>12, <2>13, <2>14,
       <2>15, <2>16, <2>17, <2>18, <2>19, <2>20 DEF Next, Control, Main
<1>. QED
  BY <1>1, <1>2, DcdcTypeOK, PTL DEF Spec
-------------------------------------------------------------------------------
(***************************************************************************)
(* Who touches the bridge: two actions start it, four write the register.  *)
(***************************************************************************)
LEMMA BridgeSteps ==
  ASSUME [Next]_vars
  PROVE  /\ enabled' = enabled \/ enabled' = FALSE \/ Start \/ FuseStart
         /\ ccr' = ccr \/ Prepare \/ PerturbObserve \/ FuseInit \/ FuseDuty
<1>1. CASE BeginControl
  BY <1>1 DEF BeginControl, bridge
<1>2. CASE CheckShort
  BY <1>2 DEF CheckShort, bridge
<1>3. CASE Store
  BY <1>3 DEF Store, bridge
<1>4. CASE Refuse
  BY <1>4 DEF Refuse, bridge
<1>5. CASE Inhibit
  BY <1>5 DEF Inhibit, bridge
<1>6. CASE Prepare
  BY <1>6 DEF Prepare, bridge
<1>7. CASE Start
  BY <1>7 DEF Start, bridge
<1>8. CASE Emergency
  BY <1>8 DEF Emergency, StopReason, stop, half_bridge_stop, bridge
<1>9. CASE PerturbObserve
  BY <1>9 DEF PerturbObserve, stop, half_bridge_stop, bridge
<1>10. CASE OvervoltageAlert
  BY <1>10 DEF OvervoltageAlert, stop, half_bridge_stop, bridge
<1>11. CASE SetEnable
  BY <1>11 DEF SetEnable, bridge
<1>12. CASE Tick
  BY <1>12 DEF Tick, bridge
<1>13. CASE ChargeControl
  BY <1>13 DEF ChargeControl, bridge
<1>14. CASE MainStore
  BY <1>14 DEF MainStore, bridge
<1>15. CASE FuseWait
  BY <1>15 DEF FuseWait, bridge
<1>16. CASE FuseStop
  BY <1>16 DEF FuseStop, FuseStep, half_bridge_stop, bridge
<1>17. CASE FuseInit
  BY <1>17 DEF FuseInit, bridge
<1>18. CASE FuseDuty
  BY <1>18 DEF FuseDuty, bridge
<1>19. CASE FuseStart
  BY <1>19 DEF FuseStart, bridge
<1>20. CASE UNCHANGED vars
  BY <1>20 DEF vars, bridge
<1>. QED
  BY <1>1, <1>2, <1>3, <1>4, <1>5, <1>6, <1>7, <1>8, <1>9, <1>10, <1>11, <1>12, <1>13, <1>14,
     <1>15, <1>16, <1>17, <1>18, <1>19, <1>20 DEF Next, Control, Main

(***************************************************************************)
(* A call that has measured an excessive voltage ends with the converter   *)
(* off, for all plants and whatever alerts come between its steps.         *)
(***************************************************************************)
THEOREM DcdcEmergencyStops == Spec => []EmergencyStops
BY DcdcInvariant, PTL DEF IInv

(***************************************************************************)
(* Outside nanogrid mode low power stops the converter in time.            *)
(***************************************************************************)
THEOREM DcdcLowPowerStops == Spec => []LowPowerStops
<1>1. TypeOK /\ IInv => LowPowerStops
  BY DcdcAssumption DEF DcdcAssumption, TypeOK, IInv, Aged, Powered, LowPowerStops
<1>. QED
  BY <1>1, DcdcTypeOK, DcdcInvariant, PTL

(***************************************************************************)
(* With its limits intact the bridge is started by nobody but Start.       *)
(***************************************************************************)
LEMMA OnlyStartStarts ==
  ASSUME TypeOK, IInv, [Next]_vars, Starts, Intact
  PROVE  Start /\ pc = "start"
<1>1. ~FuseStart
  BY DEF FuseStart, FuseStep, IInv, Limits
<1>2. enabled' # enabled
  BY DEF Starts
<1>3. Start
  BY <1>1, <1>2, BridgeSteps DEF Starts
<1>. QED
  BY <1>3 DEF Start

(***************************************************************************)
(* A restart before the restart interval, or with the output MOSFET off,   *)
(* needs an alert during the very call that starts.                        *)
(***************************************************************************)
THEOREM DcdcRestsBeforeRestart == Spec => RestsBeforeRestart
<1>1. TypeOK /\ IInv /\ [Next]_vars
        => [(Starts /\ Intact) => raced \/ (sinceStop >= RestartInterval /\ hvs)]_vars
  BY OnlyStartStarts DEF IInv, Prepared
<1>. QED
  BY <1>1, DcdcTypeOK, DcdcInvariant, PTL DEF Spec, RestsBeforeRestart

(***************************************************************************)
(* Every start, hurried by an alert or not, comes after calls that found   *)
(* the start conditions met for the whole inhibit time.                    *)
(***************************************************************************)
THEOREM DcdcSettledStart == Spec => SettledStart
<1>1. TypeOK /\ IInv /\ [Next]_vars => [(Starts /\ Intact) => sinceUnfit >= InhibitTime]_vars
  BY OnlyStartStarts DEF IInv, Prepared
<1>. QED
  BY <1>1, DcdcTypeOK, DcdcInvariant, PTL DEF Spec, SettledStart

(***************************************************************************)
(* A running converter moves its duty by one step at most: with a minimum  *)
(* duty of at least one step, uint16_t never wraps.                        *)
(***************************************************************************)
THEOREM DcdcDutyStepwise == Spec => DutyStepwise
<1>1. TypeOK /\ TypeOK' /\ IInv /\ [Next]_vars
        => [(enabled /\ enabled' /\ Intact) => ccr' - ccr \in -StepSize .. StepSize]_vars
  <2> SUFFICES ASSUME TypeOK, TypeOK', IInv, [Next]_vars, enabled, enabled', Intact
               PROVE  ccr' - ccr \in -StepSize .. StepSize
    OBVIOUS
  <2> USE HalfBridgeAssumption, DcdcAssumption DEF HalfBridgeAssumption, DcdcAssumption
  <2>1. ccr \in CcrMin .. CcrMax /\ tim_ccr_min = CcrMin /\ tim_ccr_max = CcrMax
    BY DEF TypeOK, IInv, Limits, Intact
  <2>2. CASE PerturbObserve
    <3>1. pwm_direction' \in {-1, 1}
      BY <2>2 DEF PerturbObserve, TypeOK, stop, half_bridge_stop
    <3>2. NextCcr \in {ccr - StepSize, ccr + StepSize}
      <4>1. CASE pwm_direction' = 1
        BY <2>1, <4>1 DEF NextCcr
      <4>2. CASE pwm_direction' = -1
        <5>1. pwm_direction' * StepSize = -StepSize
          BY <4>2
        <5>. QED
          BY <2>1, <5>1 DEF NextCcr
      <4>. QED
        BY <3>1, <4>1, <4>2
    <3>3. uint16(NextCcr) = NextCcr
      BY <2>1, <3>2, Fitting
    <3>4. ccr' = clamp_ccr(NextCcr, CcrMin, CcrMax)
      BY <2>1, <2>2, <3>1, <3>3 DEF PerturbObserve, half_bridge_set_ccr
    <3>. QED
      BY <2>1, <3>2, <3>4 DEF clamp_ccr
  <2>3. CASE ~PerturbObserve
    <3>1. ~Prepare /\ ~FuseInit /\ ~FuseDuty
      BY DEF Prepare, FuseInit, FuseDuty, FuseStep, IInv, Opened, Limits, Broken
    <3>2. ccr' = ccr
      BY <2>3, <3>1, BridgeSteps
    <3>. QED
      BY <3>2, <2>1
  <2>. QED
    BY <2>2, <2>3
<1>. QED
  BY <1>1, DcdcTypeOK, DcdcInvariant, PTL DEF Spec, DutyStepwise
===============================================================================
