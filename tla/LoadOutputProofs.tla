--------------------------- MODULE LoadOutputProofs ---------------------------
(***************************************************************************)
(* Theorems about LoadOutput for all delays, debounce counts and sets of   *)
(* measurements.                                                           *)
(*                                                                         *)
(* The argument follows the thread through one call.  At and Seen read     *)
(* through a pending Store: At is the place control() has reached, Seen    *)
(* the flags it will find there if no interrupt adds one.  Interrupts only *)
(* add flags and open the switch, and a Store can drop only what an        *)
(* interrupt added, so what the thread itself put into Seen stays.         *)
(***************************************************************************)
EXTENDS LoadOutput, TLAPS

At   == IF pc = "store" THEN ret ELSE pc
Seen == IF pc = "store" THEN reg ELSE error_flags

\* Before the trip, a measurement that demands to open has left a flag.
Recorded ==
  /\ At \in {"bus_src", "shedding", "overvoltage", "trip"} /\ sample.overcurrent
       => Seen # {}
  /\ At \in {"shedding", "overvoltage", "trip"} /\ sample.margin \in {"slight", "none"}
       => Seen # {}
  /\ At \in {"overvoltage", "trip"} /\ sample.voltage = "low"
       => Seen # {}

\* After the trip, a closed switch has no reason to be open, or was closed just now.
Tripped ==
  /\ At = "stamp" => ~switch
  /\ At = "obey" /\ switch => error_flags = {} /\ ~Demands(sample)
  /\ At = "report" /\ switch /\ exposed > 0 => error_flags = {} /\ ~Demands(sample)

\* A call that has taken the off branch starts without exposure.
FreshOff ==
  /\ At \in OffSteps => exposed = 0
  /\ At = "idle" /\ exposed > 0 => switch

\* A detected fault keeps its flag until its delay has passed.
Latched ==
  /\ ocAge <= sinceOc
  /\ lvdAge <= sinceLvd
  /\ sinceOc <= OcRecoveryDelay => Overcurrent \in Seen
  /\ sinceLvd <= LvdRecoveryDelay => Shedding \in Seen
  /\ pc = "close" => sinceOc > OcRecoveryDelay /\ sinceLvd > LvdRecoveryDelay

Places ==
  pc = "store" => ret \in (OnSteps \cup OffSteps) \ {"overcurrent", "obey", "close", "mark"}

IInv ==
  /\ Places
  /\ SwitchIsKnown
  /\ Recorded
  /\ Tripped
  /\ FreshOff
  /\ ExposureBounded
  /\ Latched
-------------------------------------------------------------------------------
(***************************************************************************)
(* Every state of the load output is well typed: flags, ages and the       *)
(* debounce counter stay in their ranges, the thread at a known place.     *)
(***************************************************************************)
THEOREM LoadTypeOK == Spec => []TypeOK
<1>1. Init => TypeOK
  <2> SUFFICES ASSUME Init PROVE TypeOK
    OBVIOUS
  <2>1. switch \in BOOLEAN /\ enable \in BOOLEAN /\ shorted \in BOOLEAN
    BY DEF Init
  <2>. QED
    BY <2>1, LoadAssumption DEF LoadAssumption, Init, TypeOK, Step
<1>2. TypeOK /\ [Next]_vars => TypeOK'
  <2> SUFFICES ASSUME TypeOK, [Next]_vars PROVE TypeOK'
    OBVIOUS
  <2> USE LoadAssumption DEF LoadAssumption, TypeOK, output, objects, timers, ages, history, register,
          thread, Examine
  <2>1. CASE BeginControl
    BY <2>1 DEF BeginControl, Step, OnSteps, OffSteps
  <2>2. CASE CheckOvercurrent
    BY <2>2 DEF CheckOvercurrent, Update, Step, OnSteps, Flag, Overcurrent
  <2>3. CASE CheckBusSrc
    BY <2>3 DEF CheckBusSrc, Update, Step, OnSteps, Flag, BusSrcCurrent
  <2>4. CASE CheckShedding
    <3>1. reg' \subseteq Flag
      BY <2>4 DEF CheckShedding, Update, Flag
    <3>2. pc' \in Step /\ ret' \in Step \ {"store"}
      BY <2>4 DEF CheckShedding, Update, Step, OnSteps
    <3>. QED
      BY <2>4, <3>1, <3>2 DEF CheckShedding
  <2>5. CASE CheckOvervoltage
    BY <2>5 DEF CheckOvervoltage, Update, Step, OnSteps, Flag, Overvoltage
  <2>6. CASE Trip
    BY <2>6 DEF Trip, Update, Step, OnSteps
  <2>7. CASE Stamp
    BY <2>7 DEF Stamp, Step, OnSteps
  <2>8. CASE Obey
    BY <2>8 DEF Obey, Step
  <2>9. CASE ClearShedding
    BY <2>9 DEF ClearShedding, Update, Step, OffSteps
  <2>10. CASE ClearOvercurrent
    BY <2>10 DEF ClearOvercurrent, Update, Step, OffSteps
  <2>11. CASE ClearOvervoltage
    BY <2>11 DEF ClearOvervoltage, Update, Step, OffSteps
  <2>12. CASE ClearBusSrc
    BY <2>12 DEF ClearBusSrc, Update, Step, OffSteps
  <2>13. CASE ClearShort
    BY <2>13 DEF ClearShort, Update, Step, OffSteps
  <2>14. CASE Decide
    BY <2>14 DEF Decide, Step, OffSteps
  <2>15. CASE SwitchOn
    BY <2>15 DEF SwitchOn, Step, OffSteps, history
  <2>16. CASE Store
    BY <2>16 DEF Store, Step
  <2>17. CASE Report
    BY <2>17 DEF Report, Step
  <2>18. CASE Interrupt
    <3>1. PICK flag \in Flag : InterruptStop(flag)
      BY <2>18 DEF Interrupt, ShortCircuitStop, VoltageDipStop, Flag
    <3>2. shorted' \in BOOLEAN
      BY <3>1, Zenon DEF InterruptStop
    <3>3. error_flags' \subseteq Flag
      BY <3>1 DEF InterruptStop
    <3>4. /\ switch' = FALSE /\ state' = "OFF" /\ ocAge' = 0 /\ exposed' = 0
          /\ UNCHANGED <<info, enable, lvdAge, ov_debounce_counter, sample, thread, sinceOc,
                         sinceLvd>>
      BY <3>1, Zenon DEF InterruptStop
    <3>5. ocAge' \in 0 .. OcRecoveryDelay + 1 /\ exposed' \in 0 .. 2
      BY <3>4
    <3>. QED
      BY <3>2, <3>3, <3>4, <3>5
  <2>19. CASE SetEnable
    BY <2>19 DEF SetEnable
  <2>20. CASE Tick
    BY <2>20 DEF Tick, Older
  <2>21. CASE UNCHANGED vars
    BY <2>21 DEF vars
  <2>. QED
    BY <2>1, <2>2, <2>3, <2>4, <2>5, <2>6, <2>7, <2>8, <2>9, <2>10, <2>11, <2>12, <2>13,
       <2>14, <2>15, <2>16, <2>17, <2>18, <2>19, <2>20, <2>21
       DEF Next, Control, OnBranch, OffBranch
<1>. QED
  BY <1>1, <1>2, PTL DEF Spec
-------------------------------------------------------------------------------
(***************************************************************************)
(* The inductive invariant of the load output.                             *)
(***************************************************************************)
THEOREM LoadInvariant == Spec => []IInv
<1>1. Init => IInv
  BY LoadAssumption DEF LoadAssumption, Init, IInv, Places, SwitchIsKnown, Recorded, Tripped,
     FreshOff, ExposureBounded, Latched, At, Seen, OffSteps
<1>2. TypeOK /\ TypeOK' /\ IInv /\ [Next]_vars => IInv'
  <2> SUFFICES ASSUME TypeOK, TypeOK', IInv, [Next]_vars PROVE IInv'
    OBVIOUS
  <2> USE LoadAssumption DEF LoadAssumption, TypeOK, output, objects, timers, ages, history, register,
          thread, IInv, OnSteps, OffSteps, At, Seen, Examine
  <2>1. CASE BeginControl
    BY <2>1 DEF BeginControl, Places, SwitchIsKnown, Recorded, Tripped, FreshOff,
       ExposureBounded, Latched, Demands
  <2>2. CASE CheckOvercurrent
    BY <2>2 DEF CheckOvercurrent, Update, Places, SwitchIsKnown, Recorded, Tripped, FreshOff,
       ExposureBounded, Latched, Demands, Shedding, Overcurrent
  <2>3. CASE CheckBusSrc
    BY <2>3 DEF CheckBusSrc, Update, Places, SwitchIsKnown, Recorded, Tripped, FreshOff,
       ExposureBounded, Latched, Demands, Shedding, Overcurrent
  <2>4. CASE CheckShedding
    BY <2>4 DEF CheckShedding, Update, Places, SwitchIsKnown, Recorded, Tripped, FreshOff,
       ExposureBounded, Latched, Demands, Shedding, Overcurrent
  <2>5. CASE CheckOvervoltage
    BY <2>5 DEF CheckOvervoltage, Update, Places, SwitchIsKnown, Recorded, Tripped, FreshOff,
       ExposureBounded, Latched, Demands, Shedding, Overcurrent
  <2>6. CASE Trip
    <3>1. (Places /\ SwitchIsKnown)'
      BY <2>6 DEF Trip, Update, Places, SwitchIsKnown
    <3>2. (Recorded /\ Tripped)'
      BY <2>6 DEF Trip, Update, Places, Recorded, Tripped, FreshOff, Demands
    <3>3. (FreshOff /\ ExposureBounded)'
      BY <2>6 DEF Trip, Update, SwitchIsKnown, Tripped, FreshOff, ExposureBounded, Demands
    <3>4. Latched'
      BY <2>6 DEF Trip, Update, Places, Latched
    <3>. QED
      BY <3>1, <3>2, <3>3, <3>4
  <2>7. CASE Stamp
    BY <2>7 DEF Stamp, Places, SwitchIsKnown, Recorded, Tripped, FreshOff, ExposureBounded,
       Latched, Demands
  <2>8. CASE Obey
    BY <2>8 DEF Obey, Places, SwitchIsKnown, Recorded, Tripped, FreshOff, ExposureBounded,
       Latched, Demands
  <2>9. CASE ClearShedding
    BY <2>9 DEF ClearShedding, Update, Places, SwitchIsKnown, Recorded, Tripped, FreshOff,
       ExposureBounded, Latched, Demands, Shedding, Overcurrent
  <2>10. CASE ClearOvercurrent
    BY <2>10 DEF ClearOvercurrent, Update, Places, SwitchIsKnown, Recorded, Tripped, FreshOff,
       ExposureBounded, Latched, Demands, Shedding, Overcurrent, VoltageDip
  <2>11. CASE ClearOvervoltage
    BY <2>11 DEF ClearOvervoltage, Update, Places, SwitchIsKnown, Recorded, Tripped, FreshOff,
       ExposureBounded, Latched, Demands, Shedding, Overcurrent, Overvoltage
  <2>12. CASE ClearBusSrc
    BY <2>12 DEF ClearBusSrc, Update, Places, SwitchIsKnown, Recorded, Tripped, FreshOff,
       ExposureBounded, Latched, Demands, Shedding, Overcurrent, BusSrcCurrent
  <2>13. CASE ClearShort
    BY <2>13 DEF ClearShort, Update, Places, SwitchIsKnown, Recorded, Tripped, FreshOff,
       ExposureBounded, Latched, Demands, Shedding, Overcurrent, ShortCircuit
  <2>14. CASE Decide
    BY <2>14 DEF Decide, Places, SwitchIsKnown, Recorded, Tripped, FreshOff, ExposureBounded,
       Latched, Demands
  <2>15. CASE SwitchOn
    <3>1. (Places /\ SwitchIsKnown)'
      BY <2>15 DEF SwitchOn, Places, SwitchIsKnown
    <3>2. (Recorded /\ Tripped)'
      BY <2>15 DEF SwitchOn, Places, Recorded, Tripped, FreshOff, Demands
    <3>3. (FreshOff /\ ExposureBounded)'
      BY <2>15 DEF SwitchOn, SwitchIsKnown, Tripped, FreshOff, ExposureBounded, Demands
    <3>4. Latched'
      BY <2>15 DEF SwitchOn, Places, Latched
    <3>. QED
      BY <3>1, <3>2, <3>3, <3>4
  <2>16. CASE Store
    <3>1. (Places /\ SwitchIsKnown)'
      BY <2>16 DEF Store, Places, SwitchIsKnown
    <3>2. (Recorded /\ Tripped)'
      BY <2>16 DEF Store, Places, Recorded, Tripped, FreshOff, Demands
    <3>3. (FreshOff /\ ExposureBounded)'
      BY <2>16 DEF Store, SwitchIsKnown, Tripped, FreshOff, ExposureBounded, Demands
    <3>4. Latched'
      BY <2>16 DEF Store, Places, Latched
    <3>. QED
      BY <3>1, <3>2, <3>3, <3>4
  <2>17. CASE Report
    <3>1. (Places /\ SwitchIsKnown)'
      BY <2>17 DEF Report, Places, SwitchIsKnown
    <3>2. (Recorded /\ Tripped)'
      BY <2>17 DEF Report, Places, Recorded, Tripped, FreshOff, Demands
    <3>3. (FreshOff /\ ExposureBounded)'
      BY <2>17 DEF Report, SwitchIsKnown, Tripped, FreshOff, ExposureBounded, Demands
    <3>4. Latched'
      BY <2>17 DEF Report, Places, Latched
    <3>. QED
      BY <3>1, <3>2, <3>3, <3>4
  <2>18. CASE Interrupt
    <3>1. (Places /\ SwitchIsKnown)'
      BY <2>18 DEF Interrupt, ShortCircuitStop, VoltageDipStop, InterruptStop, Places,
         SwitchIsKnown
    <3>2. (Recorded /\ Tripped)'
      BY <2>18 DEF Interrupt, ShortCircuitStop, VoltageDipStop, InterruptStop, Places, Recorded,
         Tripped, FreshOff, Demands
    <3>3. (FreshOff /\ ExposureBounded)'
      BY <2>18 DEF Interrupt, ShortCircuitStop, VoltageDipStop, InterruptStop, SwitchIsKnown,
         Tripped, FreshOff, ExposureBounded, Demands
    <3>4. Latched'
      BY <2>18 DEF Interrupt, ShortCircuitStop, VoltageDipStop, InterruptStop, Places, Latched
    <3>. QED
      BY <3>1, <3>2, <3>3, <3>4
  <2>19. CASE SetEnable
    BY <2>19 DEF SetEnable, Places, SwitchIsKnown, Recorded, Tripped, FreshOff, ExposureBounded,
       Latched, Demands
  <2>20. CASE Tick
    BY <2>20 DEF Tick, Older, Places, SwitchIsKnown, Recorded, Tripped, FreshOff,
       ExposureBounded, Latched, Demands
  <2>21. CASE UNCHANGED vars
    BY <2>21 DEF vars, Places, SwitchIsKnown, Recorded, Tripped, FreshOff, ExposureBounded,
       Latched, Demands
  <2>. QED
    BY <2>1, <2>2, <2>3, <2>4, <2>5, <2>6, <2>7, <2>8, <2>9, <2>10, <2>11, <2>12, <2>13,
       <2>14, <2>15, <2>16, <2>17, <2>18, <2>19, <2>20, <2>21
       DEF Next, Control, OnBranch, OffBranch
<1>. QED
  BY <1>1, <1>2, LoadTypeOK, PTL DEF Spec

-------------------------------------------------------------------------------
(***************************************************************************)
(* The load is never left powered with state OFF: every interleaving of    *)
(* LoadOutput::stop() with LoadOutput::control() is covered.               *)
(***************************************************************************)
THEOREM LoadSwitchIsKnown == Spec => []SwitchIsKnown
BY LoadInvariant, PTL DEF IInv

(***************************************************************************)
(* At most one call of LoadOutput::control() in a row ends with the load   *)
(* powered against an error flag or against its own measurement.           *)
(***************************************************************************)
THEOREM LoadExposureBounded == Spec => []ExposureBounded
BY LoadInvariant, PTL DEF IInv

(***************************************************************************)
(* The load is powered again only after both recovery delays, whatever     *)
(* their lengths.                                                          *)
(***************************************************************************)
THEOREM LoadRecoveryDelays == Spec => RecoveryDelays
<1>1. TypeOK /\ IInv /\ [Next]_vars
        => [(~switch /\ switch') =>
               sinceOc > OcRecoveryDelay /\ sinceLvd > LvdRecoveryDelay]_vars
  <2> SUFFICES ASSUME TypeOK, IInv, [Next]_vars, ~switch, switch'
               PROVE  sinceOc > OcRecoveryDelay /\ sinceLvd > LvdRecoveryDelay
    OBVIOUS
  <2>1. pc = "close"
    BY DEF Next, Control, BeginControl, OnBranch, OffBranch, CheckOvercurrent, CheckBusSrc,
       CheckShedding, CheckOvervoltage, Trip, Stamp, Obey, ClearShedding, ClearOvercurrent,
       ClearOvervoltage, ClearBusSrc, ClearShort, Decide, SwitchOn, Store, Report, Interrupt,
       ShortCircuitStop, VoltageDipStop, InterruptStop, SetEnable, Tick, vars, Examine,
       output
  <2>. QED
    BY <2>1 DEF IInv, Latched
<1>. QED
  BY <1>1, LoadTypeOK, LoadInvariant, PTL DEF Spec, RecoveryDelays
===============================================================================
