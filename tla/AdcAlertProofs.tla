----------------------------- MODULE AdcAlertProofs -----------------------------
(***************************************************************************)
(* Theorems about AdcAlert for all filter constants, delays and periods.   *)
(*                                                                         *)
(* The delay of a report is measured against the debounce counter: both    *)
(* grow by one with each sample at or above the limit, so their difference *)
(* is fixed until an edge puts the counter back.  An edge finds the        *)
(* counter at 1 at most, or the alert would have been called, and after it *)
(* the time since the edge takes the place of the counter.  Level reads    *)
(* the counter through an interrupt that is under way.                     *)
(***************************************************************************)
EXTENDS AdcAlert, TLAPS

\* Samples since the last edge, and those of them that have been examined.
SinceEdge == Period - phase
Examined == IF isr \in {"count", "check"} THEN SinceEdge - 1 ELSE SinceEdge

\* What the counter was before the sample that is examined, or will be after it.
Level ==
  CASE isr = "idle" -> debounce_ms
    [] isr = "count" -> reg - 1
    [] isr = "check" -> debounce_ms - 1
    [] isr = "reset" -> 0

\* A sample at or above the limit is taken only while there is room to count it.
Room == isr \in {"count", "check"} /\ reading >= limit => held < Longest

\* The counter follows the samples: it never leads them, so it does not wrap.
Counted ==
  /\ -StartInhibit <= Level \/ (isr = "check" /\ -StartInhibit <= Level + 1)
  /\ Level <= held
  /\ waiting > 0 => Level <= 1
  /\ isr = "reset" => waiting = 0

\* What the wait can exceed the counter by: the start, or the start and one edge.
Delayed ==
  \/ waiting <= Level + StartInhibit
  \/ Level = Examined - PulseInhibit /\ waiting <= StartInhibit + 2 + Examined

\* The counter of an inhibited alert lags the edge.
Lagging ==
  inhibited /\ ~undone =>
    /\ Level <= Examined - PulseInhibit
    /\ isr = "reset" => SinceEdge >= PulseInhibit

IInv == Room /\ Counted /\ Delayed /\ Lagging /\ PulseTolerated
-------------------------------------------------------------------------------
(***************************************************************************)
(* The quotient of a filtered value in range is in range itself.           *)
(***************************************************************************)
LEMMA Quotient ==
  ASSUME NEW W \in Nat \ {0}, NEW y \in Nat
  PROVE  /\ y \div W \in Nat
         /\ y = W * (y \div W) + (y % W)
         /\ y % W \in 0 .. W - 1
  BY SMT

(***************************************************************************)
(* A product of naturals is one.                                           *)
(***************************************************************************)
LEMMA Product ==
  ASSUME NEW m \in Nat, NEW W \in Nat
  PROVE  m * W \in Nat
BY SMT

(***************************************************************************)
(* The filter keeps its value between 0 and the largest reading, scaled:   *)
(* the 32-bit sum of adc_update_value() cannot overflow.                   *)
(***************************************************************************)
LEMMA FilterBounded ==
  ASSUME NEW W \in Nat \ {0}, NEW m \in Nat, NEW x \in 0 .. m, NEW y \in 0 .. m * W
  PROVE  x + y - (y \div W) \in 0 .. m * W
<1> DEFINE q == y \div W
           r == y % W
<1>2. m * W \in Nat
  BY Product
<1>1. q \in Nat /\ y = W * q + r /\ r \in 0 .. W - 1
  <2>1. y \in Nat
    BY <1>2, SMT
  <2> QED BY <2>1, Quotient
<1> HIDE DEF q, r
<1>3. q <= y
  <2>1. W * q >= q
    BY <1>1, SMT
  <2> QED BY <1>1, <2>1, SMT
<1>4. x + y - q >= 0
  BY <1>1, <1>3, SMT
<1>5. CASE q >= m
  <2>1. W * q >= W * m
    BY <1>1, <1>5, SMT
  <2>2. y <= q * W /\ r = 0 /\ W * q = W * m
    BY <1>1, <2>1, SMT
  <2> QED BY <1>1, <1>2, <1>4, <1>5, <2>2, SMT DEF q
<1>6. CASE q < m
  <2>1. (m - 1 - q) * (W - 1) >= 0
    BY <1>1, <1>6, SMT
  <2>2. m * W - (x + y - q) >= 0
    <3>1. (m - 1 - q) * (W - 1) = m * W - m - W + 1 - q * W + q
      BY <1>1, SMT
    <3> QED BY <1>1, <2>1, <3>1, SMT
  <2> QED BY <1>1, <1>2, <1>4, <2>2, SMT DEF q
<1> QED BY <1>1, <1>5, <1>6, SMT
-------------------------------------------------------------------------------
(***************************************************************************)
(* Every state of the channel is well typed: the filter stays in range and *)
(* the counter in the width of its type.                                   *)
(***************************************************************************)
THEOREM AdcTypeCorrect == Spec => [](TypeOK /\ Room)
<1> USE AdcAssumption
<1>1. Init => TypeOK /\ Room
  <2>1. MaxReading * Weight \in Nat
    BY Product DEF AdcAssumption
  <2> SUFFICES ASSUME Init
               PROVE  TypeOK /\ Room
    OBVIOUS
  <2>2. filtered \in 0 .. MaxReading * Weight
    BY <2>1, SMT DEF Init
  <2>3. debounce_ms \in -HalfRange .. HalfRange - 1 /\ reg \in -HalfRange + 1 .. HalfRange
    BY SMT DEF AdcAssumption, Init
  <2>4. held \in 0 .. Longest /\ waiting \in Nat
    BY SMT DEF AdcAssumption, Init
  <2> QED BY <2>2, <2>3, <2>4 DEF AdcAssumption, Init, TypeOK, Room
<1>2. TypeOK /\ Room /\ [Next]_vars => TypeOK' /\ Room'
  <2> SUFFICES ASSUME TypeOK, Room, [Next]_vars
               PROVE  TypeOK' /\ Room'
    OBVIOUS
  <2> USE DEF AdcAssumption, TypeOK, filter, alert, dma, pwm, history
  <2>1. CASE Convert
    <3>1. filtered' \in 0 .. MaxReading * Weight
      <4>1. reading' \in 0 .. MaxReading
        BY <2>1 DEF Convert
      <4>2. filtered' = reading' + filtered - (filtered \div Weight)
        BY <2>1 DEF Convert, Filter
      <4> QED BY <4>1, <4>2, FilterBounded
    <3>2. reg' \in -HalfRange + 1 .. HalfRange
      BY <2>1, SMT DEF Convert
    <3>3. phase' \in 0 .. Period
      BY <2>1, SMT DEF Convert
    <3>4. Room'
      <4>1. held < Longest \/ reading' < limit
        BY <2>1 DEF Convert
      <4>2. reading' \in Nat /\ limit \in Nat
        <5>1. reading' \in Nat
          BY <2>1, SMT DEF Convert
        <5>2. NoLimit \in Nat
          BY SMT DEF NoLimit
        <5> QED BY <5>1, <5>2
      <4>3. reading' < limit => ~(reading' >= limit)
        BY <4>2, SMT
      <4> QED BY <2>1, <4>1, <4>3 DEF Convert, Room
    <3> QED BY <2>1, <3>1, <3>2, <3>3, <3>4 DEF Convert
  <2>2. CASE Count
    <3>1. int16(reg) \in -HalfRange .. HalfRange - 1
      BY SMT DEF int16
    <3>2. 0 \in -HalfRange + 1 .. HalfRange
      BY SMT
    <3> QED BY <2>2, <3>1, <3>2 DEF Count, Room
  <2>3. CASE Exceeded
    <3>1. held < Longest
      BY <2>3 DEF Exceeded, Room
    <3>2. held' \in 0 .. Longest
      BY <2>3, <3>1, SMT DEF Exceeded
    <3>3. waiting' \in Nat /\ called' \in BOOLEAN
      BY <2>3, SMT DEF Exceeded
    <3> QED BY <2>3, <3>2, <3>3 DEF Exceeded, Room
  <2>4. CASE Normal
    <3>1. held' \in 0 .. Longest /\ waiting' \in Nat
      BY <2>4, SMT DEF Normal
    <3> QED BY <2>4, <3>1 DEF Normal, Room
  <2>5. CASE Reset
    <3>1. debounce_ms' \in -HalfRange .. HalfRange - 1
      BY <2>5, SMT DEF Reset
    <3> QED BY <2>5, <3>1 DEF Reset, Room
  <2>6. CASE Edge
    <3>1. debounce_ms' \in -HalfRange .. HalfRange - 1
      <4>1. CASE pulsing
        BY <2>6, <4>1, SMT DEF Edge, adc_upper_alert_inhibit
      <4>2. CASE ~pulsing
        BY <2>6, <4>2 DEF Edge
      <4> QED BY <4>1, <4>2
    <3>2. phase' \in 0 .. Period
      BY <2>6, SMT DEF Edge
    <3>3. inhibited' \in BOOLEAN /\ undone' \in BOOLEAN
      BY <2>6 DEF Edge
    <3> QED BY <2>6, <3>1, <3>2, <3>3 DEF Edge, Room
  <2>7. CASE SetLimit
    BY <2>7 DEF SetLimit, Room
  <2>8. CASE Inhibit
    <3>1. debounce_ms' \in -HalfRange .. HalfRange - 1
      BY <2>8, SMT DEF Inhibit, adc_upper_alert_inhibit
    <3>2. waiting' \in Nat
      BY <2>8, SMT DEF Inhibit
    <3> QED BY <2>8, <3>1, <3>2 DEF Inhibit, Room
  <2>9. CASE Start
    BY <2>9 DEF Start, Room
  <2>10. CASE SetDuty
    BY <2>10 DEF SetDuty, Room
  <2>11. CASE UNCHANGED vars
    BY <2>11 DEF vars, Room
  <2> QED BY <2>1, <2>2, <2>3, <2>4, <2>5, <2>6, <2>7, <2>8, <2>9, <2>10, <2>11 DEF Next, Sample
<1> QED BY <1>1, <1>2, PTL DEF Spec
-------------------------------------------------------------------------------
(***************************************************************************)
(* The channel starts with nothing counted.                                *)
(***************************************************************************)
LEMMA AdcInitially == Init => IInv
BY AdcAssumption, SMT
   DEF AdcAssumption, Init, IInv, Room, Counted, Delayed, Lagging, PulseTolerated, SinceEdge,
       Examined, Level

(***************************************************************************)
(* While the counter does not lead the samples, counting does not wrap.    *)
(***************************************************************************)
LEMMA NoWrap ==
  ASSUME TypeOK, Counted, isr = "count"
  PROVE  int16(reg) = reg
<1>1. reg - 1 <= Longest
  BY AdcAssumption, SMT DEF AdcAssumption, TypeOK, Counted, Level
<1> QED BY <1>1, AdcAssumption, SMT DEF AdcAssumption, TypeOK, int16

(***************************************************************************)
(* A new reading moves counter and clock together.                         *)
(***************************************************************************)
LEMMA ConvertStep ==
  ASSUME TypeOK, IInv, Convert, Room'
  PROVE  IInv'
BY AdcAssumption, SMT
   DEF AdcAssumption, TypeOK, IInv, Convert, Counted, Delayed, Lagging, PulseTolerated,
       SinceEdge, Examined, Level, history

(***************************************************************************)
(* The increment carries out what Level has counted already.               *)
(***************************************************************************)
LEMMA CountStep ==
  ASSUME TypeOK, IInv, Count, Room'
  PROVE  IInv'
<1>1. debounce_ms' = reg /\ isr = "count" /\ isr' = "check"
  BY NoWrap DEF IInv, Count
<1>2. Level' = Level /\ Examined' = Examined /\ SinceEdge' = SinceEdge
  BY <1>1, AdcAssumption, SMT DEF AdcAssumption, TypeOK, Count, Level, Examined, SinceEdge, pwm
<1> QED BY <1>1, <1>2 DEF IInv, Count, Counted, Delayed, Lagging, PulseTolerated, history

(***************************************************************************)
(* A sample above the limit: either the alert is called, which needs a     *)
(* counter that has caught up, or the wait grows with the counter.         *)
(***************************************************************************)
LEMMA ExceededStep ==
  ASSUME TypeOK, IInv, Exceeded, Room'
  PROVE  IInv'
<1> USE AdcAssumption DEF AdcAssumption, TypeOK, IInv, Exceeded, SinceEdge, Examined, Level, pwm
<1>1. CASE called'
  <2>1. debounce_ms > 1 /\ waiting' = 0
    BY <1>1
  <2>2. Counted' /\ Delayed' /\ Lagging'
    BY <2>1, SMT DEF Counted, Delayed, Lagging
  <2>3. inhibited /\ ~undone => Period - phase >= PulseInhibit + 2
    BY <2>1, SMT DEF Lagging
  <2> QED BY <2>2, <2>3 DEF PulseTolerated, Tolerated
<1>2. CASE ~called'
  <2>1. ~(debounce_ms > 1) /\ waiting' = waiting + 1
    BY <1>2
  <2>2. Counted' /\ Delayed' /\ Lagging'
    BY <2>1, SMT DEF Counted, Delayed, Lagging
  <2> QED BY <1>2, <2>2 DEF PulseTolerated
<1> QED BY <1>1, <1>2

(***************************************************************************)
(* A sample below the limit ends the wait, and starts a reset only of a    *)
(* counter that is positive.                                               *)
(***************************************************************************)
LEMMA NormalStep ==
  ASSUME TypeOK, IInv, Normal, Room'
  PROVE  IInv'
BY AdcAssumption, SMT
   DEF AdcAssumption, TypeOK, IInv, Normal, CloseToTriggering, Counted, Delayed, Lagging,
       PulseTolerated, SinceEdge, Examined, Level, pwm

(***************************************************************************)
(* The reset ends at the counter Level has counted already.                *)
(***************************************************************************)
LEMMA ResetStep ==
  ASSUME TypeOK, IInv, Reset, Room'
  PROVE  IInv'
BY AdcAssumption, SMT
   DEF AdcAssumption, TypeOK, IInv, Reset, Counted, Delayed, Lagging, PulseTolerated, SinceEdge,
       Examined, Level, pwm, history

(***************************************************************************)
(* An edge puts the counter back and starts the clock anew: the wait so    *)
(* far is at most the counter and the delay of the start.                  *)
(***************************************************************************)
LEMMA EdgeStep ==
  ASSUME TypeOK, IInv, Edge, Room'
  PROVE  IInv'
<1> USE AdcAssumption
    DEF AdcAssumption, TypeOK, IInv, Edge, dma, SinceEdge, Examined, Level
<1>1. waiting <= Level + StartInhibit
  BY SMT DEF Counted, Delayed
<1>2. CASE pulsing
  <2>1. debounce_ms' = -PulseInhibit
    BY <1>2 DEF adc_upper_alert_inhibit
  <2>2. Counted'
    BY <1>1, <2>1, SMT DEF Counted
  <2>3. Delayed'
    BY <1>1, <2>1, SMT DEF Counted, Delayed
  <2>4. Lagging'
    <3>1. isr' = isr /\ reg' = reg /\ phase' = Period
      OBVIOUS
    <3>2. ~undone' => isr \in {"idle", "check"}
      OBVIOUS
    <3>3. isr = "idle" => Level' = Examined' - PulseInhibit
      BY <2>1, <3>1, SMT
    <3>4. isr = "check" => Level' = Examined' - PulseInhibit
      BY <2>1, <3>1, SMT
    <3>5. Level' \in Int /\ Examined' \in Int
      BY <2>1, <3>1, SMT
    <3> QED BY <3>1, <3>2, <3>3, <3>4, <3>5, SMT DEF Lagging
  <2> QED BY <2>2, <2>3, <2>4 DEF PulseTolerated
<1>3. CASE ~pulsing
  <2>1. UNCHANGED debounce_ms /\ inhibited' = FALSE
    BY <1>3
  <2>2. Counted' /\ Delayed'
    BY <1>1, <2>1, SMT DEF Counted, Delayed
  <2> QED BY <2>1, <2>2 DEF Lagging, PulseTolerated
<1> QED BY <1>2, <1>3

(***************************************************************************)
(* The start of the switch ends the wait and puts the counter back.        *)
(***************************************************************************)
LEMMA InhibitStep ==
  ASSUME TypeOK, IInv, Inhibit, Room'
  PROVE  IInv'
BY AdcAssumption, SMT
   DEF AdcAssumption, TypeOK, IInv, Inhibit, adc_upper_alert_inhibit, Counted, Delayed,
       Lagging, PulseTolerated, SinceEdge, Examined, Level, dma

(***************************************************************************)
(* The steps that move neither the counter nor the clock.                  *)
(***************************************************************************)
LEMMA OtherStep ==
  ASSUME IInv, Room', UNCHANGED <<debounce_ms, dma, history, phase>>, called' => called
  PROVE  IInv'
BY DEF IInv, Counted, Delayed, Lagging, PulseTolerated, Tolerated, SinceEdge, Examined, Level,
       dma, history

(***************************************************************************)
(* The inductive invariant of the channel.                                 *)
(***************************************************************************)
THEOREM AdcInvariant == Spec => []IInv
<1>1. TypeOK /\ IInv /\ Room' /\ [Next]_vars => IInv'
  <2> SUFFICES ASSUME TypeOK, IInv, Room', [Next]_vars
               PROVE  IInv'
    OBVIOUS
  <2>1. CASE Convert
    BY <2>1, ConvertStep
  <2>2. CASE Count
    BY <2>2, CountStep
  <2>3. CASE Exceeded
    BY <2>3, ExceededStep
  <2>4. CASE Normal
    BY <2>4, NormalStep
  <2>5. CASE Reset
    BY <2>5, ResetStep
  <2>6. CASE Edge
    BY <2>6, EdgeStep
  <2>7. CASE Inhibit
    BY <2>7, InhibitStep
  <2>8. CASE SetLimit \/ Start \/ SetDuty
    BY <2>8, OtherStep DEF SetLimit, Start, SetDuty, pwm
  <2>9. CASE UNCHANGED vars
    BY <2>9, OtherStep DEF vars, alert, pwm
  <2> QED BY <2>1, <2>2, <2>3, <2>4, <2>5, <2>6, <2>7, <2>8, <2>9 DEF Next, Sample
<1> QED BY <1>1, AdcInitially, AdcTypeCorrect, PTL DEF Spec

(***************************************************************************)
(* Every state of the channel is well typed.                               *)
(***************************************************************************)
THEOREM AdcTypeOK == Spec => []TypeOK
BY AdcTypeCorrect, PTL

(***************************************************************************)
(* For all delays: an overvoltage is reported once it has lasted for the   *)
(* inhibition by a start, that by one edge, and the debounce.              *)
(***************************************************************************)
THEOREM AdcDetectionBounded == Spec => []DetectionBounded
<1>1. TypeOK /\ IInv => DetectionBounded
  <2> SUFFICES ASSUME TypeOK, IInv
               PROVE  DetectionBounded
    OBVIOUS
  <2> USE AdcAssumption DEF AdcAssumption, TypeOK, IInv, DetectionBounded
  <2>1. Level \in Int /\ Examined \in Int
    BY SMT DEF Level, Examined, SinceEdge
  <2>2. waiting > 0 => Level <= 1
    BY DEF Counted
  <2>3. CASE waiting <= Level + StartInhibit
    BY <2>1, <2>2, <2>3, SMT
  <2>4. CASE Level = Examined - PulseInhibit /\ waiting <= StartInhibit + 2 + Examined
    BY <2>1, <2>2, <2>4, SMT
  <2> QED BY <2>3, <2>4 DEF Delayed
<1> QED BY <1>1, AdcTypeOK, AdcInvariant, PTL

(***************************************************************************)
(* For all delays: no alert is called until PulseInhibit samples after an  *)
(* edge that inhibits it, and the debounce, have passed, unless the edge   *)
(* hit the interrupt.                                                      *)
(***************************************************************************)
THEOREM AdcPulseTolerated == Spec => []PulseTolerated
<1>1. IInv => PulseTolerated
  BY DEF IInv
<1> QED BY <1>1, AdcInvariant, PTL
===============================================================================
