------------------------------ MODULE HalfBridge ------------------------------
(***************************************************************************)
(* The PWM timer of the half bridge (app/src/half_bridge.c): the output    *)
(* enable bit, the capture/compare register and the limits that            *)
(* clamp_ccr() keeps it in.  Its functions are the operators below; each   *)
(* constrains the variables the function assigns.                          *)
(*                                                                         *)
(* The timer is TIM1, TIM3 or HRTIM1, depending on the board.  Dead time   *)
(* and the trigger of the ADC are left out, and so is the frequency: the   *)
(* register keeps its scale when fuse_destruction() initializes the timer  *)
(* for another one, and nothing is claimed of the duty after that.         *)
(***************************************************************************)
EXTENDS Integers

CONSTANTS
  Arr,        \* auto-reload register: the register value for a duty of 100%
  CcrMin,     \* limits for the minimum duty 12 V / hs_voltage_max
  CcrMax,     \* and the maximum duty 0.97
  CcrFuse     \* limit for the maximum duty 0.98 set by Dcdc::fuse_destruction()

ASSUME HalfBridgeAssumption ==
  /\ Arr \in Nat /\ CcrMin \in Nat /\ CcrMax \in Nat /\ CcrFuse \in Nat
  /\ 0 < CcrMin
  /\ CcrMin < CcrMax
  /\ CcrMax <= CcrFuse
  /\ CcrFuse <= Arr
  /\ Arr < 32768

VARIABLES
  enabled,     \* half_bridge_enabled()
  ccr,         \* capture/compare register
  tim_ccr_min,
  tim_ccr_max

bridge == <<enabled, ccr, tim_ccr_min, tim_ccr_max>>

\* Conversion of an int to uint16_t.
uint16(n) == n % 65536

\* (Only the upper limit is kept.)
clamp_ccr_high(n, min, max) == IF n >= max THEN max ELSE n

clamp_ccr(n, min, max) == IF n <= min THEN min ELSE IF n >= max THEN max ELSE n

half_bridge_set_ccr(n) ==
  /\ ccr' = clamp_ccr(uint16(n), tim_ccr_min, tim_ccr_max)
  /\ UNCHANGED <<tim_ccr_min, tim_ccr_max>>

\* A duty, in units of the register, above 1 is ignored.
half_bridge_set_duty_cycle(duty) ==
  IF duty \in 0 .. Arr
  THEN half_bridge_set_ccr(duty)
  ELSE UNCHANGED <<ccr, tim_ccr_min, tim_ccr_max>>

\* TIM1 and TIM3 are not started with an empty register, HRTIM1 is.
tim_start == enabled' = (enabled \/ ccr # 0)
hrtim_start == enabled' = TRUE
half_bridge_start(timer) == IF timer = "HRTIM1" THEN hrtim_start ELSE tim_start

half_bridge_stop == enabled' = FALSE

half_bridge_init(min, max) ==
  /\ tim_ccr_min' = min
  /\ tim_ccr_max' = max
  /\ ccr' = clamp_ccr(max, min, max)

HalfBridgeInit ==
  /\ enabled = FALSE
  /\ tim_ccr_min = CcrMin
  /\ tim_ccr_max = CcrMax
  /\ ccr = CcrMax
===============================================================================
