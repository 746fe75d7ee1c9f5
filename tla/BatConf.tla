-------------------------------- MODULE BatConf --------------------------------
(***************************************************************************)
(* The battery configuration: factory settings by battery type, the        *)
(* plausibility check and the copy from one configuration to another       *)
(* (app/src/bat_charger.cpp).                                              *)
(*                                                                         *)
(* Voltages are in mV, currents in mA, capacities in Ah, and resistances   *)
(* in mV of drop at DISCHARGE_CURRENT_MAX, so that all arithmetic of the   *)
(* code is exact here.  The code computes in floats: the outcome of the    *)
(* check may differ where two sides are equal, as the cut-off current of   *)
(* C/10 and a tenth of the capacity are when that is no multiple of 5 Ah.  *)
(* Fields that neither the check nor the copy nor a communication          *)
(* interface touches are left out (ocv_*, time_limit_recharge,             *)
(* discharge_current_max), and of the equalization settings two stand for  *)
(* all six.                                                                *)
(***************************************************************************)
EXTENDS Integers

CONSTANT DISCHARGE_CURRENT_MAX       \* in A, of the board

ASSUME BatConfAssumption == DISCHARGE_CURRENT_MAX \in Nat \ {0}

(***************************************************************************)
(* Per cell: `drop' is the voltage drop of internal_resistance at          *)
(* DISCHARGE_CURRENT_MAX, `cutoff' the topping cut-off current for 1 Ah.   *)
(***************************************************************************)
LeadAcidCell ==
  [absolute_max |-> 2450, topping |-> 2400, recharge |-> 2200,
   disconnect |-> 1950, reconnect |-> 2100, absolute_min |-> 1600,
   drop |-> 150, cutoff |-> 40, float_enabled |-> TRUE,
   float |-> 2300, equalization |-> 2450, charge_temp_min |-> -10]

LithiumCell ==
  [LeadAcidCell EXCEPT !.cutoff = 100, !.float_enabled = FALSE, !.float = 0,
                       !.equalization = 0, !.charge_temp_min = 0]

NmcCell ==
  [LithiumCell EXCEPT !.absolute_max = 4250, !.topping = 4200, !.recharge = 3900,
                      !.disconnect = 3300, !.reconnect = 3600, !.absolute_min = 2500,
                      !.drop = 165]

Cell ==
  [FLOODED |-> [LeadAcidCell EXCEPT !.float = 2350, !.equalization = 2500],
   AGM     |-> LeadAcidCell,
   GEL     |-> LeadAcidCell,
   LFP     |-> [LithiumCell EXCEPT !.absolute_max = 3600, !.topping = 3550, !.recharge = 3350,
                                   !.disconnect = 3000, !.reconnect = 3150,
                                   !.absolute_min = 2000],
   NMC     |-> NmcCell,
   NMC_HV  |-> [NmcCell EXCEPT !.absolute_max = 4400, !.topping = 4350],
   CUSTOM  |-> [LeadAcidCell EXCEPT !.recharge = 2300, !.drop = 5 * DISCHARGE_CURRENT_MAX,
                                    !.charge_temp_min = 0]]

BatType == DOMAIN Cell

battery_conf_init(type, num_cells, nominal_capacity) ==
  LET cell == Cell[type]
  IN  [nominal_capacity         |-> nominal_capacity,
       topping_voltage          |-> num_cells * cell.topping,
       recharge_voltage         |-> num_cells * cell.recharge,
       load_reconnect_voltage   |-> num_cells * cell.reconnect,
       load_disconnect_voltage  |-> num_cells * cell.disconnect,
       absolute_max_voltage     |-> num_cells * cell.absolute_max,
       absolute_min_voltage     |-> num_cells * cell.absolute_min,
       charge_current_max       |-> nominal_capacity * 1000,
       topping_cutoff_current   |-> nominal_capacity * cell.cutoff,
       topping_duration         |-> 120 * 60,
       float_enabled            |-> cell.float_enabled,
       float_voltage            |-> num_cells * cell.float,
       float_recharge_time      |-> IF cell.float_enabled THEN 30 * 60 ELSE 0,
       charge_temp_max          |-> 50,
       charge_temp_min          |-> cell.charge_temp_min,
       discharge_temp_max       |-> 50,
       discharge_temp_min       |-> -10,
       temperature_compensation |-> CASE type = "CUSTOM" -> -3 * num_cells
                                      [] cell.float_enabled /\ type # "CUSTOM" -> -3
                                      [] OTHER -> 0,
       internal_resistance      |-> num_cells * cell.drop,
       wire_resistance          |-> 0,
       equalization_enabled     |-> FALSE,
       equalization_voltage     |-> num_cells * cell.equalization]

\* A configuration as it is before anything has written to it.
Blank ==
  [field \in DOMAIN battery_conf_init("GEL", 6, 0) |->
     IF field \in {"float_enabled", "equalization_enabled"} THEN FALSE ELSE 0]

battery_conf_check(conf) ==
  /\ conf.load_reconnect_voltage > conf.load_disconnect_voltage + 400
  /\ conf.recharge_voltage < conf.topping_voltage - 400
  /\ conf.recharge_voltage > conf.load_disconnect_voltage + 1000
  /\ conf.load_disconnect_voltage > conf.absolute_min_voltage + 400
  /\ conf.internal_resistance * 10 < conf.load_disconnect_voltage
  /\ conf.wire_resistance * 100 < conf.topping_voltage * 3
  /\ conf.topping_cutoff_current < conf.nominal_capacity * 100
  /\ conf.topping_cutoff_current > 10
  /\ conf.float_enabled => /\ conf.float_voltage < conf.topping_voltage
                           /\ conf.float_voltage > conf.load_disconnect_voltage

(***************************************************************************)
(* What battery_conf_overwrite() copies, in its order.  The nominal        *)
(* capacity comes last, and the equalization settings are not among them.  *)
(***************************************************************************)
CopyOrder ==
  <<"topping_voltage", "recharge_voltage", "load_reconnect_voltage",
    "load_disconnect_voltage", "absolute_max_voltage", "absolute_min_voltage",
    "charge_current_max", "topping_cutoff_current", "topping_duration", "float_enabled",
    "float_voltage", "float_recharge_time", "charge_temp_max", "charge_temp_min",
    "discharge_temp_max", "discharge_temp_min", "temperature_compensation",
    "internal_resistance", "wire_resistance", "nominal_capacity">>

Copied == {CopyOrder[i] : i \in DOMAIN CopyOrder}

battery_conf_overwrite(source, destination) ==
  [field \in DOMAIN destination |->
     IF field \in Copied THEN source[field] ELSE destination[field]]
===============================================================================
