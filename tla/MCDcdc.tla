-------------------------------- MODULE MCDcdc --------------------------------
EXTENDS Dcdc

Solar == [exceeded |-> FALSE, start |-> "BUCK", duty |-> 3, forward |-> TRUE, leak |-> FALSE,
          limit |-> FALSE, low |-> FALSE, power |-> 1]

\* A solar panel: its power over the duty, the maximum power point at 4.
MaximumPowerPoint == 4
Curve == <<0, 0, 1, 2, 1, 0, 0>>
Panel(on, c) == {[Solar EXCEPT !.power = IF on /\ c \in 1 .. 7 THEN Curve[c] ELSE 0]}

\* Anything may be measured while the converter runs; with a shorted MOSFET also while it
\* does not.
Storm(on) ==
  IF on
  THEN {[Solar EXCEPT !.power = p] : p \in {0, 2}}
       \cup {[Solar EXCEPT !.exceeded = TRUE], [Solar EXCEPT !.limit = TRUE, !.power = -2]}
  ELSE {Solar}
Short(on) ==
  IF on
  THEN {[Solar EXCEPT !.power = 2], [Solar EXCEPT !.forward = FALSE, !.power = 0, !.low = TRUE],
        [Solar EXCEPT !.exceeded = TRUE]}
  ELSE {Solar, [Solar EXCEPT !.start = "BOOST", !.duty = Arr + 1, !.leak = TRUE]}

MCMeasured(plant, on, c) ==
  CASE plant = "panel" -> Panel(on, c) [] plant = "storm" -> Storm(on) [] plant = "short" -> Short(on)

Board(mode, timer, fail_safe, plant) ==
  [mode |-> mode, timer |-> timer, fail_safe |-> fail_safe, plant |-> plant]
MCConfs == {Board("BUCK", "TIM1", FALSE, "panel"), Board("BUCK", "TIM3", FALSE, "storm"),
            Board("AUTO", "HRTIM1", TRUE, "short")}

(***************************************************************************)
(* Left alone with a solar panel, enabled and without errors, the          *)
(* converter ends up within one step of the maximum power point, from      *)
(* whatever state alerts and the user have left it in.                     *)
(***************************************************************************)
Tracks ==
  (/\ conf.plant = "panel"
   /\ <>[](enable /\ error_flags = {})
   /\ <>[][~OvervoltageAlert]_vars)
  => <>[](enabled /\ ccr - MaximumPowerPoint \in -1 .. 1)
===============================================================================
