------------------------------- MODULE MCCharger -------------------------------
EXTENDS Charger

Empty == [voltage |-> AbsoluteMin, filtered |-> AbsoluteMin, over |-> FALSE,
          reserve |-> "hysteresis", charge |-> "inside", discharge |-> "inside", cutoff |-> FALSE]
Topped == [Empty EXCEPT !.voltage = ToppingTarget, !.filtered = ToppingTarget, !.over = TRUE,
                        !.reserve = "above"]

LeadAcid == [float_enabled |-> TRUE, equalization_enabled |-> TRUE]
Lithium == [float_enabled |-> FALSE, equalization_enabled |-> FALSE]
MCBatConfs == {LeadAcid, [LeadAcid EXCEPT !.float_enabled = FALSE], Lithium}

MCSamples ==
  {Empty, Topped, [Topped EXCEPT !.over = FALSE, !.cutoff = TRUE],
   [Empty EXCEPT !.voltage = 0, !.reserve = "under", !.charge = "edge",
                 !.discharge = "outside"],
   [Topped EXCEPT !.charge = "outside"]}
===============================================================================
