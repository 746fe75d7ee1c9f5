--------------------------------- MODULE Energy ---------------------------------
(***************************************************************************)
(* Energy counters and peak values: PowerPort::energy_balance(),           *)
(* DeviceStatus::update_energy() and update_min_max_values(), called once  *)
(* per second by the main loop, the copies in the persistent storage, and  *)
(* restarts.                                                               *)
(*                                                                         *)
(* Energies come in parts, Wh of which make a watt-hour: the counters of   *)
(* the day hold parts, the totals whole watt-hours.  A second of the main  *)
(* loop is one step: threads of lower priority wait, and the control       *)
(* thread touches none of this.  The storage is written at arbitrary       *)
(* moments, as a whole or not at all (module Configuration).  The maxima   *)
(* of voltages, currents and temperatures work like peak_total without a   *)
(* value of the day and are left out, and so are writes by the maker.      *)
(***************************************************************************)
EXTENDS Integers

CONSTANTS
  Counters,         \* those of "solar", "load", "chg" and "dis" the board has
  Wh,               \* parts in a watt-hour
  MaxPower,         \* parts in a second, at most
  Night,            \* 5 hours, in seconds
  MaxEnergy,        \* bound on the energy of a counter
  MaxStarts         \* bound on sunrises and restarts

ASSUME EnergyAssumption ==
  /\ Counters \subseteq {"solar", "load", "chg", "dis"}
  /\ Wh \in Nat \ {0}
  /\ MaxPower \in Nat
  /\ Night \in Nat
  /\ MaxEnergy \in Nat /\ MaxStarts \in Nat

VARIABLES
  day,                  \* energies since sunrise (xxx_energy_Wh)
  total, prev,          \* xxx_total_Wh, xxx_total_Wh_prev
  first_call,
  seconds_zero_solar,   \* up to one more than Night
  peak_day, peak_total, \* xxx_power_max_day, xxx_power_max_total
  stored                \* the totals and peaks in the storage

(***************************************************************************)
(* History, read by the properties only: what has gone through the ports,  *)
(* how often the counting started anew, the highest power ever; of all of  *)
(* them, what they were when the storage was written.                      *)
(***************************************************************************)
VARIABLES energy, starts, highest, known

counting == <<day, total, prev, first_call, seconds_zero_solar>>
peaks == <<peak_day, peak_total>>
energyHistory == <<energy, starts, highest, known>>
energyVars == <<counting, peaks, stored, energyHistory>>

Peaks == Counters \ {"chg", "dis"}
Zero == [c \in Counters |-> 0]
NoPeak == [c \in Peaks |-> 0]
EmptyTotals == [total |-> Zero, peak_total |-> NoPeak]
Unknown == [energy |-> Zero, starts |-> 0, highest |-> NoPeak]

EnergyInit ==
  /\ day = Zero /\ total = Zero /\ prev = Zero
  /\ first_call = TRUE
  /\ seconds_zero_solar = 0
  /\ peak_day = NoPeak /\ peak_total = NoPeak
  /\ stored = EmptyTotals
  /\ energy = Zero /\ starts = 0
  /\ highest = NoPeak
  /\ known = Unknown

-------------------------------------------------------------------------------
\* What a second adds to the counters: the battery is either charged or discharged.
Gains ==
  {gain \in [Counters -> 0 .. MaxPower] :
     {"chg", "dis"} \subseteq Counters => gain["chg"] = 0 \/ gain["dis"] = 0}

energy_balance(gain) == [c \in Counters |-> day[c] + gain[c]]

Whole(parts) == [c \in Counters |-> parts[c] \div Wh]

\* (The sunrise sets the counters of the day back and keeps the totals of the day before.)
ForgetDay(balance, sunrise) ==
  /\ prev' = IF first_call THEN total ELSE prev
  /\ day' = IF sunrise THEN Zero ELSE balance
  /\ total' = [c \in Counters |-> prev'[c] + Whole(day')[c]]

Count(balance, sunrise) ==
  /\ prev' = IF sunrise \/ first_call THEN total ELSE prev
  /\ day' = IF sunrise THEN Zero ELSE balance
  /\ total' = [c \in Counters |-> prev'[c] + Whole(day')[c]]

update_energy(balance, dark) ==
  /\ Count(balance, ~dark /\ seconds_zero_solar > Night)
  /\ first_call' = FALSE
  /\ seconds_zero_solar' = CASE ~dark -> 0
                             [] dark /\ seconds_zero_solar <= Night -> seconds_zero_solar + 1
                             [] OTHER -> seconds_zero_solar

\* (The total peak is compared with what the peak of the day has been.)
PeakLate(power) ==
  LET above == {c \in Peaks : power[c] > peak_day[c]}
  IN  /\ peak_day' = [c \in Peaks |-> IF c \in above THEN power[c] ELSE peak_day[c]]
      /\ peak_total' = [c \in Peaks |-> IF c \in above /\ peak_day[c] > peak_total[c]
                                        THEN peak_day[c] ELSE peak_total[c]]

update_min_max_values(power) ==
  LET above == {c \in Peaks : power[c] > peak_day[c]}
  IN  /\ peak_day' = [c \in Peaks |-> IF c \in above THEN power[c] ELSE peak_day[c]]
      /\ peak_total' = [c \in Peaks |-> IF c \in above /\ power[c] > peak_total[c]
                                        THEN power[c] ELSE peak_total[c]]

Higher(a, b) == IF a > b THEN a ELSE b

Second ==
  \E gain \in Gains, dark \in BOOLEAN :
    LET sunrise == ~dark /\ seconds_zero_solar > Night
    IN  /\ \A c \in Counters : energy[c] + gain[c] <= MaxEnergy
        /\ sunrise => starts < MaxStarts
        /\ update_energy(energy_balance(gain), dark)
        /\ update_min_max_values(gain)
        /\ UNCHANGED stored
        /\ energy' = [c \in Counters |-> energy[c] + gain[c]]
        /\ starts' = IF sunrise THEN starts + 1 ELSE starts
        /\ highest' = [c \in Peaks |-> Higher(gain[c], highest[c])]
        /\ UNCHANGED known

\* data_storage_update(), or a change of the configuration.
Store ==
  /\ stored' = [total |-> total, peak_total |-> peak_total]
  /\ known' = [energy |-> energy, starts |-> starts, highest |-> highest]
  /\ UNCHANGED <<counting, peaks, energy, starts, highest>>

(***************************************************************************)
(* The counters of the day are not stored, and the static variables begin  *)
(* anew.  If the supply has failed during a write, start-up refuses the    *)
(* record and the totals begin at zero.                                    *)
(***************************************************************************)
Restart ==
  \E whole \in BOOLEAN :
    LET r == IF whole THEN stored ELSE EmptyTotals
        k == IF whole THEN known ELSE Unknown
    IN  /\ k.starts < MaxStarts
        /\ total' = r.total
        /\ peak_total' = r.peak_total
        /\ stored' = r
        /\ day' = Zero /\ prev' = Zero
        /\ first_call' = TRUE
        /\ seconds_zero_solar' = 0
        /\ peak_day' = NoPeak
        /\ energy' = k.energy
        /\ starts' = k.starts + 1
        /\ highest' = k.highest
        /\ known' = k

EnergyNext == Second \/ Store \/ Restart

EnergySpec == EnergyInit /\ [][EnergyNext]_energyVars

-------------------------------------------------------------------------------
\* The values of the counters, and that a restart leaves none of the day.
EnergyTypeOK ==
  /\ \A f \in {day, total, prev, energy, stored.total, known.energy} : f \in [Counters -> Nat]
  /\ \A f \in {peak_day, peak_total, highest, stored.peak_total, known.highest} :
       f \in [Peaks -> 0 .. MaxPower]
  /\ first_call \in BOOLEAN
  /\ seconds_zero_solar \in 0 .. Night + 1
  /\ starts \in Nat /\ known.starts \in Nat
  /\ first_call => day = Zero

(***************************************************************************)
(* A total never shows energy that has not passed the port, and it misses  *)
(* less than a watt-hour and one second for every time the counting began  *)
(* anew, at sunrise or after a restart; what a restart forgets besides is  *)
(* what had happened since the storage was last written                    *)
(* (update_energy(): the totals are prev plus the day, rounded down).      *)
(***************************************************************************)
LossPerStart == Wh - 1 + MaxPower
Accounted ==
  \A c \in Counters :
    /\ total[c] * Wh <= energy[c]
    /\ energy[c] - total[c] * Wh <= starts * LossPerStart + Wh - 1

(***************************************************************************)
(* Totals never fall but by a restart, and then to what has been stored:   *)
(* not at sunrise either, when the counters of the day are set back        *)
(* (update_energy() takes prev before).                                    *)
(***************************************************************************)
NeverFalls ==
  [][\/ \A c \in Counters : total'[c] >= total[c]
     \/ first_call' /\ total' = stored'.total]_energyVars

(***************************************************************************)
(* The all-time peak is the highest power there has been, that of days     *)
(* before a restart included (update_min_max_values() compares with it     *)
(* only when the peak of the day is exceeded).                             *)
(***************************************************************************)
PeakOfAllTime == peak_total = highest
===============================================================================
