----------------------------- MODULE StorageProofs -----------------------------
(***************************************************************************)
(* Proofs about what the storage keeps.  Configuration: with one           *)
(* communication thread only plausible configurations get into force, and  *)
(* at rest there is one; the storage implements SnapshotStore whatever the *)
(* number of threads; a lithium battery keeps its factory settings.        *)
(* Energy: no energy is counted twice, what is lost is bounded, totals     *)
(* never fall and the all-time peak is one.                                *)
(***************************************************************************)
EXTENDS Configuration, Energy, TLAPS

\* The settings by name.
LEMMA SettingNames ==
  Settings = Copied \cup {"equalization_enabled", "equalization_voltage"}
  BY SMT DEF Settings, Blank, battery_conf_init, Copied, CopyOrder

\* The check reads nothing that the copy does not write.
LEMMA CheckReadsCopied ==
  ASSUME NEW a, NEW b, \A i \in DOMAIN CopyOrder : a[CopyOrder[i]] = b[CopyOrder[i]],
         battery_conf_check(a)
  PROVE  battery_conf_check(b)
<1>1. DOMAIN CopyOrder = 1 .. 20
  BY DEF CopyOrder
<1>2. /\ a[CopyOrder[1]] = b[CopyOrder[1]] /\ a[CopyOrder[2]] = b[CopyOrder[2]]
      /\ a[CopyOrder[3]] = b[CopyOrder[3]] /\ a[CopyOrder[4]] = b[CopyOrder[4]]
      /\ a[CopyOrder[6]] = b[CopyOrder[6]] /\ a[CopyOrder[8]] = b[CopyOrder[8]]
      /\ a[CopyOrder[10]] = b[CopyOrder[10]] /\ a[CopyOrder[11]] = b[CopyOrder[11]]
      /\ a[CopyOrder[18]] = b[CopyOrder[18]] /\ a[CopyOrder[19]] = b[CopyOrder[19]]
      /\ a[CopyOrder[20]] = b[CopyOrder[20]]
  BY <1>1
<1>3. /\ a.topping_voltage = b.topping_voltage /\ a.recharge_voltage = b.recharge_voltage
      /\ a.load_reconnect_voltage = b.load_reconnect_voltage
      /\ a.load_disconnect_voltage = b.load_disconnect_voltage
      /\ a.absolute_min_voltage = b.absolute_min_voltage
      /\ a.topping_cutoff_current = b.topping_cutoff_current
      /\ a.float_enabled = b.float_enabled /\ a.float_voltage = b.float_voltage
      /\ a.internal_resistance = b.internal_resistance
      /\ a.wire_resistance = b.wire_resistance
      /\ a.nominal_capacity = b.nominal_capacity
  BY <1>2 DEF CopyOrder
<1> QED
  BY <1>3 DEF battery_conf_check

-------------------------------------------------------------------------------
\* The factory settings of a lead-acid battery of five or more cells pass the check.
LeadAcid == Type \in {"FLOODED", "AGM", "GEL"} /\ NumCells >= 5

LEMMA LeadAcidPlausible ==
  ASSUME LeadAcid
  PROVE  battery_conf_check(Factory)
<1>1. NumCells \in Int /\ CapacityAh \in Int /\ CapacityAh >= 10
  BY ConfigurationAssumption
<1>2. Cell[Type] \in {LeadAcidCell, [LeadAcidCell EXCEPT !.float = 2350, !.equalization = 2500]}
  <2>1. /\ Cell["AGM"] = LeadAcidCell /\ Cell["GEL"] = LeadAcidCell
        /\ Cell["FLOODED"] = [LeadAcidCell EXCEPT !.float = 2350, !.equalization = 2500]
    BY DEF Cell
  <2> QED
    BY <2>1 DEF LeadAcid
<1>3. /\ Cell[Type].reconnect = 2100 /\ Cell[Type].disconnect = 1950
      /\ Cell[Type].topping = 2400 /\ Cell[Type].recharge = 2200
      /\ Cell[Type].absolute_min = 1600 /\ Cell[Type].drop = 150
      /\ Cell[Type].cutoff = 40 /\ Cell[Type].float \in {2300, 2350}
  <2>1. CASE Cell[Type] = LeadAcidCell
    BY <2>1 DEF LeadAcidCell
  <2>2. CASE Cell[Type] = [LeadAcidCell EXCEPT !.float = 2350, !.equalization = 2500]
    <3> DEFINE flooded == [LeadAcidCell EXCEPT !.float = 2350, !.equalization = 2500]
    <3>1. /\ flooded.reconnect = 2100 /\ flooded.disconnect = 1950
          /\ flooded.topping = 2400 /\ flooded.recharge = 2200
          /\ flooded.absolute_min = 1600 /\ flooded.drop = 150
          /\ flooded.cutoff = 40 /\ flooded.float = 2350
      BY DEF LeadAcidCell
    <3> QED
      BY <2>2, <3>1
  <2> QED
    BY <1>2, <2>1, <2>2
<1> QED
  BY <1>1, <1>3 DEF LeadAcid, Factory, battery_conf_init, battery_conf_check

OneThread == \A s, t \in Threads : s = t

(***************************************************************************)
(* A copy in progress has a plausible source and agrees with it as far as  *)
(* it has got, and from there on with a plausible configuration; without   *)
(* one the configuration in force is plausible.                            *)
(***************************************************************************)
ConfInv ==
  /\ DOMAIN bat_conf = Settings /\ DOMAIN bat_conf_user = Settings
  /\ DOMAIN pc = Threads
  /\ \A t \in Threads : pc[t].at \in {"accept", "reject"} => pc[t].next \in 1 .. 20
  /\ \A t \in Threads : pc[t].at = "accept" =>
       /\ battery_conf_check(bat_conf_user) /\ battery_conf_check(previous)
       /\ \A i \in 1 .. pc[t].next - 1 : bat_conf[CopyOrder[i]] = bat_conf_user[CopyOrder[i]]
       /\ \A i \in pc[t].next .. 20 : bat_conf[CopyOrder[i]] = previous[CopyOrder[i]]
  /\ ConfInForceValid

LEMMA CopyLength == Len(CopyOrder) = 20 /\ DOMAIN CopyOrder = 1 .. 20
  BY DEF CopyOrder

LEMMA CopiedAreSettings == \A i \in 1 .. 20 : CopyOrder[i] \in Settings /\ CopyOrder[i] \in Copied
  BY CopyLength, SettingNames DEF Copied

LEMMA CopiedOnce ==
  \A i, j \in 1 .. 20 : CopyOrder[i] = CopyOrder[j] => i = j
  BY SMT DEF CopyOrder

\* Start-up puts a plausible configuration in force, whatever it finds in the storage.
\* The record counts, or is taken for empty and the reading for failed; the buffer is free.
LEMMA FromRecord ==
  ASSUME PowerFailure
  PROVE  /\ \E r \in {Empty, record} : Started(r) /\ (~spoiled' => r = record)
         /\ \E failed \in BOOLEAN : Release(failed)
<1>1. PICK unread \in BOOLEAN : Started(IF unread THEN Empty ELSE record) /\ Release(unread)
  BY DEF PowerFailure
<1>2. spoiled' = unread
  BY <1>1 DEF Release
<1>3. CASE unread
  BY <1>1, <1>2, <1>3
<1>4. CASE ~unread
  BY <1>1, <1>2, <1>4
<1> QED
  BY <1>3, <1>4

LEMMA StartedPlausible ==
  ASSUME LeadAcid, NEW r
  PROVE  /\ battery_conf_check(Restored(r).active)
         /\ DOMAIN Restored(r).active = Settings /\ DOMAIN Restored(r).user = Settings
<1> DEFINE initial == battery_conf_overwrite(Factory, Blank)
           user == IF Valid(r)
                   THEN [s \in Settings |-> IF s \in Items THEN r.data[s] ELSE initial[s]]
                   ELSE initial
<1>1. DOMAIN Factory = Settings
  <2>1. DOMAIN Factory = DOMAIN battery_conf_init("GEL", 6, 0)
    BY DEF Factory, battery_conf_init
  <2> QED
    BY <2>1 DEF Settings, Blank
<1>2. DOMAIN user = Settings
  BY DEF battery_conf_overwrite, Settings
<1>3. Restored(r).active = IF battery_conf_check(user) THEN battery_conf_overwrite(user, Factory)
                           ELSE Factory
  BY DEF Restored
<1>4. Restored(r).user = IF battery_conf_check(user) THEN user
                         ELSE battery_conf_overwrite(Factory, user)
  BY DEF Restored
<1>5. ASSUME battery_conf_check(user)
      PROVE  battery_conf_check(battery_conf_overwrite(user, Factory))
  <2>1. \A i \in DOMAIN CopyOrder :
          battery_conf_overwrite(user, Factory)[CopyOrder[i]] = user[CopyOrder[i]]
    BY <1>1, CopyLength, CopiedAreSettings DEF battery_conf_overwrite
  <2> HIDE DEF user
  <2> QED
    BY <1>5, <2>1, CheckReadsCopied
<1> HIDE DEF user
<1>6. battery_conf_check(Restored(r).active)
  BY <1>3, <1>5, LeadAcidPlausible
<1>7. DOMAIN Restored(r).active = Settings
  BY <1>1, <1>3 DEF battery_conf_overwrite
<1>8. DOMAIN Restored(r).user = Settings
  BY <1>2, <1>4 DEF battery_conf_overwrite
<1> QED
  BY <1>6, <1>7, <1>8

LEMMA ConfInit ==
  ASSUME LeadAcid, Init
  PROVE  ConfInv
<1>1. \A t \in Threads : pc[t].at = "idle"
  BY DEF Init, Idle
<1> QED
  BY <1>1, StartedPlausible DEF Init, ConfInv, ConfInForceValid

\* Every step keeps it; with one thread nobody else is in the middle of a copy.
LEMMA ConfStep ==
  ASSUME LeadAcid, OneThread, ConfInv, [Next]_vars
  PROVE  ConfInv'
<1> USE DEF ConfInv, ConfInForceValid
<1>1. ASSUME NEW t \in Threads, Receive(t)
      PROVE  ConfInv'
  <2>1. PICK request \in Requests : pc' = [pc EXCEPT ![t] = [at |-> "write", left |-> request]]
    BY <1>1 DEF Receive, Goto
  <2>2. pc[t].at = "idle" /\ pc'[t].at = "write"
    BY <1>1, <2>1 DEF Receive, Step
  <2> QED
    BY <1>1, <2>1, <2>2 DEF Receive, conf, history, OneThread
<1>2. ASSUME NEW t \in Threads, WriteValue(t)
      PROVE  ConfInv'
  <2>1. pc[t].at = "write" /\ DOMAIN bat_conf_user' = DOMAIN bat_conf_user
    BY <1>2 DEF WriteValue, Step
  <2>2. DOMAIN pc' = Threads /\ pc'[t].at \in {"check", "write"}
    BY <1>2 DEF WriteValue, Goto
  <2> QED
    BY <1>2, <2>1, <2>2 DEF WriteValue, OneThread
<1>3. ASSUME NEW t \in Threads, Check(t)
      PROVE  ConfInv'
  <2>1. pc[t].at = "check" /\ DOMAIN pc' = Threads
    BY <1>3 DEF Check, Step, Goto
  <2>2. pc'[t].at = IF battery_conf_check(bat_conf_user) THEN "accept" ELSE "reject"
    BY <1>3 DEF Check, Goto
  <2>3. pc'[t].next = 1
    BY <1>3 DEF Check, Goto
  <2> QED
    BY <1>3, <2>1, <2>2, <2>3 DEF Check, conf, OneThread
<1>4. ASSUME NEW t \in Threads, Accept(t)
      PROVE  ConfInv'
  <2>1. PICK i \in DOMAIN CopyOrder :
          /\ Assigns(t, i, bat_conf_user, bat_conf)
          /\ bat_conf' = [bat_conf EXCEPT ![CopyOrder[i]] = bat_conf_user[CopyOrder[i]]]
          /\ After(t, i, "limits")
    BY <1>4 DEF Accept
  <2>2. pc[t].at = "accept" /\ bat_conf_user' = bat_conf_user
    BY <1>4 DEF Accept, Step
  <2>3. i \in 1 .. 20 /\ CopyOrder[i] \in Settings
    BY CopyLength, CopiedAreSettings
  <2>4. \A j \in 1 .. i : bat_conf'[CopyOrder[j]] = bat_conf_user[CopyOrder[j]]
    BY <2>1, <2>2, <2>3, CopyLength, CopiedAreSettings DEF Assigns
  <2>5. previous' = previous
        /\ \A j \in i + 1 .. 20 : bat_conf'[CopyOrder[j]] = previous[CopyOrder[j]]
    BY <1>4, <2>1, <2>2, <2>3, CopyLength, CopiedAreSettings, CopiedOnce
       DEF Accept, Assigns, history
  <2>6. CASE i < 20
    <3>1. pc' = [pc EXCEPT ![t] = [at |-> "accept", next |-> i + 1]]
      BY <2>1, <2>2, <2>6, CopyLength DEF After, Goto
    <3>2. pc'[t].at = "accept" /\ pc'[t].next = i + 1
      BY <3>1
    <3> QED
      BY <2>1, <2>2, <2>3, <2>4, <2>5, <2>6, <3>1, <3>2 DEF OneThread
  <2>7. CASE i = 20
    <3>1. pc' = [pc EXCEPT ![t] = [at |-> "limits"]]
      BY <2>1, <2>7, CopyLength DEF After, Goto
    <3>2. battery_conf_check(bat_conf')
      BY <2>2, <2>4, <2>7, CopyLength, CheckReadsCopied
    <3>3. pc'[t].at = "limits"
      BY <3>1
    <3> QED
      BY <2>1, <2>2, <3>1, <3>2, <3>3 DEF OneThread
  <2> QED
    BY <2>3, <2>6, <2>7
<1>5. ASSUME NEW t \in Threads, Reject(t)
      PROVE  ConfInv'
  <2>1. PICK i \in DOMAIN CopyOrder :
          /\ bat_conf_user' = [bat_conf_user EXCEPT ![CopyOrder[i]] = bat_conf[CopyOrder[i]]]
          /\ After(t, i, "store")
    BY <1>5 DEF Reject
  <2>2. pc[t].at = "reject" /\ bat_conf' = bat_conf
    BY <1>5 DEF Reject, Step
  <2>3. i \in 1 .. 20
    BY CopyLength
  <2>4. \/ pc' = [pc EXCEPT ![t] = [at |-> "reject", next |-> i + 1]] /\ i < 20
        \/ pc' = [pc EXCEPT ![t] = [at |-> "store"]]
    BY <2>1, <2>2, CopyLength DEF After, Goto
  <2>5. \/ pc'[t].at = "reject" /\ pc'[t].next = i + 1 /\ i < 20
        \/ pc'[t].at = "store"
    BY <2>4
  <2> QED
    BY <2>1, <2>2, <2>3, <2>4, <2>5 DEF OneThread
<1>6. ASSUME NEW t \in Threads, SetLimits(t) \/ ThreadStore(t) \/ ThreadStored(t)
      PROVE  ConfInv'
  <2>1. /\ bat_conf' = bat_conf /\ bat_conf_user' = bat_conf_user
        /\ pc[t].at \in {"limits", "store", "eeprom"}
    BY <1>6 DEF SetLimits, ThreadStore, ThreadStored, Step, conf
  <2>2. DOMAIN pc' = Threads /\ pc'[t].at \in {"store", "eeprom", "idle"}
    BY <1>6 DEF SetLimits, ThreadStore, ThreadStored, Goto, Idle
  <2> QED
    BY <2>1, <2>2 DEF OneThread
<1>7. ASSUME NEW t \in Threads, ThreadWritePage(t)
      PROVE  ConfInv'
  BY <1>7 DEF ThreadWritePage, conf, history
<1>8. ASSUME data_storage_update \/ MainStep \/ UNCHANGED vars
      PROVE  ConfInv'
  <2>1. UNCHANGED <<conf, pc, previous>>
    BY <1>8 DEF data_storage_update, MainStep, MainStore, MainWritePage, MainStored, vars, history
  <2> QED
    BY <2>1 DEF conf
<1>9. ASSUME PowerFailure
      PROVE  ConfInv'
  <2>1. PICK r : /\ bat_conf' = Restored(r).active /\ bat_conf_user' = Restored(r).user
                 /\ pc' = [t \in Threads |-> Idle]
    BY <1>9, FromRecord DEF PowerFailure, Started
  <2>2. \A t \in Threads : pc'[t].at = "idle"
    BY <2>1 DEF Idle
  <2> QED
    BY <2>1, <2>2, StartedPlausible
<1> QED
  BY <1>1, <1>2, <1>3, <1>4, <1>5, <1>6, <1>7, <1>8, <1>9 DEF Next, ThreadStep

(***************************************************************************)
(* With lead-acid factory settings and one communication thread, nothing a *)
(* client writes, in any pieces and any order, nothing the storage returns *)
(* and no power failure puts a configuration in force that does not pass   *)
(* the plausibility check (data_objects_update_conf(), data_objects_init()).*)
(***************************************************************************)
THEOREM OnlyPlausible == LeadAcid /\ OneThread => (Spec => []ConfInForceValid)
<1>1. LeadAcid /\ OneThread /\ Init => ConfInv
  BY ConfInit
<1>2. LeadAcid /\ OneThread /\ ConfInv /\ [Next]_vars => ConfInv'
  BY ConfStep
<1>3. LeadAcid /\ OneThread => LeadAcid' /\ OneThread'
  BY DEF LeadAcid, OneThread
<1>4. ConfInv => ConfInForceValid
  BY DEF ConfInv
<1> QED
  BY <1>1, <1>2, <1>3, <1>4, PTL DEF Spec

(***************************************************************************)
(* Under the same conditions the control thread, whenever it interrupts a  *)
(* copy, reads the first settings of one plausible configuration and the   *)
(* rest of another, never a value still to be checked.                     *)
(***************************************************************************)
THEOREM CopyOfTwoPlausible == LeadAcid /\ OneThread => (Spec => []OldOrNew)
<1>1. LeadAcid /\ OneThread /\ Init => ConfInv
  BY ConfInit
<1>2. LeadAcid /\ OneThread /\ ConfInv /\ [Next]_vars => ConfInv'
  BY ConfStep
<1>3. LeadAcid /\ OneThread => LeadAcid' /\ OneThread'
  BY DEF LeadAcid, OneThread
<1>4. ConfInv => OldOrNew
  BY CopyLength DEF ConfInv, OldOrNew
<1> QED
  BY <1>1, <1>2, <1>3, <1>4, PTL DEF Spec

-------------------------------------------------------------------------------
(***************************************************************************)
(* Once a write has begun the checksum is that of the buffer; before, and  *)
(* after, a valid record is the one last written as a whole.               *)
(***************************************************************************)
RecordInv ==
  /\ 0 \notin layout
  /\ IF data_buf_lock = "free" \/ page = 0 THEN Valid(record) => record.data = kept
     ELSE record.crc = buf

\* An empty memory is not taken for a record.
LEMMA EmptyInvalid == ~Valid(Empty)
<1>1. "nominal_capacity" \in Items
  BY SettingNames, CopiedAreSettings DEF Items, CopyOrder
<1>2. Empty.crc["nominal_capacity"] = -1
  BY <1>1 DEF Empty, Nothing
<1>3. Empty.data["nominal_capacity"] = 0
  BY <1>1 DEF Empty, Nothing, Blank, Items, Settings
<1> QED
  BY <1>2, <1>3 DEF Valid

LEMMA RecordInit == Init => RecordInv
<1>1. Init => ~Valid(record)
  BY EmptyInvalid DEF Init
<1>2. Init => 0 \notin layout
  BY ConfigurationAssumption DEF Init, EepromPages, NvsPages
<1> QED
  BY <1>1, <1>2 DEF Init, RecordInv

LEMMA RecordStep ==
  ASSUME RecordInv, [Next]_vars
  PROVE  RecordInv'
<1> USE DEF RecordInv, Valid
<1>1. CASE UNCHANGED <<store, kept, layout>>
  BY <1>1 DEF store
<1>2. ASSUME NEW t, BeginStore(t), UNCHANGED <<kept, layout>>
      PROVE  RecordInv'
  BY <1>2 DEF BeginStore
<1>3. ASSUME NEW t, t # "free", WritePage(t), UNCHANGED <<kept, layout>>
      PROVE  RecordInv'
  BY <1>3 DEF WritePage
<1>4. ASSUME NEW failed, Release(failed), UNCHANGED <<record, layout>>
      PROVE  RecordInv'
  BY <1>4 DEF Release
<1>5. ASSUME NEW t \in Threads,
             Receive(t) \/ WriteValue(t) \/ Check(t) \/ Accept(t) \/ Reject(t) \/ SetLimits(t)
      PROVE  UNCHANGED <<store, kept, layout>>
  BY <1>5 DEF Receive, WriteValue, Check, Accept, Reject, SetLimits, history
<1>6. ASSUME NEW t \in Threads, ThreadStore(t) \/ ThreadWritePage(t) \/ ThreadStored(t)
      PROVE  RecordInv'
  BY <1>2, <1>3, <1>4, <1>6, ConfigurationAssumption
     DEF ThreadStore, ThreadWritePage, ThreadStored, EndStore, FailStore, history
<1>7. ASSUME data_storage_update \/ UNCHANGED vars
      PROVE  UNCHANGED <<store, kept, layout>>
  BY <1>7 DEF data_storage_update, vars, history
<1>8. ASSUME MainStep
      PROVE  RecordInv'
  BY <1>2, <1>3, <1>4, <1>8
     DEF MainStep, MainStore, MainWritePage, MainStored, EndStore, FailStore, history
<1>9. ASSUME PowerFailure
      PROVE  RecordInv'
  BY <1>4, <1>9, FromRecord DEF PowerFailure
<1> QED
  BY <1>1, <1>5, <1>6, <1>7, <1>8, <1>9 DEF Next, ThreadStep

LEMMA RecordAlways == Spec => []RecordInv
<1>1. RecordInv /\ [Next]_vars => RecordInv'
  BY RecordStep
<1> QED
  BY <1>1, RecordInit, PTL DEF Spec

(***************************************************************************)
(* A record that start-up takes for valid is one snapshot, as a whole,     *)
(* wherever writes stop or fail, for any number of threads and any layout  *)
(* in pages (data_storage_write(): checksum first, in place).              *)
(***************************************************************************)
THEOREM SnapshotsStayWhole == Spec => []WholeOrNothing
<1>1. RecordInv => WholeOrNothing
  BY DEF RecordInv, WholeOrNothing, Valid
<1> QED
  BY <1>1, RecordAlways, PTL

-------------------------------------------------------------------------------
\* What start-up makes of any record, valid or not.
LEMMA RestoredFields ==
  ASSUME NEW r
  PROVE  /\ DOMAIN Restored(r).active = Settings /\ DOMAIN Restored(r).user = Settings
         /\ Restored(r).active = [s \in Settings |-> Restored(r).active[s]]
         /\ \A s \in Copied : Restored(r).user[s] = Restored(r).active[s]
         /\ \A s \in Settings \ Copied : Restored(r).active[s] = Factory[s]
         /\ Restored(r).active.absolute_max_voltage = Factory.absolute_max_voltage
         /\ Restored(r).user.absolute_max_voltage = Factory.absolute_max_voltage
<1> DEFINE initial == battery_conf_overwrite(Factory, Blank)
           user == IF Valid(r)
                   THEN [s \in Settings |-> IF s \in Items THEN r.data[s] ELSE initial[s]]
                   ELSE initial
<1>1. DOMAIN Factory = Settings /\ Factory = [s \in Settings |-> Factory[s]]
  <2>1. DOMAIN Factory = DOMAIN battery_conf_init("GEL", 6, 0)
    BY DEF Factory, battery_conf_init
  <2>2. Factory = [s \in DOMAIN Factory |-> Factory[s]]
    BY DEF Factory, battery_conf_init
  <2> QED
    BY <2>1, <2>2 DEF Settings, Blank
<1>2. "absolute_max_voltage" \in Copied /\ "absolute_max_voltage" \in Settings
  BY SettingNames DEF Copied, CopyOrder
<1>3. Copied \subseteq Settings
  BY SettingNames
<1>4. DOMAIN initial = Settings /\ initial.absolute_max_voltage = Factory.absolute_max_voltage
  BY <1>2 DEF battery_conf_overwrite, Settings
<1>5. DOMAIN user = Settings /\ user.absolute_max_voltage = Factory.absolute_max_voltage
  BY <1>2, <1>4 DEF Items
<1>6. Restored(r).active = IF battery_conf_check(user) THEN battery_conf_overwrite(user, Factory)
                           ELSE Factory
  BY DEF Restored
<1>7. Restored(r).user = IF battery_conf_check(user) THEN user
                         ELSE battery_conf_overwrite(Factory, user)
  BY DEF Restored
<1> HIDE DEF user, initial
<1>8. /\ battery_conf_overwrite(user, Factory)
           = [s \in Settings |-> IF s \in Copied THEN user[s] ELSE Factory[s]]
      /\ battery_conf_overwrite(Factory, user)
           = [s \in Settings |-> IF s \in Copied THEN Factory[s] ELSE user[s]]
  BY <1>1, <1>5 DEF battery_conf_overwrite
<1>9. CASE battery_conf_check(user)
  <2>1. Restored(r).active = [s \in Settings |-> IF s \in Copied THEN user[s] ELSE Factory[s]]
        /\ Restored(r).user = user
    BY <1>6, <1>7, <1>8, <1>9
  <2> QED
    BY <1>2, <1>3, <1>5, <2>1
<1>10. CASE ~battery_conf_check(user)
  <2>1. Restored(r).user = [s \in Settings |-> IF s \in Copied THEN Factory[s] ELSE user[s]]
        /\ Restored(r).active = Factory
    BY <1>6, <1>7, <1>8, <1>10
  <2> QED
    BY <1>1, <1>2, <1>3, <2>1
<1> QED
  BY <1>9, <1>10

\* A thread goes on, the others stay where they are.
LEMMA Gone ==
  ASSUME DOMAIN pc = Threads, NEW t \in Threads, NEW state, Goto(t, state)
  PROVE  DOMAIN pc' = Threads /\ pc'[t] = state /\ \A other \in Threads \ {t} : pc'[other] = pc[other]
  BY DEF Goto

\* The next setting to copy, or the end of the copy.
LEMMA Advanced ==
  ASSUME DOMAIN pc = Threads, NEW t \in Threads, NEW i \in DOMAIN CopyOrder, NEW done,
         After(t, i, done)
  PROVE  /\ DOMAIN pc' = Threads /\ \A other \in Threads \ {t} : pc'[other] = pc[other]
         /\ \/ pc'[t] = [at |-> pc[t].at, next |-> i + 1] /\ i < 20 /\ i + 1 \in DOMAIN CopyOrder
            \/ pc'[t] = [at |-> done] /\ i = 20
<1>1. i \in 1 .. 20 /\ Len(CopyOrder) = 20 /\ DOMAIN CopyOrder = 1 .. 20
  BY CopyLength
<1>2. CASE i < 20
  <2>1. Goto(t, [at |-> pc[t].at, next |-> i + 1])
    BY <1>1, <1>2 DEF After
  <2> QED
    BY <1>1, <1>2, <2>1, Gone
<1>3. CASE i = 20
  <2>1. Goto(t, [at |-> done])
    BY <1>1, <1>3 DEF After
  <2> QED
    BY <1>1, <1>3, <2>1, Gone
<1> QED
  BY <1>1, <1>2, <1>3

\* A thread at one of the steps of its program, with what it still has to do.
Placed(state) ==
  /\ state.at \in {"idle", "write", "check", "accept", "reject", "limits", "store", "eeprom"}
  /\ state.at = "write" => DOMAIN state.left \subseteq Items
  /\ state.at \in {"accept", "reject"} => state.next \in DOMAIN CopyOrder

Owned ==
  /\ \A t \in Threads : pc[t].at = "eeprom" <=> data_buf_lock = t
  /\ main_pc \in {"idle", "wait", "eeprom"}
  /\ main_pc = "eeprom" <=> data_buf_lock = "main"
  /\ data_buf_lock \in Threads \cup {"main", "free"}

TypeInv ==
  /\ DOMAIN bat_conf = Settings /\ DOMAIN bat_conf_user = Settings
  /\ DOMAIN pc = Threads /\ \A t \in Threads : Placed(pc[t])
  /\ Owned
  /\ page \in layout \cup {0}

LEMMA TypeInit == Init => TypeInv
<1> SUFFICES ASSUME Init
             PROVE  TypeInv
  OBVIOUS
<1>1. \A t \in Threads : pc[t].at = "idle"
  BY DEF Init, Idle
<1>2. "free" \notin Threads /\ "main" \notin Threads
  BY ConfigurationAssumption
<1>3. Owned
  BY <1>1, <1>2 DEF Init, Owned
<1>4. \A t \in Threads : Placed(pc[t])
  BY <1>1 DEF Placed
<1> QED
  BY <1>3, <1>4, RestoredFields DEF Init, TypeInv

LEMMA TypeStep ==
  ASSUME TypeInv, [Next]_vars
  PROVE  TypeInv'
<1>a. "free" \notin Threads /\ "main" \notin Threads
  BY ConfigurationAssumption
<1>d. DOMAIN pc = Threads
  BY DEF TypeInv
\* A step of one thread that neither takes the buffer nor gives it back.
<1>0. ASSUME NEW t \in Threads, pc[t].at # "eeprom", pc'[t].at # "eeprom", Placed(pc'[t]),
             DOMAIN pc' = Threads, \A other \in Threads \ {t} : pc'[other] = pc[other],
             UNCHANGED <<main_pc, store, layout>>,
             DOMAIN bat_conf' = DOMAIN bat_conf, DOMAIN bat_conf_user' = DOMAIN bat_conf_user
      PROVE  TypeInv'
  <2>1. \A other \in Threads : Placed(pc'[other])
    BY <1>0 DEF TypeInv
  <2>2. Owned'
    BY <1>0 DEF TypeInv, Owned, store
  <2> QED
    BY <1>0, <2>1, <2>2 DEF TypeInv, Placed, store
<1>1. ASSUME NEW t \in Threads, Receive(t)
      PROVE  TypeInv'
  <2>1. PICK request \in Requests : Goto(t, [at |-> "write", left |-> request])
    BY <1>1 DEF Receive
  <2>2. /\ DOMAIN pc' = Threads /\ pc'[t] = [at |-> "write", left |-> request]
        /\ \A other \in Threads \ {t} : pc'[other] = pc[other]
    BY <1>d, <2>1, Gone
  <2>3. pc[t].at = "idle" /\ UNCHANGED <<conf, main_pc, store, layout>>
    BY <1>1 DEF Receive, Step
  <2>4. Placed(pc'[t]) /\ pc'[t].at = "write"
    BY <2>2, ConfigurationAssumption DEF Placed
  <2> QED
    BY <1>0, <2>2, <2>3, <2>4 DEF conf
<1>2. ASSUME NEW t \in Threads, WriteValue(t)
      PROVE  TypeInv'
  <2>1. PICK s \in DOMAIN pc[t].left :
          /\ bat_conf_user' = [bat_conf_user EXCEPT ![s] = pc[t].left[s]]
          /\ Goto(t, IF DOMAIN pc[t].left \ {s} = {} THEN [at |-> "check"]
                     ELSE [at |-> "write",
                           left |-> [r \in DOMAIN pc[t].left \ {s} |-> pc[t].left[r]]])
    BY <1>2 DEF WriteValue
  <2> DEFINE rest == DOMAIN pc[t].left \ {s}
  <2>2. pc[t].at = "write" /\ DOMAIN pc[t].left \subseteq Items
    BY <1>2 DEF WriteValue, Step, TypeInv, Placed
  <2>3. /\ DOMAIN pc' = Threads /\ \A other \in Threads \ {t} : pc'[other] = pc[other]
        /\ pc'[t] = IF rest = {} THEN [at |-> "check"]
                    ELSE [at |-> "write", left |-> [r \in rest |-> pc[t].left[r]]]
    BY <1>d, <2>1, Gone
  <2>4. Placed(pc'[t]) /\ pc'[t].at # "eeprom"
    <3>1. CASE rest = {}
      <4>1. pc'[t].at = "check"
        BY <2>3, <3>1
      <4> QED
        BY <4>1 DEF Placed
    <3>2. CASE rest # {}
      <4>1. pc'[t].at = "write" /\ pc'[t].left = [r \in rest |-> pc[t].left[r]]
        BY <2>3, <3>2
      <4> QED
        BY <2>2, <4>1 DEF Placed
    <3> QED
      BY <3>1, <3>2
  <2>5. DOMAIN bat_conf_user' = DOMAIN bat_conf_user
    BY <2>1
  <2> QED
    BY <1>0, <1>2, <2>2, <2>3, <2>4, <2>5 DEF WriteValue
<1>3. ASSUME NEW t \in Threads, Check(t)
      PROVE  TypeInv'
  <2>1. /\ DOMAIN pc' = Threads /\ \A other \in Threads \ {t} : pc'[other] = pc[other]
        /\ pc'[t] = [at |-> IF battery_conf_check(bat_conf_user) THEN "accept" ELSE "reject",
                     next |-> 1]
    BY <1>3, <1>d, Gone DEF Check
  <2>2. pc[t].at = "check" /\ UNCHANGED <<conf, main_pc, store, layout>>
    BY <1>3 DEF Check, Step
  <2>3. pc'[t].at \in {"accept", "reject"} /\ pc'[t].next = 1
    BY <2>1
  <2>4. Placed(pc'[t])
    BY <2>3, CopyLength DEF Placed
  <2> QED
    BY <1>0, <2>1, <2>2, <2>3, <2>4 DEF conf
<1>4. ASSUME NEW t \in Threads, Accept(t) \/ Reject(t)
      PROVE  TypeInv'
  <2>1. PICK i \in DOMAIN CopyOrder, done \in {"limits", "store"} : After(t, i, done)
    BY <1>4 DEF Accept, Reject
  <2>2. /\ pc[t].at \in {"accept", "reject"} /\ UNCHANGED <<main_pc, store, layout>>
        /\ DOMAIN bat_conf' = DOMAIN bat_conf /\ DOMAIN bat_conf_user' = DOMAIN bat_conf_user
    BY <1>4 DEF Accept, Reject, Step
  <2>3. /\ DOMAIN pc' = Threads /\ \A other \in Threads \ {t} : pc'[other] = pc[other]
        /\ \/ pc'[t] = [at |-> pc[t].at, next |-> i + 1] /\ i + 1 \in DOMAIN CopyOrder
           \/ pc'[t] = [at |-> done]
    BY <1>d, <2>1, Advanced
  <2>4. CASE pc'[t] = [at |-> pc[t].at, next |-> i + 1] /\ i + 1 \in DOMAIN CopyOrder
    <3>1. pc'[t].at \in {"accept", "reject"} /\ pc'[t].next \in DOMAIN CopyOrder
      BY <2>2, <2>4
    <3> QED
      BY <1>0, <2>2, <2>3, <3>1 DEF Placed
  <2>5. CASE pc'[t] = [at |-> done]
    <3>1. pc'[t].at \in {"limits", "store"}
      BY <2>5
    <3> QED
      BY <1>0, <2>2, <2>3, <3>1 DEF Placed
  <2> QED
    BY <2>3, <2>4, <2>5
<1>5. ASSUME NEW t \in Threads, SetLimits(t)
      PROVE  TypeInv'
  <2>1. /\ DOMAIN pc' = Threads /\ \A other \in Threads \ {t} : pc'[other] = pc[other]
        /\ pc'[t] = [at |-> "store"]
    BY <1>5, <1>d, Gone DEF SetLimits
  <2>2. pc'[t].at = "store" /\ pc[t].at = "limits"
    BY <1>5, <2>1 DEF SetLimits, Step
  <2> QED
    BY <1>0, <1>5, <2>1, <2>2 DEF SetLimits, Placed
<1>6. ASSUME NEW t \in Threads, ThreadStore(t)
      PROVE  TypeInv'
  <2>1. /\ DOMAIN pc' = Threads /\ \A other \in Threads \ {t} : pc'[other] = pc[other]
        /\ pc'[t] = [at |-> "eeprom"]
    BY <1>6, <1>d, Gone DEF ThreadStore
  <2>2. /\ pc'[t].at = "eeprom" /\ pc[t].at = "store" /\ UNCHANGED <<conf, main_pc, layout>>
        /\ data_buf_lock = "free" /\ data_buf_lock' = t /\ page' = 0
    BY <1>6, <2>1 DEF ThreadStore, Step, BeginStore
  <2>3. \A other \in Threads : Placed(pc'[other])
    BY <2>1, <2>2 DEF Placed, TypeInv
  <2>4. Owned'
    BY <1>a, <2>1, <2>2 DEF TypeInv, Owned
  <2> QED
    BY <2>1, <2>2, <2>3, <2>4 DEF TypeInv, conf, Placed
<1>7. ASSUME NEW t \in Threads, ThreadStored(t)
      PROVE  TypeInv'
  <2>1. /\ DOMAIN pc' = Threads /\ \A other \in Threads \ {t} : pc'[other] = pc[other]
        /\ pc'[t] = Idle
    BY <1>7, <1>d, Gone DEF ThreadStored
  <2>2. /\ pc'[t].at = "idle" /\ pc[t].at = "eeprom" /\ UNCHANGED <<conf, main_pc, layout>>
        /\ data_buf_lock = t /\ data_buf_lock' = "free" /\ page' = 0
    BY <1>7, <2>1 DEF ThreadStored, Step, EndStore, FailStore, Release, Idle
  <2>3. \A other \in Threads : Placed(pc'[other])
    BY <2>1, <2>2 DEF Placed, TypeInv
  <2>4. Owned'
    BY <1>a, <2>1, <2>2 DEF TypeInv, Owned
  <2> QED
    BY <2>1, <2>2, <2>3, <2>4 DEF TypeInv, conf, Placed
<1>8. ASSUME NEW t, WritePage(t), UNCHANGED <<conf, pc, main_pc, layout>>
      PROVE  TypeInv'
  <2>1. data_buf_lock' = data_buf_lock /\ page' \in layout
    BY <1>8 DEF WritePage
  <2> QED
    BY <1>8, <2>1 DEF TypeInv, Owned, Placed, conf
<1>9. CASE data_storage_update
  BY <1>9 DEF data_storage_update, TypeInv, Owned, Placed, conf, store
<1>10. CASE MainStore
  <2>1. /\ UNCHANGED <<conf, pc, layout>> /\ main_pc = "wait" /\ main_pc' = "eeprom"
        /\ data_buf_lock = "free" /\ data_buf_lock' = "main" /\ page' = 0
    BY <1>10 DEF MainStore, BeginStore
  <2> QED
    BY <1>a, <2>1 DEF TypeInv, Owned, Placed, conf
<1>11. CASE MainStored
  <2>1. /\ UNCHANGED <<conf, pc, layout>> /\ main_pc = "eeprom" /\ main_pc' = "idle"
        /\ data_buf_lock = "main" /\ data_buf_lock' = "free" /\ page' = 0
    BY <1>11 DEF MainStored, EndStore, FailStore, Release
  <2> QED
    BY <1>a, <2>1 DEF TypeInv, Owned, Placed, conf
<1>12. CASE PowerFailure
  <2>1. PICK r : bat_conf' = Restored(r).active /\ bat_conf_user' = Restored(r).user
    BY <1>12, FromRecord DEF Started
  <2>2. /\ pc' = [t \in Threads |-> Idle] /\ main_pc' = "idle" /\ data_buf_lock' = "free"
        /\ page' = 0 /\ layout' = layout
    BY <1>12, FromRecord DEF PowerFailure, Release
  <2>3. \A t \in Threads : pc'[t].at = "idle"
    BY <2>2 DEF Idle
  <2>4. Owned'
    BY <1>a, <2>3, <2>2 DEF Owned
  <2>5. \A t \in Threads : Placed(pc'[t])
    BY <2>3 DEF Placed
  <2> QED
    BY <2>1, <2>4, <2>5, <2>2, RestoredFields DEF TypeInv, Placed
<1>13. CASE UNCHANGED vars
  BY <1>13 DEF vars, TypeInv, Owned, Placed, conf, store
<1> QED
  BY <1>1, <1>2, <1>3, <1>4, <1>5, <1>6, <1>7, <1>8, <1>9, <1>10, <1>11, <1>12, <1>13
     DEF Next, ThreadStep, MainStep, ThreadWritePage, MainWritePage

LEMMA TypeAlways == Spec => []TypeInv
<1>1. TypeInv /\ [Next]_vars => TypeInv'
  BY TypeStep
<1> QED
  BY <1>1, TypeInit, PTL DEF Spec

(***************************************************************************)
(* The buffer belongs to whoever is storing and to nobody else, and        *)
(* program counters keep to their steps, for any number of threads and any *)
(* order of their priorities (data_buf_lock in data_storage_write()).      *)
(***************************************************************************)
THEOREM BufferHasOneOwner == Spec => []TypeOK
<1>1. TypeInv => TypeOK
  BY DEF TypeInv, Owned, Placed, Items, TypeOK
<1> QED
  BY <1>1, TypeAlways, PTL

-------------------------------------------------------------------------------
(***************************************************************************)
(* The pages of a record up to `page' are those of the buffer.             *)
(***************************************************************************)
PagesInv ==
  /\ layout \in {EepromPages, NvsPages}
  /\ buf = [item \in Items |-> buf[item]]
  /\ record.data = [item \in Items |-> record.data[item]]
  /\ data_buf_lock # "free" =>
       \A item \in Items : PageHolding(item) <= page => record.data[item] = buf[item]

\* Every item has a page, and there is no page 0.
LEMMA PagesHold ==
  ASSUME layout \in {EepromPages, NvsPages}
  PROVE  /\ layout \subseteq Nat \ {0}
         /\ \A item \in Items : PageHolding(item) \in layout
         /\ \E p \in layout : p > 0
<1>1. "nominal_capacity" \in Items
  BY SettingNames, CopiedAreSettings DEF Items, CopyOrder
<1>2. layout \subseteq Nat \ {0}
  BY ConfigurationAssumption DEF EepromPages, NvsPages
<1>3. \A item \in Items : PageHolding(item) \in layout
  BY DEF PageHolding, EepromPages, NvsPages
<1>4. PageHolding("nominal_capacity") \in layout
  BY <1>1, <1>3
<1>5. \A p \in layout : p > 0
  BY <1>2
<1> QED
  BY <1>2, <1>3, <1>4, <1>5

\* Once all pages are written the record is what is in the buffer.
LEMMA WholeRecord ==
  ASSUME TypeInv, RecordInv, PagesInv, NEW t, t # "free", EndStore(t)
  PROVE  Valid(record) /\ record.data = buf
<1>1. page \in Nat /\ page # 0 /\ \A item \in Items : PageHolding(item) <= page
  BY PagesHold DEF EndStore, PagesInv, TypeInv
<1>2. data_buf_lock # "free"
  BY DEF EndStore
<1>3. record.crc = buf
  BY <1>1, <1>2 DEF RecordInv
<1>4. \A item \in Items : record.data[item] = buf[item]
  BY <1>1, <1>2 DEF PagesInv
<1>5. record.data = buf
  BY <1>4 DEF PagesInv
<1> QED
  BY <1>3, <1>5 DEF Valid

\* A page more.
LEMMA PagesWritten ==
  ASSUME TypeInv, PagesInv, NEW t, WritePage(t), layout' = layout
  PROVE  PagesInv'
<1>1. PICK next \in layout :
        /\ \A p \in layout : p < next <=> p <= page
        /\ record' = [crc  |-> buf,
                      data |-> [item \in Items |-> IF PageHolding(item) = next THEN buf[item]
                                                   ELSE record.data[item]]]
        /\ page' = next
  BY DEF WritePage
<1>2. data_buf_lock' = data_buf_lock /\ data_buf_lock = t /\ buf' = buf
  BY DEF WritePage
<1>3. record'.data = [item \in Items |-> IF PageHolding(item) = next THEN buf[item]
                                         ELSE record.data[item]]
  BY <1>1
<1>4. ASSUME NEW item \in Items, PageHolding(item)' <= next, data_buf_lock # "free"
      PROVE  record'.data[item] = buf[item]
  <2>1. PageHolding(item)' = PageHolding(item) /\ PageHolding(item) \in layout /\ next \in Nat
        /\ PageHolding(item) \in Nat
    BY PagesHold DEF PageHolding, PagesInv
  <2>2. CASE PageHolding(item) = next
    BY <1>3, <2>2
  <2>3. CASE PageHolding(item) # next
    <3>1. PageHolding(item) < next
      BY <1>4, <2>1, <2>3
    <3>2. record.data[item] = buf[item]
      BY <1>1, <1>4, <2>1, <3>1 DEF PagesInv
    <3> QED
      BY <1>3, <2>3, <3>2
  <2> QED
    BY <2>2, <2>3
<1>5. layout' \in {EepromPages, NvsPages} /\ buf' = [item \in Items |-> buf'[item]]
  BY <1>2 DEF PagesInv
<1> QED
  BY <1>1, <1>2, <1>3, <1>4, <1>5 DEF PagesInv

LEMMA PagesInit == Init => PagesInv
<1>1. Nothing = [item \in Items |-> Nothing[item]] /\ Empty.data = Nothing
  BY DEF Nothing, Empty
<1> QED
  BY <1>1 DEF Init, PagesInv

LEMMA PagesStep ==
  ASSUME TypeInv, PagesInv, [Next]_vars
  PROVE  PagesInv'
<1>f. \A item \in Items : PageHolding(item) \in Nat /\ PageHolding(item) > 0
  BY PagesHold DEF PagesInv
<1>1. CASE UNCHANGED <<store, layout>>
  <2>1. \A item \in Items : PageHolding(item)' = PageHolding(item)
    BY <1>1 DEF PageHolding
  <2> QED
    BY <1>1, <2>1 DEF PagesInv, store
<1>2. ASSUME NEW t, BeginStore(t), layout' = layout
      PROVE  PagesInv'
  <2>1. buf' = Exported /\ page' = 0 /\ record' = record
    BY <1>2 DEF BeginStore
  <2>2. Exported = [item \in Items |-> Exported[item]]
    BY DEF Exported
  <2>3. \A item \in Items : PageHolding(item)' = PageHolding(item)
    BY <1>2 DEF PageHolding
  <2> QED
    BY <1>2, <1>f, <2>1, <2>2, <2>3 DEF PagesInv
<1>3. ASSUME NEW failed, Release(failed), UNCHANGED <<record, layout>>
      PROVE  PagesInv'
  <2>1. Nothing = [item \in Items |-> Nothing[item]]
    BY DEF Nothing
  <2> QED
    BY <1>3, <2>1 DEF Release, PagesInv
<1>4. ASSUME NEW t \in Threads,
             Receive(t) \/ WriteValue(t) \/ Check(t) \/ Accept(t) \/ Reject(t) \/ SetLimits(t)
      PROVE  UNCHANGED <<store, layout>>
  BY <1>4 DEF Receive, WriteValue, Check, Accept, Reject, SetLimits
<1>5. ASSUME NEW t \in Threads, ThreadStore(t) \/ ThreadWritePage(t) \/ ThreadStored(t)
      PROVE  PagesInv'
  BY <1>2, <1>3, <1>5, PagesWritten
     DEF ThreadStore, ThreadWritePage, ThreadStored, EndStore, FailStore
<1>6. ASSUME data_storage_update \/ UNCHANGED vars
      PROVE  UNCHANGED <<store, layout>>
  BY <1>6 DEF data_storage_update, vars
<1>7. ASSUME MainStep
      PROVE  PagesInv'
  BY <1>2, <1>3, <1>7, PagesWritten
     DEF MainStep, MainStore, MainWritePage, MainStored, EndStore, FailStore
<1>8. ASSUME PowerFailure
      PROVE  PagesInv'
  BY <1>3, <1>8, FromRecord DEF PowerFailure
<1> QED
  BY <1>1, <1>4, <1>5, <1>6, <1>7, <1>8 DEF Next, ThreadStep

StorageInv == TypeInv /\ RecordInv /\ PagesInv

LEMMA StorageAlways == Spec => []StorageInv
<1>1. Init => StorageInv
  BY TypeInit, RecordInit, PagesInit DEF StorageInv
<1>2. StorageInv /\ [Next]_vars => StorageInv'
  BY TypeStep, RecordStep, PagesStep DEF StorageInv
<1> QED
  BY <1>1, <1>2, PTL DEF Spec

\* The state of the abstract store; its source is no part of the subscript of Storage!Spec.
memory == IF Valid(record) THEN {record.data} ELSE {}
pending == IF data_buf_lock = "free" THEN {} ELSE {buf}

\* What the operations on the storage, whoever calls them, do to the abstract store.
LEMMA BeginsAWrite ==
  ASSUME NEW t, t # "free", BeginStore(t), spoiled' = spoiled
  PROVE  Storage!Begin
<1>1. pending = {} /\ pending' = {Exported} /\ memory' = memory
  BY DEF BeginStore, pending, memory, Valid
<1> QED
  BY <1>1 DEF Storage!Begin, pending, memory

\* The last page whose content differs completes the snapshot, all before spoil what was there.
LEMMA WritesAPage ==
  ASSUME PagesInv, NEW t, t # "free", WritePage(t), spoiled' = spoiled
  PROVE  Storage!Write \/ UNCHANGED <<memory, pending, spoiled>>
<1>1. pending = {buf} /\ pending' = {buf}
  BY DEF WritePage, pending
<1>2. PICK next \in layout :
        record' = [crc  |-> buf,
                   data |-> [item \in Items |-> IF PageHolding(item) = next THEN buf[item]
                                                ELSE record.data[item]]]
  BY DEF WritePage
<1>3. /\ record'.crc = buf
      /\ record'.data = [item \in Items |-> IF PageHolding(item) = next THEN buf[item]
                                             ELSE record.data[item]]
  BY <1>2
<1>4. memory' \in {{}, {buf}}
  BY <1>3 DEF memory, Valid
<1>5. CASE memory = {buf}
  <2>1. Valid(record) /\ record.data = buf
    BY <1>5 DEF memory
  <2>2. record'.data = [item \in Items |-> buf[item]]
    BY <1>3, <2>1
  <2>3. record'.data = buf
    BY <2>2 DEF PagesInv
  <2>4. memory' = {buf}
    BY <1>3, <2>3 DEF memory, Valid
  <2> QED
    BY <1>1, <1>5, <2>4
<1>6. CASE memory # {buf}
  BY <1>1, <1>4, <1>6 DEF Storage!Write, memory, pending
<1> QED
  BY <1>5, <1>6

LEMMA EndsAWrite ==
  ASSUME StorageInv, NEW t, t # "free", EndStore(t) \/ FailStore(t)
  PROVE  Storage!Complete \/ Storage!Fail
<1>1. pending = {buf} /\ pending' = {} /\ memory' = memory
  BY DEF EndStore, FailStore, Release, pending, memory, Valid
<1>2. CASE EndStore(t)
  <2>1. memory = {buf}
    BY <1>2, WholeRecord DEF StorageInv, memory
  <2>2. spoiled' = FALSE
    BY <1>2 DEF EndStore, Release
  <2> QED
    BY <1>1, <2>1, <2>2 DEF Storage!Complete, memory, pending
<1>3. CASE FailStore(t)
  <2>1. spoiled' = TRUE
    BY <1>3 DEF FailStore, Release
  <2> QED
    BY <1>1, <2>1 DEF Storage!Fail, memory, pending
<1> QED
  BY <1>2, <1>3

LEMMA StorageStep ==
  ASSUME StorageInv, [Next]_vars
  PROVE  Storage!Next \/ UNCHANGED <<memory, pending, spoiled>>
<1>a. "free" \notin Threads /\ PagesInv
  BY ConfigurationAssumption DEF StorageInv
<1>1. CASE UNCHANGED <<store, spoiled>>
  BY <1>1 DEF memory, pending, store, Valid
<1>2. ASSUME NEW t \in Threads,
             Receive(t) \/ WriteValue(t) \/ Check(t) \/ Accept(t) \/ Reject(t) \/ SetLimits(t)
      PROVE  UNCHANGED <<store, spoiled>>
  BY <1>2 DEF Receive, WriteValue, Check, Accept, Reject, SetLimits, history
<1>3. ASSUME NEW t \in Threads, ThreadStore(t)
      PROVE  Storage!Begin
  BY <1>a, <1>3, BeginsAWrite DEF ThreadStore, history
<1>4. ASSUME NEW t \in Threads, ThreadWritePage(t)
      PROVE  Storage!Write \/ UNCHANGED <<memory, pending, spoiled>>
  BY <1>a, <1>4, WritesAPage DEF ThreadWritePage, history
<1>5. ASSUME NEW t \in Threads, ThreadStored(t)
      PROVE  Storage!Complete \/ Storage!Fail
  BY <1>a, <1>5, EndsAWrite DEF ThreadStored
<1>6. CASE MainStore
  BY <1>6, BeginsAWrite DEF MainStore, history, Storage!Next
<1>7. CASE MainWritePage
  BY <1>a, <1>7, WritesAPage DEF MainWritePage, history, Storage!Next
<1>8. CASE MainStored
  BY <1>8, EndsAWrite DEF MainStored, Storage!Next
<1>9. CASE PowerFailure
  <2>1. pending' = {} /\ memory' = memory /\ spoiled' \in BOOLEAN
    BY <1>9, FromRecord DEF PowerFailure, Release, pending, memory, Valid
  <2> QED
    BY <2>1 DEF Storage!Next, Storage!Restart, memory, pending
<1>10. ASSUME data_storage_update \/ UNCHANGED vars
       PROVE  UNCHANGED <<store, spoiled>>
  BY <1>10 DEF data_storage_update, vars, history
<1> QED
  BY <1>1, <1>2, <1>3, <1>4, <1>5, <1>6, <1>7, <1>8, <1>9, <1>10
     DEF Next, ThreadStep, MainStep, Storage!Next

(***************************************************************************)
(* The storage implements SnapshotStore for every number of threads,       *)
(* layout in pages and set of requests: each step of a write, an error or  *)
(* a power failure is a step of the store, everything else a stutter       *)
(* (data_storage_write(), data_storage_read()).                            *)
(***************************************************************************)
THEOREM StorageIsSnapshotStore == Spec => StoresSnapshots
<1>1. Init => Storage!Init
  <2>1. Init => ~Valid(record)
    BY EmptyInvalid DEF Init
  <2> QED
    BY <2>1 DEF Init, Storage!Init
<1>2. StorageInv /\ [Next]_vars => [Storage!Next]_<<memory, pending, spoiled>>
  BY StorageStep
<1> QED
  BY <1>1, <1>2, StorageAlways, PTL DEF Spec, StoresSnapshots, Storage!Spec, memory, pending

-------------------------------------------------------------------------------
AllAt(states) == \A t \in Threads : pc[t].at \in states

\* What no copy and no request touches is what the factory has set.
Fixed ==
  /\ bat_conf = [s \in Settings |-> bat_conf[s]]
  /\ \A s \in Settings \ Copied : bat_conf[s] = Factory[s]
  /\ bat_conf.absolute_max_voltage = Factory.absolute_max_voltage
  /\ bat_conf_user.absolute_max_voltage = Factory.absolute_max_voltage

(***************************************************************************)
(* Outside a request, and as far as a copy back has got, clients read what *)
(* is in force; the load output follows at the end of a copy.              *)
(***************************************************************************)
Copies ==
  /\ AllAt({"idle", "limits", "store", "eeprom"}) =>
       \A i \in 1 .. 20 : bat_conf_user[CopyOrder[i]] = bat_conf[CopyOrder[i]]
  /\ \A t \in Threads : pc[t].at = "reject" =>
       \A i \in 1 .. pc[t].next - 1 : bat_conf_user[CopyOrder[i]] = bat_conf[CopyOrder[i]]
  /\ AllAt({"idle", "write", "check", "reject", "store", "eeprom"})
     => load_limits = Limits(bat_conf)

(***************************************************************************)
(* The buffer holds what clients read, unless somebody is changing it, and *)
(* at rest a restart brings back what is in force.                         *)
(***************************************************************************)
Written ==
  /\ data_buf_lock # "free" /\ AllAt({"idle", "eeprom"}) => buf = Exported
  /\ AllAt({"idle"}) /\ data_buf_lock = "free" /\ ~spoiled => Restored(record).active = bat_conf

RestInv == ConfInv /\ TypeInv /\ RecordInv /\ PagesInv /\ Fixed /\ Copies /\ Written

LEMMA AbsoluteMax == "absolute_max_voltage" \in Copied /\ Copied = {CopyOrder[i] : i \in 1 .. 20}
  BY CopyLength DEF Copied, CopyOrder

LEMMA FixedStep ==
  ASSUME TypeInv, Fixed, [Next]_vars
  PROVE  Fixed'
<1>d. DOMAIN bat_conf = Settings /\ DOMAIN bat_conf_user = Settings /\ Copied \subseteq Settings
  BY SettingNames DEF TypeInv
<1>1. CASE UNCHANGED <<bat_conf, bat_conf_user>>
  BY <1>1 DEF Fixed
<1>2. ASSUME NEW t \in Threads, WriteValue(t)
      PROVE  Fixed'
  <2>1. PICK s \in DOMAIN pc[t].left : bat_conf_user' = [bat_conf_user EXCEPT ![s] = pc[t].left[s]]
    BY <1>2 DEF WriteValue
  <2>2. s # "absolute_max_voltage" /\ bat_conf' = bat_conf
    BY <1>2, <2>1 DEF WriteValue, Step, TypeInv, Placed, Items
  <2> QED
    BY <2>1, <2>2 DEF Fixed
<1>3. ASSUME NEW t \in Threads, Accept(t)
      PROVE  Fixed'
  <2>1. PICK i \in DOMAIN CopyOrder :
          bat_conf' = [bat_conf EXCEPT ![CopyOrder[i]] = bat_conf_user[CopyOrder[i]]]
    BY <1>3 DEF Accept
  <2>2. CopyOrder[i] \in Copied /\ bat_conf_user' = bat_conf_user
    BY <1>3 DEF Accept, Copied
  <2> QED
    BY <1>d, <2>1, <2>2 DEF Fixed
<1>4. ASSUME NEW t \in Threads, Reject(t)
      PROVE  Fixed'
  <2>1. PICK i \in DOMAIN CopyOrder :
          bat_conf_user' = [bat_conf_user EXCEPT ![CopyOrder[i]] = bat_conf[CopyOrder[i]]]
    BY <1>4 DEF Reject
  <2>2. bat_conf' = bat_conf
    BY <1>4 DEF Reject
  <2> QED
    BY <1>d, <2>1, <2>2 DEF Fixed
<1>5. CASE PowerFailure
  <2>1. PICK r : bat_conf' = Restored(r).active /\ bat_conf_user' = Restored(r).user
    BY <1>5, FromRecord DEF Started
  <2> QED
    BY <2>1, RestoredFields DEF Fixed
<1>6. ASSUME NEW t \in Threads,
             Receive(t) \/ Check(t) \/ SetLimits(t) \/ ThreadStore(t) \/ ThreadWritePage(t) \/ ThreadStored(t)
      PROVE  UNCHANGED <<bat_conf, bat_conf_user>>
  BY <1>6 DEF Receive, Check, SetLimits, ThreadStore, ThreadWritePage, ThreadStored, conf
<1>7. data_storage_update \/ MainStep \/ UNCHANGED vars => UNCHANGED <<bat_conf, bat_conf_user>>
  BY DEF data_storage_update, MainStep, MainStore, MainWritePage, MainStored, conf, vars
<1> QED
  BY <1>1, <1>2, <1>3, <1>4, <1>5, <1>6, <1>7 DEF Next, ThreadStep

\* A copy has got one setting further, and those before it agree.
LEMMA AcceptCopies ==
  ASSUME ConfInv, TypeInv, NEW t \in Threads, Accept(t)
  PROVE  \E i \in 1 .. 20 :
           /\ \/ pc'[t].at = "accept" /\ i < 20
              \/ pc'[t].at = "limits" /\ i = 20
           /\ \A j \in 1 .. i : bat_conf'[CopyOrder[j]] = bat_conf_user'[CopyOrder[j]]
<1>1. PICK i \in DOMAIN CopyOrder :
        /\ Assigns(t, i, bat_conf_user, bat_conf)
        /\ bat_conf' = [bat_conf EXCEPT ![CopyOrder[i]] = bat_conf_user[CopyOrder[i]]]
        /\ After(t, i, "limits")
  BY DEF Accept
<1>2. pc[t].at = "accept" /\ bat_conf_user' = bat_conf_user
  BY DEF Accept, Step
<1>3. i \in 1 .. 20
  BY CopyLength
<1>4. \A j \in 1 .. i : bat_conf'[CopyOrder[j]] = bat_conf_user'[CopyOrder[j]]
  BY <1>1, <1>2, <1>3, CopyLength, CopiedAreSettings DEF Assigns, ConfInv
<1>5. \/ pc'[t] = [at |-> "accept", next |-> i + 1] /\ i < 20
      \/ pc'[t] = [at |-> "limits"] /\ i = 20
  BY <1>1, <1>2, Advanced DEF TypeInv
<1>6. \/ pc'[t].at = "accept" /\ i < 20
      \/ pc'[t].at = "limits" /\ i = 20
  BY <1>5
<1> QED
  BY <1>3, <1>4, <1>6

LEMMA RejectCopies ==
  ASSUME TypeInv, Copies, NEW t \in Threads, Reject(t)
  PROVE  \E i \in 1 .. 20 :
           /\ \/ pc'[t].at = "reject" /\ pc'[t].next = i + 1
              \/ pc'[t].at = "store" /\ i = 20
           /\ \A j \in 1 .. i : bat_conf_user'[CopyOrder[j]] = bat_conf'[CopyOrder[j]]
<1>1. PICK i \in DOMAIN CopyOrder :
        /\ Assigns(t, i, bat_conf, bat_conf_user)
        /\ bat_conf_user' = [bat_conf_user EXCEPT ![CopyOrder[i]] = bat_conf[CopyOrder[i]]]
        /\ After(t, i, "store")
  BY DEF Reject
<1>2. pc[t].at = "reject" /\ bat_conf' = bat_conf /\ pc[t].next \in 1 .. 20
  BY CopyLength DEF Reject, Step, TypeInv, Placed
<1>3. i \in 1 .. 20
  BY CopyLength
<1>4. \A j \in 1 .. i : bat_conf_user'[CopyOrder[j]] = bat_conf'[CopyOrder[j]]
  BY <1>1, <1>2, <1>3, CopyLength, CopiedAreSettings DEF Assigns, Copies, TypeInv
<1>5. \/ pc'[t] = [at |-> "reject", next |-> i + 1]
      \/ pc'[t] = [at |-> "store"] /\ i = 20
  BY <1>1, <1>2, Advanced DEF TypeInv
<1>6. \/ pc'[t].at = "reject" /\ pc'[t].next = i + 1
      \/ pc'[t].at = "store" /\ i = 20
  BY <1>5
<1> QED
  BY <1>3, <1>4, <1>6

\* A step of the thread while it deals with a request.
Busy(t) == Receive(t) \/ WriteValue(t) \/ Check(t) \/ Accept(t) \/ Reject(t) \/ SetLimits(t)

LEMMA BusyAt ==
  ASSUME TypeInv, NEW t \in Threads, Busy(t)
  PROVE  pc'[t].at \in {"write", "check", "accept", "reject", "limits", "store"}
<1>d. DOMAIN pc = Threads
  BY DEF TypeInv
<1>1. CASE Receive(t)
  <2>1. PICK request \in Requests : Goto(t, [at |-> "write", left |-> request])
    BY <1>1 DEF Receive
  <2>2. pc'[t] = [at |-> "write", left |-> request]
    BY <1>d, <2>1, Gone
  <2> QED
    BY <2>2
<1>2. CASE WriteValue(t)
  <2>1. PICK s : Goto(t, IF DOMAIN pc[t].left \ {s} = {} THEN [at |-> "check"]
                         ELSE [at |-> "write",
                               left |-> [r \in DOMAIN pc[t].left \ {s} |-> pc[t].left[r]]])
    BY <1>2 DEF WriteValue
  <2>2. pc'[t] = IF DOMAIN pc[t].left \ {s} = {} THEN [at |-> "check"]
                 ELSE [at |-> "write", left |-> [r \in DOMAIN pc[t].left \ {s} |-> pc[t].left[r]]]
    BY <1>d, <2>1, Gone
  <2> QED
    BY <2>2
<1>3. CASE Check(t)
  <2>1. pc'[t] = [at |-> IF battery_conf_check(bat_conf_user) THEN "accept" ELSE "reject", next |-> 1]
    BY <1>d, <1>3, Gone DEF Check
  <2> QED
    BY <2>1
<1>4. CASE Accept(t) \/ Reject(t)
  <2>1. PICK i \in DOMAIN CopyOrder, done \in {"limits", "store"} : After(t, i, done)
    BY <1>4 DEF Accept, Reject
  <2>2. pc[t].at \in {"accept", "reject"}
    BY <1>4 DEF Accept, Reject, Step
  <2>3. pc'[t] = [at |-> pc[t].at, next |-> i + 1] \/ pc'[t] = [at |-> done]
    BY <1>d, <2>1, Advanced
  <2> QED
    BY <2>2, <2>3
<1>5. CASE SetLimits(t)
  <2>1. pc'[t] = [at |-> "store"]
    BY <1>d, <1>5, Gone DEF SetLimits
  <2> QED
    BY <2>1
<1> QED
  BY <1>1, <1>2, <1>3, <1>4, <1>5 DEF Busy

LEMMA CopiesStep ==
  ASSUME OneThread, ConfInv, TypeInv, Copies, [Next]_vars
  PROVE  Copies'
<1>d. DOMAIN pc = Threads
  BY DEF TypeInv
<1>1. ASSUME NEW t \in Threads, Receive(t) \/ WriteValue(t)
      PROVE  Copies'
  <2>1. pc'[t].at \in {"write", "check"}
    <3>1. CASE Receive(t)
      <4>1. PICK request \in Requests : pc'[t] = [at |-> "write", left |-> request]
        BY <1>d, <3>1, Gone DEF Receive
      <4> QED
        BY <4>1
    <3>2. CASE WriteValue(t)
      <4>1. PICK s : pc'[t] = IF DOMAIN pc[t].left \ {s} = {} THEN [at |-> "check"]
                              ELSE [at |-> "write",
                                    left |-> [r \in DOMAIN pc[t].left \ {s} |-> pc[t].left[r]]]
        BY <1>d, <3>2, Gone DEF WriteValue
      <4> QED
        BY <4>1
    <3> QED
      BY <1>1, <3>1, <3>2
  <2>2. pc[t].at \in {"idle", "write"} /\ UNCHANGED <<bat_conf, load_limits>>
    BY <1>1 DEF Receive, WriteValue, Step, conf
  <2> QED
    BY <2>1, <2>2 DEF Copies, AllAt, OneThread
<1>2. ASSUME NEW t \in Threads, Check(t)
      PROVE  Copies'
  <2>1. pc'[t] = [at |-> IF battery_conf_check(bat_conf_user) THEN "accept" ELSE "reject", next |-> 1]
    BY <1>d, <1>2, Gone DEF Check
  <2>2. pc'[t].at \in {"accept", "reject"} /\ pc'[t].next = 1
    BY <2>1
  <2>3. pc[t].at = "check" /\ UNCHANGED <<bat_conf, bat_conf_user, load_limits>>
    BY <1>2 DEF Check, Step, conf
  <2> QED
    BY <2>2, <2>3 DEF Copies, AllAt, OneThread
<1>3. ASSUME NEW t \in Threads, Accept(t)
      PROVE  Copies'
  <2>1. PICK i \in 1 .. 20 :
          /\ \/ pc'[t].at = "accept" /\ i < 20
             \/ pc'[t].at = "limits" /\ i = 20
          /\ \A j \in 1 .. i : bat_conf'[CopyOrder[j]] = bat_conf_user'[CopyOrder[j]]
    BY <1>3, AcceptCopies
  <2> QED
    BY <2>1 DEF Copies, AllAt, OneThread
<1>4. ASSUME NEW t \in Threads, Reject(t)
      PROVE  Copies'
  <2>1. PICK i \in 1 .. 20 :
          /\ \/ pc'[t].at = "reject" /\ pc'[t].next = i + 1
             \/ pc'[t].at = "store" /\ i = 20
          /\ \A j \in 1 .. i : bat_conf_user'[CopyOrder[j]] = bat_conf'[CopyOrder[j]]
    BY <1>4, RejectCopies
  <2>2. pc[t].at = "reject" /\ UNCHANGED <<bat_conf, load_limits>>
    BY <1>4 DEF Reject, Step
  <2>3. load_limits' = Limits(bat_conf)'
    BY <2>2 DEF Copies, AllAt, OneThread, Limits
  <2> QED
    BY <2>1, <2>3 DEF Copies, AllAt, OneThread
<1>5. ASSUME NEW t \in Threads, SetLimits(t)
      PROVE  Copies'
  <2>1. pc'[t] = [at |-> "store"]
    BY <1>d, <1>5, Gone DEF SetLimits
  <2>2. pc'[t].at = "store" /\ pc[t].at = "limits" /\ load_limits' = Limits(bat_conf)
        /\ UNCHANGED <<bat_conf, bat_conf_user>>
    BY <1>5, <2>1 DEF SetLimits, Step
  <2>3. load_limits' = Limits(bat_conf)'
    BY <2>2 DEF Limits
  <2> QED
    BY <2>2, <2>3 DEF Copies, AllAt, OneThread
<1>6. ASSUME NEW t \in Threads, ThreadStore(t) \/ ThreadStored(t)
      PROVE  Copies'
  <2>1. pc'[t] = [at |-> "eeprom"] \/ pc'[t] = Idle
    BY <1>d, <1>6, Gone DEF ThreadStore, ThreadStored
  <2>2. /\ pc'[t].at \in {"eeprom", "idle"} /\ pc[t].at \in {"store", "eeprom"}
        /\ UNCHANGED <<bat_conf, bat_conf_user, load_limits>>
    BY <1>6, <2>1 DEF ThreadStore, ThreadStored, Step, Idle, conf
  <2> QED
    BY <2>2 DEF Copies, AllAt, OneThread
<1>7. CASE UNCHANGED <<conf, pc>>
  BY <1>7 DEF Copies, AllAt, conf
<1>8. CASE PowerFailure
  <2>1. PICK r : /\ bat_conf' = Restored(r).active /\ bat_conf_user' = Restored(r).user
                 /\ load_limits' = Limits(Restored(r).active)
                 /\ pc' = [t \in Threads |-> Idle]
    BY <1>8, FromRecord DEF PowerFailure, Started
  <2>2. \A t \in Threads : pc'[t].at = "idle"
    BY <2>1 DEF Idle
  <2>3. \A i \in 1 .. 20 : bat_conf_user'[CopyOrder[i]] = bat_conf'[CopyOrder[i]]
    BY <2>1, RestoredFields, CopiedAreSettings
  <2>4. load_limits' = Limits(bat_conf)'
    BY <2>1 DEF Limits
  <2> QED
    BY <2>2, <2>3, <2>4 DEF Copies
<1>9. ASSUME NEW t \in Threads, ThreadWritePage(t)
      PROVE  UNCHANGED <<conf, pc>>
  BY <1>9 DEF ThreadWritePage
<1>10. data_storage_update \/ MainStep \/ UNCHANGED vars => UNCHANGED <<conf, pc>>
  BY DEF data_storage_update, MainStep, MainStore, MainWritePage, MainStored, vars
<1> QED
  BY <1>1, <1>2, <1>3, <1>4, <1>5, <1>6, <1>7, <1>8, <1>9, <1>10 DEF Next, ThreadStep

\* A record that holds what clients read restores what is in force.
LEMMA RestoredAgrees ==
  ASSUME TypeInv, Fixed, battery_conf_check(bat_conf),
         \A i \in 1 .. 20 : bat_conf_user[CopyOrder[i]] = bat_conf[CopyOrder[i]],
         NEW r, Valid(r), r.data = Exported
  PROVE  Restored(r).active = bat_conf
<1> DEFINE initial == battery_conf_overwrite(Factory, Blank)
           user == IF Valid(r)
                   THEN [s \in Settings |-> IF s \in Items THEN r.data[s] ELSE initial[s]]
                   ELSE initial
<1>1. Copied \subseteq Settings /\ "absolute_max_voltage" \in Copied
  BY SettingNames, AbsoluteMax
<1>2. initial.absolute_max_voltage = Factory.absolute_max_voltage
  BY <1>1 DEF battery_conf_overwrite, Settings
<1>3. user = [s \in Settings |-> IF s \in Items THEN r.data[s] ELSE initial[s]]
  OBVIOUS
<1>4. Restored(r).active = IF battery_conf_check(user) THEN battery_conf_overwrite(user, Factory)
                           ELSE Factory
  BY DEF Restored
<1> HIDE DEF user, initial
<1>5. \A s \in Items : r.data[s] = bat_conf_user[s]
  BY DEF Exported
<1>6. \A s \in Copied : user[s] = bat_conf_user[s]
  BY <1>1, <1>2, <1>3, <1>5 DEF Items, Fixed
<1>7. \A i \in DOMAIN CopyOrder : bat_conf[CopyOrder[i]] = user[CopyOrder[i]]
  BY <1>6, CopyLength, CopiedAreSettings
<1>8. battery_conf_check(user)
  BY <1>7, CheckReadsCopied
<1>9. DOMAIN Factory = Settings
  <2>1. DOMAIN Factory = DOMAIN battery_conf_init("GEL", 6, 0)
    BY DEF Factory, battery_conf_init
  <2> QED
    BY <2>1 DEF Settings, Blank
<1>10. Restored(r).active = [s \in Settings |-> IF s \in Copied THEN user[s] ELSE Factory[s]]
  BY <1>4, <1>8, <1>9 DEF battery_conf_overwrite
<1>11. \A s \in Copied : user[s] = bat_conf[s]
  BY <1>7, CopyLength, AbsoluteMax
<1>12. \A s \in Settings : (IF s \in Copied THEN user[s] ELSE Factory[s]) = bat_conf[s]
  BY <1>11 DEF Fixed
<1>13. bat_conf = [s \in Settings |-> bat_conf[s]]
  BY DEF Fixed
<1> QED
  BY <1>10, <1>12, <1>13

LEMMA WrittenStep ==
  ASSUME OneThread, RestInv, Fixed', [Next]_vars
  PROVE  Written'
<1>r. ConfInv /\ TypeInv /\ RecordInv /\ PagesInv /\ Fixed /\ Copies /\ Written
  BY DEF RestInv
<1>a. "free" \notin Threads /\ "main" \notin Threads
  BY ConfigurationAssumption
\* At rest before the end of a write, whoever writes.
<1>e. ASSUME NEW t, t # "free", EndStore(t), AllAt({"idle", "eeprom"})
      PROVE  Restored(record).active = bat_conf
  <2>1. data_buf_lock # "free"
    BY <1>e DEF EndStore
  <2>2. Valid(record) /\ record.data = buf
    BY <1>e, <1>r, WholeRecord
  <2>3. buf = Exported
    BY <1>e, <1>r, <2>1 DEF Written
  <2>4. battery_conf_check(bat_conf)
    BY <1>e, <1>r DEF ConfInv, ConfInForceValid, AllAt
  <2>5. \A i \in 1 .. 20 : bat_conf_user[CopyOrder[i]] = bat_conf[CopyOrder[i]]
    BY <1>e, <1>r DEF Copies, AllAt
  <2> QED
    BY <1>r, <2>2, <2>3, <2>4, <2>5, RestoredAgrees
<1>1. ASSUME NEW t \in Threads, Busy(t)
      PROVE  Written'
  <2>1. pc'[t].at \notin {"idle", "eeprom"}
    BY <1>1, <1>r, BusyAt
  <2> QED
    BY <2>1 DEF Written, AllAt
<1>2. ASSUME NEW t, t # "free", BeginStore(t), UNCHANGED conf
      PROVE  Written'
  <2>1. data_buf_lock' = t /\ buf' = Exported /\ Exported' = Exported
    BY <1>2 DEF BeginStore, Exported, conf
  <2> QED
    BY <1>2, <2>1 DEF Written
<1>3. ASSUME NEW t, t # "free", EndStore(t) \/ FailStore(t), UNCHANGED conf,
             AllAt({"idle"})' => AllAt({"idle", "eeprom"})
      PROVE  Written'
  <2>1. data_buf_lock' = "free" /\ record' = record /\ bat_conf' = bat_conf
    BY <1>3 DEF EndStore, FailStore, Release, conf
  <2>2. CASE EndStore(t)
    <3>1. AllAt({"idle"})' => Restored(record).active = bat_conf
      BY <1>3, <1>e, <2>2
    <3> QED
      BY <2>1, <3>1 DEF Written
  <2>3. CASE FailStore(t)
    <3>1. spoiled' = TRUE
      BY <2>3 DEF FailStore, Release
    <3> QED
      BY <2>1, <3>1 DEF Written
  <2> QED
    BY <1>3, <2>2, <2>3
<1>4. ASSUME NEW t \in Threads, ThreadStored(t)
      PROVE  Written'
  <2>1. pc[t].at = "eeprom" /\ UNCHANGED conf /\ (EndStore(t) \/ FailStore(t))
    BY <1>4 DEF ThreadStored, Step
  <2>2. AllAt({"idle", "eeprom"})
    BY <2>1 DEF OneThread, AllAt
  <2> QED
    BY <1>3, <1>a, <2>1, <2>2
<1>5. CASE MainStored
  <2>1. UNCHANGED <<conf, pc>> /\ (EndStore("main") \/ FailStore("main"))
    BY <1>5 DEF MainStored
  <2> QED
    BY <1>3, <2>1 DEF AllAt
<1>6. ASSUME NEW t, t # "free", WritePage(t), UNCHANGED <<conf, pc>>
      PROVE  Written'
  <2>1. data_buf_lock = t /\ data_buf_lock' = t /\ buf' = buf /\ Exported' = Exported
    BY <1>6 DEF WritePage, Exported, conf
  <2> QED
    BY <1>6, <1>r, <2>1 DEF Written, AllAt
<1>7. CASE UNCHANGED <<conf, pc, store, spoiled>>
  <2>1. Exported' = Exported
    BY <1>7 DEF Exported, conf
  <2> QED
    BY <1>7, <1>r, <2>1 DEF Written, AllAt, conf, store
<1>8. CASE PowerFailure
  <2>1. ~spoiled' => bat_conf' = Restored(record).active
    BY <1>8, FromRecord DEF Started
  <2>2. data_buf_lock' = "free" /\ record' = record
    BY <1>8, FromRecord DEF PowerFailure, Release
  <2> QED
    BY <2>1, <2>2 DEF Written
<1>9. ASSUME NEW t \in Threads, ThreadStore(t) \/ ThreadWritePage(t)
      PROVE  Written'
  BY <1>2, <1>6, <1>9, <1>a DEF ThreadStore, ThreadWritePage
<1>10. CASE MainStore \/ MainWritePage
  BY <1>2, <1>6, <1>10 DEF MainStore, MainWritePage
<1>11. CASE data_storage_update \/ UNCHANGED vars
  BY <1>7, <1>11 DEF data_storage_update, vars, history
<1> QED
  BY <1>1, <1>4, <1>5, <1>8, <1>9, <1>10, <1>11 DEF Next, ThreadStep, MainStep, Busy

LEMMA RestInit ==
  ASSUME LeadAcid, Init
  PROVE  RestInv
<1>1. \A t \in Threads : pc[t].at = "idle"
  BY DEF Init, Idle
<1>2. Fixed
  BY RestoredFields DEF Init, Fixed
<1>3. Copies
  <2>1. \A i \in 1 .. 20 : bat_conf_user[CopyOrder[i]] = bat_conf[CopyOrder[i]]
    BY RestoredFields, CopiedAreSettings DEF Init
  <2> QED
    BY <1>1, <2>1 DEF Init, Copies
<1>4. Written
  BY DEF Init, Written
<1> QED
  BY <1>2, <1>3, <1>4, ConfInit, TypeInit, RecordInit, PagesInit DEF RestInv

LEMMA RestAlways == LeadAcid /\ OneThread => (Spec => []RestInv)
<1>1. LeadAcid /\ OneThread /\ Init => RestInv
  BY RestInit
<1>2. ASSUME LeadAcid, OneThread, RestInv, [Next]_vars
      PROVE  RestInv'
  <2>1. ConfInv' /\ TypeInv' /\ RecordInv' /\ PagesInv' /\ Fixed' /\ Copies'
    BY <1>2, ConfStep, TypeStep, RecordStep, PagesStep, FixedStep, CopiesStep DEF RestInv
  <2> QED
    BY <1>2, <2>1, WrittenStep DEF RestInv
<1>3. LeadAcid /\ OneThread /\ RestInv /\ [Next]_vars => RestInv'
  BY <1>2
<1>4. LeadAcid /\ OneThread => LeadAcid' /\ OneThread'
  BY DEF LeadAcid, OneThread
<1> QED
  BY <1>1, <1>3, <1>4, PTL DEF Spec

(***************************************************************************)
(* With lead-acid factory settings and one communication thread: whenever  *)
(* the thread is at rest, what clients read and what the load output obeys *)
(* is the configuration in force, and so is what a restart would bring     *)
(* back, unless the memory has refused the latest write; whatever has been *)
(* asked for, accepted or rejected, and wherever the supply has failed     *)
(* before (data_objects_update_conf(), data_storage_write()).              *)
(***************************************************************************)
THEOREM OneConfigurationAtRest == LeadAcid /\ OneThread => (Spec => []AtRestAgreed)
<1>1. ASSUME RestInv, \A t \in Threads : pc[t] = Idle
      PROVE  /\ \A s \in InForce : bat_conf_user[s] = bat_conf[s]
             /\ load_limits = Limits(bat_conf)
             /\ data_buf_lock = "free" /\ ~spoiled => Restored(record).active = bat_conf
  <2>1. \A t \in Threads : pc[t].at = "idle"
    BY <1>1 DEF Idle
  <2>2. \A i \in 1 .. 20 : bat_conf_user[CopyOrder[i]] = bat_conf[CopyOrder[i]]
    BY <1>1, <2>1 DEF RestInv, Copies, AllAt
  <2>3. InForce \subseteq Copied
    BY SettingNames DEF InForce
  <2>4. \A s \in InForce : bat_conf_user[s] = bat_conf[s]
    BY <2>2, <2>3, AbsoluteMax
  <2> QED
    BY <1>1, <2>1, <2>4 DEF RestInv, Copies, Written, AllAt
<1>2. RestInv => AtRestAgreed
  BY <1>1 DEF AtRestAgreed
<1>3. LeadAcid /\ OneThread => LeadAcid' /\ OneThread'
  BY DEF LeadAcid, OneThread
<1> QED
  BY <1>2, <1>3, RestAlways, PTL

-------------------------------------------------------------------------------
\* The cut-off current and the capacity are those of the factory.
FactoryCutoff(c) == \A s \in CutoffSettings : c[s] = Factory[s]

NobodyAsks == \A request \in Requests : DOMAIN request \cap CutoffSettings = {}

LEMMA CutoffIsStored == CutoffSettings \subseteq Items /\ CutoffSettings \subseteq Copied
  BY SettingNames DEF CutoffSettings, Copied, CopyOrder, Items

\* C/10 is not less than 10% of the capacity.
LEMMA LithiumImplausible ==
  ASSUME Lithium, NEW c, FactoryCutoff(c)
  PROVE  ~battery_conf_check(c)
<1>1. CapacityAh \in Nat
  BY ConfigurationAssumption
<1>2. Cell[Type].cutoff = 100
  <2>1. LithiumCell.cutoff = 100 /\ NmcCell.cutoff = 100
    BY DEF NmcCell, LithiumCell, LeadAcidCell
  <2>2. "cutoff" \in DOMAIN LithiumCell /\ "cutoff" \in DOMAIN NmcCell
    BY DEF NmcCell, LithiumCell, LeadAcidCell
  <2>3. Cell["LFP"].cutoff = LithiumCell.cutoff
    <3>1. Cell["LFP"] = [LithiumCell EXCEPT !.absolute_max = 3600, !.topping = 3550,
                                            !.recharge = 3350, !.disconnect = 3000,
                                            !.reconnect = 3150, !.absolute_min = 2000]
      BY DEF Cell
    <3> QED
      BY <2>2, <3>1
  <2>4. Cell["NMC_HV"].cutoff = NmcCell.cutoff
    <3>1. Cell["NMC_HV"] = [NmcCell EXCEPT !.absolute_max = 4400, !.topping = 4350]
      BY DEF Cell
    <3> QED
      BY <2>2, <3>1
  <2>5. Cell["NMC"] = NmcCell
    BY DEF Cell
  <2> QED
    BY <2>1, <2>3, <2>4, <2>5 DEF Lithium
<1>3. Factory.topping_cutoff_current = CapacityAh * 100 /\ Factory.nominal_capacity = CapacityAh
  BY <1>2 DEF Factory, battery_conf_init
<1>4. c.topping_cutoff_current = CapacityAh * 100 /\ c.nominal_capacity = CapacityAh
  BY <1>3 DEF FactoryCutoff, CutoffSettings
<1> QED
  BY <1>1, <1>4 DEF battery_conf_check

\* Start-up refuses such a record, and a blank memory as well.
LEMMA FactoryRestored ==
  ASSUME Lithium, NEW r, Valid(r) => FactoryCutoff(r.data)
  PROVE  Restored(r).active = Factory /\ FactoryCutoff(Restored(r).user)
<1> DEFINE initial == battery_conf_overwrite(Factory, Blank)
           user == IF Valid(r)
                   THEN [s \in Settings |-> IF s \in Items THEN r.data[s] ELSE initial[s]]
                   ELSE initial
<1>1. FactoryCutoff(initial)
  BY CutoffIsStored DEF battery_conf_overwrite, FactoryCutoff, Items, Settings
<1>2. FactoryCutoff(user)
  BY <1>1, CutoffIsStored DEF FactoryCutoff, Items
<1>3. ~battery_conf_check(user)
  BY <1>2, LithiumImplausible
<1>4. Restored(r).active = Factory
  BY <1>3 DEF Restored
<1>5. \A s \in Copied : Restored(r).user[s] = Factory[s]
  BY <1>4, RestoredFields
<1> QED
  BY <1>4, <1>5, CutoffIsStored DEF FactoryCutoff

\* A thread that neither copies into force nor is going to write another cut-off current.
Harmless(state) ==
  /\ state.at # "accept"
  /\ state.at = "write" => DOMAIN state.left \cap CutoffSettings = {}

(***************************************************************************)
(* Whatever a request may still write, what clients see, what is being     *)
(* stored and what can be read back has the cut-off current of the         *)
(* factory, so that no copy into force ever begins.                        *)
(***************************************************************************)
SealedInv ==
  /\ bat_conf = Factory
  /\ FactoryCutoff(bat_conf_user)
  /\ \A t \in Threads : Harmless(pc[t])
  /\ data_buf_lock # "free" => FactoryCutoff(buf)
  /\ Valid(record) => FactoryCutoff(record.data)

LEMMA SealedInit ==
  ASSUME Lithium, Init
  PROVE  SealedInv
<1>1. \A t \in Threads : pc[t].at = "idle"
  BY DEF Init, Idle
<1>2. ~Valid(record)
  BY EmptyInvalid DEF Init
<1>3. bat_conf = Factory /\ FactoryCutoff(bat_conf_user)
  BY EmptyInvalid, FactoryRestored DEF Init
<1> QED
  BY <1>1, <1>2, <1>3 DEF SealedInv, Harmless, Init

LEMMA SealedThread ==
  ASSUME Lithium, NobodyAsks, TypeInv, SealedInv, NEW t \in Threads,
         Receive(t) \/ WriteValue(t) \/ Check(t) \/ Accept(t) \/ Reject(t) \/ SetLimits(t)
  PROVE  SealedInv'
<1>d. /\ DOMAIN pc = Threads /\ DOMAIN bat_conf_user = Settings
      /\ CutoffSettings \subseteq Settings
  BY CutoffIsStored DEF TypeInv, Items
<1>k. ASSUME NEW state, Goto(t, state), Harmless(state)
      PROVE  \A other \in Threads : Harmless(pc'[other])
  BY <1>k, <1>d, Gone DEF SealedInv
<1>u. ASSUME NEW s, NEW value, bat_conf_user' = [bat_conf_user EXCEPT ![s] = value],
             s \in CutoffSettings => value = Factory[s]
      PROVE  FactoryCutoff(bat_conf_user)'
  BY <1>u, <1>d DEF FactoryCutoff, SealedInv
<1>1. ASSUME UNCHANGED store, bat_conf' = bat_conf, FactoryCutoff(bat_conf_user)',
             \A other \in Threads : Harmless(pc'[other])
      PROVE  SealedInv'
  BY <1>1 DEF SealedInv, store, Valid, FactoryCutoff
<1>2. CASE Receive(t)
  <2>1. PICK request \in Requests : Goto(t, [at |-> "write", left |-> request])
    BY <1>2 DEF Receive
  <2>2. Harmless([at |-> "write", left |-> request])
    BY DEF NobodyAsks, Harmless
  <2>3. \A other \in Threads : Harmless(pc'[other])
    BY <1>k, <2>1, <2>2
  <2> QED
    BY <1>1, <1>2, <2>3 DEF Receive, conf, SealedInv, FactoryCutoff
<1>3. CASE WriteValue(t)
  <2>1. PICK s \in DOMAIN pc[t].left :
          LET rest == DOMAIN pc[t].left \ {s}
          IN  /\ bat_conf_user' = [bat_conf_user EXCEPT ![s] = pc[t].left[s]]
              /\ Goto(t, IF rest = {} THEN [at |-> "check"]
                         ELSE [at |-> "write", left |-> [r \in rest |-> pc[t].left[r]]])
    BY <1>3 DEF WriteValue
  <2> DEFINE rest == DOMAIN pc[t].left \ {s}
             state == IF rest = {} THEN [at |-> "check"]
                      ELSE [at |-> "write", left |-> [r \in rest |-> pc[t].left[r]]]
  <2>2. DOMAIN pc[t].left \cap CutoffSettings = {}
    BY <1>3 DEF WriteValue, Step, SealedInv, Harmless
  <2>3. Harmless(state)
    BY <2>2 DEF Harmless
  <2>4. \A other \in Threads : Harmless(pc'[other])
    BY <1>k, <2>1, <2>3
  <2>5. FactoryCutoff(bat_conf_user)'
    BY <1>u, <2>1, <2>2
  <2> QED
    BY <1>1, <1>3, <2>4, <2>5 DEF WriteValue
<1>4. CASE Check(t)
  <2>1. ~battery_conf_check(bat_conf_user)
    BY LithiumImplausible DEF SealedInv
  <2>2. Goto(t, [at |-> "reject", next |-> 1])
    BY <1>4, <2>1 DEF Check
  <2>3. \A other \in Threads : Harmless(pc'[other])
    BY <1>k, <2>2 DEF Harmless
  <2> QED
    BY <1>1, <1>4, <2>3 DEF Check, conf, SealedInv, FactoryCutoff
<1>5. CASE Accept(t)
  <2>1. pc[t].at = "accept"
    BY <1>5 DEF Accept, Step
  <2> QED
    BY <2>1 DEF SealedInv, Harmless
<1>6. CASE Reject(t)
  <2>1. PICK i \in DOMAIN CopyOrder :
          /\ bat_conf_user' = [bat_conf_user EXCEPT ![CopyOrder[i]] = bat_conf[CopyOrder[i]]]
          /\ After(t, i, "store")
    BY <1>6 DEF Reject
  <2>2. pc[t].at = "reject"
    BY <1>6 DEF Reject, Step
  <2>3. \A other \in Threads : Harmless(pc'[other])
    <3>1. CASE i < Len(CopyOrder)
      <4>1. Goto(t, [at |-> "reject", next |-> i + 1])
        BY <2>1, <2>2, <3>1 DEF After
      <4> QED
        BY <1>k, <4>1 DEF Harmless
    <3>2. CASE ~(i < Len(CopyOrder))
      <4>1. Goto(t, [at |-> "store"])
        BY <2>1, <3>2 DEF After
      <4> QED
        BY <1>k, <4>1 DEF Harmless
    <3> QED
      BY <3>1, <3>2
  <2>4. FactoryCutoff(bat_conf_user)'
    BY <1>u, <2>1 DEF SealedInv
  <2> QED
    BY <1>1, <1>6, <2>3, <2>4 DEF Reject
<1>7. CASE SetLimits(t)
  <2>1. \A other \in Threads : Harmless(pc'[other])
    BY <1>7, <1>k DEF SetLimits, Harmless
  <2> QED
    BY <1>1, <1>7, <2>1 DEF SetLimits, SealedInv, FactoryCutoff
<1> QED
  BY <1>2, <1>3, <1>4, <1>5, <1>6, <1>7

LEMMA SealedStep ==
  ASSUME Lithium, NobodyAsks, TypeInv, SealedInv, [Next]_vars
  PROVE  SealedInv'
<1> DEFINE Resting == \A t \in Threads : Harmless(pc[t])
<1>d. DOMAIN pc = Threads /\ Resting
  BY DEF TypeInv, SealedInv
<1>1. ASSUME NEW t, BeginStore(t), UNCHANGED conf, Resting'
      PROVE  SealedInv'
  <2>1. FactoryCutoff(Exported)
    BY CutoffIsStored DEF Exported, FactoryCutoff, SealedInv
  <2> QED
    BY <1>1, <2>1 DEF BeginStore, conf, SealedInv, FactoryCutoff, Valid
<1>2. ASSUME NEW t, t # "free", WritePage(t), UNCHANGED conf, Resting'
      PROVE  SealedInv'
  <2>1. data_buf_lock = t /\ data_buf_lock' = t /\ buf' = buf /\ record'.crc = buf
    BY <1>2 DEF WritePage
  <2>2. FactoryCutoff(buf)
    BY <1>2, <2>1 DEF SealedInv
  <2>3. Valid(record)' => record'.data = buf
    BY <2>1 DEF Valid
  <2> QED
    BY <1>2, <2>1, <2>2, <2>3 DEF conf, SealedInv, FactoryCutoff
<1>3. ASSUME NEW failed, Release(failed), UNCHANGED <<conf, record>>, Resting'
      PROVE  SealedInv'
  BY <1>3 DEF Release, conf, SealedInv, FactoryCutoff, Valid
<1>4. ASSUME NEW t \in Threads, ThreadStore(t)
      PROVE  SealedInv'
  <2>1. Resting'
    BY <1>4, <1>d DEF ThreadStore, Goto, Harmless
  <2> QED
    BY <1>1, <1>4, <2>1 DEF ThreadStore
<1>5. ASSUME NEW t \in Threads, ThreadWritePage(t)
      PROVE  SealedInv'
  <2>1. Resting'
    BY <1>5, <1>d DEF ThreadWritePage
  <2> QED
    BY <1>2, <1>5, <2>1, ConfigurationAssumption DEF ThreadWritePage
<1>6. ASSUME NEW t \in Threads, ThreadStored(t)
      PROVE  SealedInv'
  <2>1. Resting'
    BY <1>6, <1>d DEF ThreadStored, Goto, Idle, Harmless
  <2> QED
    BY <1>3, <1>6, <2>1 DEF ThreadStored, EndStore, FailStore
<1>7. CASE MainStep
  <2>1. Resting' /\ UNCHANGED conf
    BY <1>7, <1>d DEF MainStep, MainStore, MainWritePage, MainStored
  <2> QED
    BY <1>1, <1>2, <1>3, <1>7, <2>1
       DEF MainStep, MainStore, MainWritePage, MainStored, EndStore, FailStore
<1>8. CASE PowerFailure
  <2>1. PICK r \in {Empty, record} : Started(r)
    BY <1>8, FromRecord
  <2>2. Valid(r) => FactoryCutoff(r.data)
    BY <2>1, EmptyInvalid DEF SealedInv
  <2>3. bat_conf' = Factory /\ FactoryCutoff(bat_conf_user)'
    BY <2>1, <2>2, FactoryRestored DEF Started, FactoryCutoff
  <2>4. Resting'
    BY <1>8 DEF PowerFailure, Idle, Harmless
  <2> QED
    BY <1>8, <2>3, <2>4, FromRecord DEF PowerFailure, Release, SealedInv, FactoryCutoff, Valid
<1>9. CASE data_storage_update \/ UNCHANGED vars
  BY <1>9 DEF data_storage_update, vars, conf, store, SealedInv, FactoryCutoff, Valid
<1> QED
  BY <1>4, <1>5, <1>6, <1>7, <1>8, <1>9, SealedThread DEF Next, ThreadStep

(***************************************************************************)
(* A lithium battery of a capacity in steps of 5 Ah keeps its factory      *)
(* settings for ever, whatever clients ask for in however many threads,    *)
(* unless one of them asks for another cut-off current or capacity: the    *)
(* check refuses everything else, at start-up, too (battery_conf_init(),   *)
(* battery_conf_check()).                                                  *)
(***************************************************************************)
THEOREM LithiumKeepsFactory == Spec => []FactoryPrevails
<1>1. Lithium /\ NobodyAsks /\ Init => SealedInv
  BY SealedInit
<1>2. Lithium /\ NobodyAsks /\ TypeInv /\ SealedInv /\ [Next]_vars => SealedInv'
  BY SealedStep
<1>3. (Lithium /\ NobodyAsks => SealedInv) => FactoryPrevails
  BY DEF FactoryPrevails, NobodyAsks, SealedInv
<1>4. (Lithium /\ NobodyAsks)' <=> Lithium /\ NobodyAsks
  BY DEF Lithium, NobodyAsks
<1> QED
  BY <1>1, <1>2, <1>3, <1>4, TypeAlways, PTL DEF Spec

-------------------------------------------------------------------------------
\* Division by a positive number.
LEMMA Division ==
  ASSUME NEW w \in Nat \ {0}, NEW d \in Nat
  PROVE  /\ d \div w \in Nat
         /\ (d \div w) * w <= d
         /\ d <= (d \div w) * w + w - 1
  BY SMT

LEMMA DivisionGrows ==
  ASSUME NEW w \in Nat \ {0}, NEW d \in Nat, NEW e \in Nat, d <= e
  PROVE  d \div w <= e \div w
  BY SMT

LEMMA Distributes ==
  ASSUME NEW a \in Nat, NEW b \in Nat, NEW w \in Nat
  PROVE  (a + b) * w = a * w + b * w
  BY SMT

\* The type invariant, variable by variable.
Types ==
  /\ day \in [Counters -> Nat] /\ total \in [Counters -> Nat] /\ prev \in [Counters -> Nat]
  /\ energy \in [Counters -> Nat]
  /\ stored.total \in [Counters -> Nat] /\ known.energy \in [Counters -> Nat]
  /\ starts \in Nat /\ known.starts \in Nat
  /\ first_call \in BOOLEAN
  /\ seconds_zero_solar \in 0 .. Night + 1
  /\ first_call => day = Zero

PeakTypes ==
  /\ peak_day \in [Peaks -> 0 .. MaxPower] /\ peak_total \in [Peaks -> 0 .. MaxPower]
  /\ highest \in [Peaks -> 0 .. MaxPower]
  /\ stored.peak_total \in [Peaks -> 0 .. MaxPower]
  /\ known.highest \in [Peaks -> 0 .. MaxPower]

LEMMA TypeParts == EnergyTypeOK <=> Types /\ PeakTypes
  BY DEF EnergyTypeOK, Types, PeakTypes

LEMMA ZeroType == Zero \in [Counters -> Nat] /\ \A c \in Counters : Zero[c] = 0
  BY DEF Zero

LEMMA NoPeakType == NoPeak \in [Peaks -> 0 .. MaxPower]
  BY EnergyAssumption DEF NoPeak

\* What a second does, spelled out.
LEMMA SecondMeans ==
  ASSUME Types, Second
  PROVE  \E gain \in [Counters -> 0 .. MaxPower], sunrise \in BOOLEAN :
           /\ prev' = IF sunrise \/ first_call THEN total ELSE prev
           /\ day' = IF sunrise THEN Zero ELSE [c \in Counters |-> day[c] + gain[c]]
           /\ total' = [c \in Counters |-> prev'[c] + (day'[c] \div Wh)]
           /\ energy' = [c \in Counters |-> energy[c] + gain[c]]
           /\ starts' = IF sunrise THEN starts + 1 ELSE starts
           /\ first_call' = FALSE
           /\ seconds_zero_solar' \in 0 .. Night + 1
           /\ stored' = stored /\ known' = known
<1>1. PICK gain \in Gains, dark \in BOOLEAN :
        LET sunrise == ~dark /\ seconds_zero_solar > Night
        IN  /\ update_energy(energy_balance(gain), dark)
            /\ energy' = [c \in Counters |-> energy[c] + gain[c]]
            /\ starts' = IF sunrise THEN starts + 1 ELSE starts
            /\ stored' = stored /\ known' = known
  BY DEF Second
<1> DEFINE sunrise == ~dark /\ seconds_zero_solar > Night
<1>2. gain \in [Counters -> 0 .. MaxPower] /\ sunrise \in BOOLEAN
  BY DEF Gains
<1>3. seconds_zero_solar' \in 0 .. Night + 1
  BY <1>1, EnergyAssumption DEF update_energy, Types
<1>4. /\ prev' = IF sunrise \/ first_call THEN total ELSE prev
      /\ day' = IF sunrise THEN Zero ELSE [c \in Counters |-> day[c] + gain[c]]
      /\ total' = [c \in Counters |-> prev'[c] + (day'[c] \div Wh)]
      /\ first_call' = FALSE
  BY <1>1 DEF update_energy, energy_balance, Count, Whole
<1> QED
  BY <1>1, <1>2, <1>3, <1>4

\* What a restart does, with the record it finds and what had been known of it.
LEMMA RestartMeans ==
  ASSUME Restart
  PROVE  \E r, k :
           /\ (r = stored /\ k = known) \/ (r = EmptyTotals /\ k = Unknown)
           /\ total' = r.total /\ peak_total' = r.peak_total /\ stored' = r
           /\ day' = Zero /\ prev' = Zero /\ peak_day' = NoPeak
           /\ first_call' = TRUE /\ seconds_zero_solar' = 0
           /\ energy' = k.energy /\ starts' = k.starts + 1
           /\ highest' = k.highest
           /\ known' = k
<1> DEFINE Begun(r, k) ==
             /\ total' = r.total /\ peak_total' = r.peak_total /\ stored' = r
             /\ day' = Zero /\ prev' = Zero /\ peak_day' = NoPeak
             /\ first_call' = TRUE /\ seconds_zero_solar' = 0
             /\ energy' = k.energy /\ starts' = k.starts + 1
             /\ highest' = k.highest
             /\ known' = k
<1>1. Begun(stored, known) \/ Begun(EmptyTotals, Unknown)
  BY DEF Restart
<1> QED
  BY <1>1

-------------------------------------------------------------------------------
(***************************************************************************)
(* The books of one counter: t, p, d, e stand for total, prev, day and     *)
(* energy, s for the number of starts.                                     *)
(***************************************************************************)
Books(first, t, p, d, e, s) ==
  IF first THEN t * Wh <= e /\ e <= t * Wh + s * LossPerStart
  ELSE /\ t = p + (d \div Wh)
       /\ p * Wh + d <= e
       /\ e <= p * Wh + d + s * LossPerStart

\* The books of a counter in the storage.
Kept(t, e, s) == t * Wh <= e /\ e <= t * Wh + s * LossPerStart + Wh - 1

EnergyInv ==
  /\ Types
  /\ \A c \in Counters :
       /\ Books(first_call, total[c], prev[c], day[c], energy[c], starts)
       /\ Kept(stored.total[c], known.energy[c], known.starts)

LEMMA LossType == LossPerStart \in Nat /\ LossPerStart >= Wh - 1 /\ LossPerStart >= MaxPower
  BY EnergyAssumption DEF LossPerStart

\* Books in order give the two bounds.
LEMMA BooksKept ==
  ASSUME NEW first \in BOOLEAN, NEW t \in Nat, NEW p \in Nat, NEW d \in Nat, NEW e \in Nat,
         NEW s \in Nat, Books(first, t, p, d, e, s)
  PROVE  Kept(t, e, s)
<1> DEFINE k == s * LossPerStart
<1>1. k \in Nat
  BY LossType
<1>2. CASE first
  <2>1. t * Wh <= e /\ e <= t * Wh + k
    BY <1>2 DEF Books
  <2>2. t * Wh \in Nat /\ Wh \in Nat \ {0}
    BY EnergyAssumption
  <2> HIDE DEF k
  <2>3. e <= t * Wh + k + Wh - 1
    BY <1>1, <2>1, <2>2
  <2> QED
    BY <2>1, <2>3 DEF Kept, k
<1>3. CASE ~first
  <2> DEFINE q == d \div Wh
  <2>1. t = p + q /\ p * Wh + d <= e /\ e <= p * Wh + d + k
    BY <1>3 DEF Books
  <2>2. q \in Nat /\ q * Wh <= d /\ d <= q * Wh + Wh - 1
    BY Division, EnergyAssumption
  <2> HIDE DEF k, q
  <2>3. t * Wh = p * Wh + q * Wh
    BY <2>1, <2>2, Distributes, EnergyAssumption
  <2>4. p * Wh \in Nat /\ q * Wh \in Nat /\ Wh \in Nat
    BY <2>2, EnergyAssumption
  <2>5. t * Wh <= e /\ e <= t * Wh + k + Wh - 1
    BY <1>1, <2>1, <2>2, <2>3, <2>4
  <2> QED
    BY <2>5 DEF Kept, k
<1> QED
  BY <1>2, <1>3

\* A start adds one loss to what is excused.
LEMMA OneMoreStart ==
  ASSUME NEW s \in Nat
  PROVE  (s + 1) * LossPerStart = s * LossPerStart + LossPerStart /\ s * LossPerStart \in Nat
  BY LossType, Distributes

\* Books stay in order over a second.
LEMMA BooksSecond ==
  ASSUME NEW first \in BOOLEAN, NEW t \in Nat, NEW p \in Nat, NEW d \in Nat, NEW e \in Nat,
         NEW s \in Nat, NEW g \in 0 .. MaxPower, NEW sunrise \in BOOLEAN,
         first => d = 0, Books(first, t, p, d, e, s),
         NEW p1, p1 = IF sunrise \/ first THEN t ELSE p,
         NEW d1, d1 = IF sunrise THEN 0 ELSE d + g
  PROVE  Books(FALSE, p1 + (d1 \div Wh), p1, d1, e + g, IF sunrise THEN s + 1 ELSE s)
<1>1. g \in Nat /\ g <= MaxPower /\ MaxPower \in Nat /\ Wh \in Nat
  BY EnergyAssumption
<1>2. t * Wh \in Nat /\ p * Wh \in Nat
  BY EnergyAssumption
<1> DEFINE k == s * LossPerStart
<1>3. k \in Nat
  BY LossType
<1>4. CASE sunrise
  <2>1. t * Wh <= e /\ e <= t * Wh + k + Wh - 1
    BY BooksKept DEF Kept
  <2>2. (s + 1) * LossPerStart = k + (Wh - 1 + MaxPower)
    BY OneMoreStart DEF LossPerStart
  <2> HIDE DEF k
  <2>3. t * Wh + 0 <= e + g /\ e + g <= t * Wh + 0 + (k + (Wh - 1 + MaxPower))
    BY <1>1, <1>2, <1>3, <2>1
  <2>4. p1 = t /\ d1 = 0
    BY <1>4
  <2> QED
    BY <1>4, <2>2, <2>3, <2>4 DEF Books
<1>5. CASE ~sunrise /\ first
  <2>1. t * Wh <= e /\ e <= t * Wh + k /\ d = 0
    BY <1>5 DEF Books
  <2>2. p1 = t /\ d1 = g
    BY <1>1, <1>5, <2>1
  <2> HIDE DEF k
  <2>3. t * Wh + g <= e + g /\ e + g <= t * Wh + g + k
    BY <1>1, <1>2, <1>3, <2>1
  <2> QED
    BY <1>5, <2>2, <2>3 DEF Books, k
<1>6. CASE ~sunrise /\ ~first
  <2>1. p * Wh + d <= e /\ e <= p * Wh + d + k
    BY <1>6 DEF Books
  <2>2. p1 = p /\ d1 = d + g
    BY <1>6
  <2> HIDE DEF k
  <2>3. p * Wh + (d + g) <= e + g /\ e + g <= p * Wh + (d + g) + k
    BY <1>1, <1>2, <1>3, <2>1
  <2> QED
    BY <1>6, <2>2, <2>3 DEF Books, k
<1> QED
  BY <1>4, <1>5, <1>6
LEMMA BooksInit == EnergyInit => EnergyInv
<1> SUFFICES ASSUME EnergyInit
             PROVE  EnergyInv
  OBVIOUS
<1>1. Types
  BY ZeroType, EnergyAssumption DEF EnergyInit, Types, EmptyTotals, Unknown
<1>2. ASSUME NEW c \in Counters
      PROVE  /\ Books(first_call, total[c], prev[c], day[c], energy[c], starts)
             /\ Kept(stored.total[c], known.energy[c], known.starts)
  <2>1. 0 * Wh = 0 /\ 0 * LossPerStart = 0 /\ Wh \in Nat \ {0}
    BY LossType, EnergyAssumption
  <2> QED
    BY <2>1, ZeroType DEF EnergyInit, EmptyTotals, Unknown, Books, Kept
<1> QED
  BY <1>1, <1>2 DEF EnergyInv

LEMMA EnergyStep == EnergyInv /\ [EnergyNext]_energyVars => EnergyInv'
<1> SUFFICES ASSUME EnergyInv, [EnergyNext]_energyVars
             PROVE  EnergyInv'
  OBVIOUS
<1> USE DEF EnergyInv
<1>1. CASE Second
  <2>1. PICK gain \in [Counters -> 0 .. MaxPower], sunrise \in BOOLEAN :
           /\ prev' = IF sunrise \/ first_call THEN total ELSE prev
           /\ day' = IF sunrise THEN Zero ELSE [c \in Counters |-> day[c] + gain[c]]
           /\ total' = [c \in Counters |-> prev'[c] + (day'[c] \div Wh)]
           /\ energy' = [c \in Counters |-> energy[c] + gain[c]]
           /\ starts' = IF sunrise THEN starts + 1 ELSE starts
           /\ first_call' = FALSE
           /\ seconds_zero_solar' \in 0 .. Night + 1
           /\ stored' = stored /\ known' = known
    BY <1>1, SecondMeans
  <2>2. prev' \in [Counters -> Nat] /\ day' \in [Counters -> Nat]
    BY <2>1, ZeroType, EnergyAssumption DEF Types
  <2>3. \A c \in Counters : (day'[c] \div Wh) \in Nat
    BY <2>2, Division, EnergyAssumption
  <2>4. total' \in [Counters -> Nat] /\ energy' \in [Counters -> Nat] /\ starts' \in Nat
    BY <2>1, <2>2, <2>3, EnergyAssumption DEF Types
  <2>5. Types'
    BY <2>1, <2>2, <2>4 DEF Types
  <2>6. ASSUME NEW c \in Counters
        PROVE  Books(first_call, total[c], prev[c], day[c], energy[c], starts)'
    <3> DEFINE t == total[c]  p == prev[c]  d == day[c]  e == energy[c]  g == gain[c]
    <3>1. /\ t \in Nat /\ p \in Nat /\ d \in Nat /\ e \in Nat /\ starts \in Nat
          /\ g \in 0 .. MaxPower /\ first_call \in BOOLEAN
          /\ first_call => d = 0
          /\ Books(first_call, t, p, d, e, starts)
      BY ZeroType DEF Types
    <3>2. prev'[c] = IF sunrise \/ first_call THEN t ELSE p
      BY <2>1
    <3>3. day'[c] = IF sunrise THEN 0 ELSE d + g
      BY <2>1, ZeroType
    <3>4. total'[c] = prev'[c] + (day'[c] \div Wh) /\ energy'[c] = e + g
      BY <2>1
    <3> HIDE DEF t, p, d, e, g
    <3>5. Books(FALSE, prev'[c] + (day'[c] \div Wh), prev'[c], day'[c], e + g,
                IF sunrise THEN starts + 1 ELSE starts)
      BY <3>1, <3>2, <3>3, BooksSecond
    <3> QED
      BY <2>1, <3>4, <3>5
  <2> QED
    BY <2>1, <2>5, <2>6
<1>2. CASE Store
  <2>1. Types'
    BY <1>2 DEF Store, counting, Types
  <2>2. ASSUME NEW c \in Counters
        PROVE  Kept(total[c], energy[c], starts)
    BY BooksKept DEF Types
  <2> QED
    BY <1>2, <2>1, <2>2 DEF Store, counting
<1>3. CASE Restart
  <2>1. PICK r, k : /\ (r = stored /\ k = known) \/ (r = EmptyTotals /\ k = Unknown)
                    /\ total' = r.total /\ stored' = r
                    /\ day' = Zero /\ prev' = Zero
                    /\ first_call' = TRUE /\ seconds_zero_solar' = 0
                    /\ energy' = k.energy /\ starts' = k.starts + 1
                    /\ known' = k
    BY <1>3, RestartMeans
  <2>2. /\ r.total \in [Counters -> Nat] /\ k.energy \in [Counters -> Nat] /\ k.starts \in Nat
        /\ \A c \in Counters : Kept(r.total[c], k.energy[c], k.starts)
    <3>1. CASE r = stored /\ k = known
      BY <3>1 DEF Types
    <3>2. CASE r = EmptyTotals /\ k = Unknown
      <4>1. 0 * Wh = 0 /\ 0 * LossPerStart = 0 /\ Wh \in Nat \ {0}
        BY LossType, EnergyAssumption
      <4> QED
        BY <3>2, <4>1, ZeroType DEF EmptyTotals, Unknown, Kept
    <3> QED
      BY <2>1, <3>1, <3>2
  <2>3. Types'
    BY <2>1, <2>2, ZeroType, EnergyAssumption DEF Types
  <2>4. ASSUME NEW c \in Counters
        PROVE  Books(TRUE, r.total[c], 0, 0, k.energy[c], k.starts + 1)
    <3> DEFINE t == r.total[c]  e == k.energy[c]  m == k.starts * LossPerStart
    <3>1. t \in Nat /\ e \in Nat /\ t * Wh <= e /\ e <= t * Wh + m + Wh - 1
      BY <2>2 DEF Kept
    <3>2. (k.starts + 1) * LossPerStart = m + LossPerStart /\ m \in Nat
      BY <2>2, OneMoreStart
    <3>3. t * Wh \in Nat /\ Wh \in Nat
      BY <3>1, EnergyAssumption
    <3> HIDE DEF m, t, e
    <3>4. e <= t * Wh + (m + LossPerStart)
      BY <3>1, <3>2, <3>3, LossType
    <3> QED
      BY <3>1, <3>2, <3>4 DEF Books, t, e
  <2>5. ASSUME NEW c \in Counters
        PROVE  Books(first_call, total[c], prev[c], day[c], energy[c], starts)'
    BY <2>1, <2>4 DEF Books
  <2> QED
    BY <2>1, <2>2, <2>3, <2>5
<1>4. CASE UNCHANGED energyVars
  BY <1>4 DEF energyVars, counting, energyHistory, Types
<1> QED
  BY <1>1, <1>2, <1>3, <1>4 DEF EnergyNext

LEMMA EnergyAlways == EnergySpec => []EnergyInv
  BY BooksInit, EnergyStep, PTL DEF EnergySpec

(***************************************************************************)
(* For every power, unit and length of the night: totals never show energy *)
(* that has not passed, and miss less than a watt-hour and one second for  *)
(* every sunrise and restart (update_energy(), and what the storage keeps).*)
(***************************************************************************)
THEOREM EnergyAccounted == EnergySpec => []Accounted
<1>1. ASSUME EnergyInv
      PROVE  Accounted
  <2>1. ASSUME NEW c \in Counters
        PROVE  Kept(total[c], energy[c], starts)
    BY <1>1, BooksKept DEF EnergyInv, Types
  <2>2. ASSUME NEW c \in Counters
        PROVE  energy[c] - total[c] * Wh <= starts * LossPerStart + Wh - 1
    <3> DEFINE t == total[c] * Wh  k == starts * LossPerStart
    <3>1. energy[c] \in Nat /\ total[c] \in Nat /\ starts \in Nat
      BY <1>1 DEF EnergyInv, Types
    <3>2. t \in Nat /\ k \in Nat /\ Wh \in Nat
      BY <3>1, LossType, EnergyAssumption
    <3>3. energy[c] <= t + k + Wh - 1
      BY <2>1 DEF Kept
    <3> HIDE DEF t, k
    <3>4. energy[c] - t <= k + Wh - 1
      BY <3>1, <3>2, <3>3
    <3> QED
      BY <3>4 DEF t, k
  <2> QED
    BY <2>1, <2>2 DEF Accounted, Kept
<1> QED
  BY <1>1, EnergyAlways, PTL

(***************************************************************************)
(* A total never falls except that a restart sets it to what was stored:   *)
(* at sunrise prev takes over what the counters of the day give up         *)
(* (update_energy()).                                                      *)
(***************************************************************************)
THEOREM TotalsNeverFall == EnergySpec => NeverFalls
<1>1. ASSUME EnergyInv, Second
      PROVE  \A c \in Counters : total'[c] >= total[c]
  <2>1. PICK gain \in [Counters -> 0 .. MaxPower], sunrise \in BOOLEAN :
           /\ prev' = IF sunrise \/ first_call THEN total ELSE prev
           /\ day' = IF sunrise THEN Zero ELSE [c \in Counters |-> day[c] + gain[c]]
           /\ total' = [c \in Counters |-> prev'[c] + (day'[c] \div Wh)]
    BY <1>1, SecondMeans DEF EnergyInv
  <2> SUFFICES ASSUME NEW c \in Counters
               PROVE  total'[c] >= total[c]
    OBVIOUS
  <2>2. total[c] \in Nat /\ prev[c] \in Nat /\ day[c] \in Nat /\ gain[c] \in Nat
    BY <1>1, EnergyAssumption DEF EnergyInv, Types
  <2>3. day'[c] \in Nat
    BY <2>1, <2>2, ZeroType
  <2>4. (day'[c] \div Wh) \in Nat
    BY <2>3, Division, EnergyAssumption
  <2>5. CASE sunrise \/ first_call
    BY <2>1, <2>2, <2>4, <2>5
  <2>6. CASE ~(sunrise \/ first_call)
    <3>1. total[c] = prev[c] + (day[c] \div Wh)
      BY <1>1, <2>6 DEF EnergyInv, Books
    <3>2. day[c] <= day'[c]
      BY <2>1, <2>2, <2>6
    <3>3. (day[c] \div Wh) <= (day'[c] \div Wh) /\ (day[c] \div Wh) \in Nat
      BY <2>2, <2>3, <3>2, DivisionGrows, Division, EnergyAssumption
    <3>4. total'[c] = prev[c] + (day'[c] \div Wh)
      BY <2>1, <2>6
    <3> QED
      BY <2>2, <2>4, <3>1, <3>3, <3>4
  <2> QED
    BY <2>5, <2>6
<1>2. ASSUME EnergyInv, [EnergyNext]_energyVars
      PROVE  [\/ \A c \in Counters : total'[c] >= total[c]
              \/ first_call' /\ total' = stored'.total]_energyVars
  <2>1. CASE Second
    BY <1>1, <1>2, <2>1
  <2>2. CASE Store
    BY <1>2, <2>2 DEF Store, counting, EnergyInv, Types
  <2>3. CASE Restart
    BY <2>3 DEF Restart
  <2> QED
    BY <1>2, <2>1, <2>2, <2>3 DEF EnergyNext
<1> QED
  BY <1>2, EnergyAlways, PTL DEF EnergySpec, NeverFalls

-------------------------------------------------------------------------------
\* The peak of the day is none above the peak of all time, which is the highest power.
PeakInv ==
  /\ PeakTypes
  /\ PeakOfAllTime
  /\ \A c \in Peaks : peak_day[c] <= peak_total[c]
  /\ stored.peak_total = known.highest

LEMMA PeakInit == EnergyInit => PeakInv
<1> SUFFICES ASSUME EnergyInit
             PROVE  PeakInv
  OBVIOUS
<1>1. \A c \in Peaks : NoPeak[c] = 0
  BY DEF NoPeak
<1> QED
  BY <1>1, NoPeakType DEF EnergyInit, EmptyTotals, Unknown, PeakInv, PeakTypes, PeakOfAllTime

LEMMA PeakStep == PeakInv /\ [EnergyNext]_energyVars => PeakInv'
<1> SUFFICES ASSUME PeakInv, [EnergyNext]_energyVars
             PROVE  PeakInv'
  OBVIOUS
<1> USE DEF PeakInv, PeakOfAllTime, PeakTypes
<1>1. CASE Second
  <2>1. PICK gain \in Gains, sunrise \in BOOLEAN :
          /\ update_min_max_values(gain)
          /\ highest' = [c \in Peaks |-> Higher(gain[c], highest[c])]
          /\ stored' = stored /\ known' = known
    <3>1. PICK gain \in Gains, dark \in BOOLEAN :
            LET sunrise == ~dark /\ seconds_zero_solar > Night
            IN  /\ update_min_max_values(gain)
                /\ highest' = [c \in Peaks |-> Higher(gain[c], highest[c])]
                /\ stored' = stored /\ known' = known
      BY <1>1 DEF Second
    <3> QED
      BY <3>1
  <2>2. \A c \in Peaks : gain[c] \in 0 .. MaxPower
    BY DEF Gains, Peaks
  <2>3. \A c \in Peaks :
          /\ peak_day'[c] = IF gain[c] > peak_day[c] THEN gain[c] ELSE peak_day[c]
          /\ peak_total'[c] = IF gain[c] > peak_day[c] /\ gain[c] > peak_total[c]
                              THEN gain[c] ELSE peak_total[c]
    BY <2>1 DEF update_min_max_values
  <2>4. peak_day' \in [Peaks -> 0 .. MaxPower] /\ peak_total' \in [Peaks -> 0 .. MaxPower]
    BY <2>1, <2>2, EnergyAssumption DEF update_min_max_values
  <2>5. highest' \in [Peaks -> 0 .. MaxPower]
    BY <2>1, <2>2, EnergyAssumption DEF Higher
  <2>6. \A c \in Peaks : peak_day'[c] <= peak_total'[c] /\ peak_total'[c] = highest'[c]
    BY <2>1, <2>2, <2>3, EnergyAssumption DEF Higher
  <2>7. peak_total' = highest'
    BY <2>4, <2>5, <2>6
  <2> QED
    BY <2>1, <2>4, <2>5, <2>6, <2>7
<1>2. CASE Store
  BY <1>2 DEF Store, peaks
<1>3. CASE Restart
  <2>1. \A c \in Peaks : NoPeak[c] = 0
    BY DEF NoPeak
  <2>2. PICK r, k : /\ (r = stored /\ k = known) \/ (r = EmptyTotals /\ k = Unknown)
                    /\ peak_total' = r.peak_total /\ stored' = r
                    /\ peak_day' = NoPeak
                    /\ highest' = k.highest
                    /\ known' = k
    BY <1>3, RestartMeans
  <2>3. r.peak_total = k.highest /\ r.peak_total \in [Peaks -> 0 .. MaxPower]
    BY <2>2, NoPeakType DEF EmptyTotals, Unknown
  <2> QED
    BY <2>1, <2>2, <2>3, NoPeakType, EnergyAssumption
<1>4. CASE UNCHANGED energyVars
  BY <1>4 DEF energyVars, peaks, energyHistory
<1> QED
  BY <1>1, <1>2, <1>3, <1>4 DEF EnergyNext

LEMMA PeakAlways == EnergySpec => []PeakInv
  BY PeakInit, PeakStep, PTL DEF EnergySpec

(***************************************************************************)
(* The all-time peak is the highest power there has been and the storage   *)
(* has not lost, although it is compared only when the peak of the day is  *)
(* exceeded (update_min_max_values()).                                     *)
(***************************************************************************)
THEOREM PeaksRemembered == EnergySpec => []PeakOfAllTime
<1>1. PeakInv => PeakOfAllTime
  BY DEF PeakInv
<1> QED
  BY <1>1, PeakAlways, PTL

(***************************************************************************)
(* Counters are natural numbers and peaks within the power there is, for   *)
(* every board (update_energy(), update_min_max_values()).                 *)
(***************************************************************************)
THEOREM EnergyTypes == EnergySpec => []EnergyTypeOK
<1>1. EnergyInv /\ PeakInv => EnergyTypeOK
  BY TypeParts DEF EnergyInv, PeakInv
<1> QED
  BY <1>1, EnergyAlways, PeakAlways, PTL
===============================================================================
