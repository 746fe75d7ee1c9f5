----------------------------- MODULE Configuration -----------------------------
(***************************************************************************)
(* How a battery configuration gets into force and survives a restart:     *)
(* start-up (main.cpp, data_objects_init()), changes by communication      *)
(* threads (data_objects_update_conf()) and the record in EEPROM or flash  *)
(* (data_storage.cpp).                                                     *)
(*                                                                         *)
(* Actors: the communication threads, of lower priority than the main      *)
(* thread and ordered among each other; the main thread, which every six   *)
(* hours stores the same data; the supply, which may fail at any time.     *)
(* The control thread, of the highest priority, only reads: what it may    *)
(* see is any state of this specification.                                 *)
(*                                                                         *)
(* Abstractions: the six hours are an arbitrary moment; the checksum tells *)
(* any two contents apart; the export of one thread is one step (no thread *)
(* of lower priority runs meanwhile, and the main thread changes none of   *)
(* these settings).  The ThingSet library, which writes the values of a    *)
(* request one by one and then calls data_objects_update_conf(), is not    *)
(* part of the repository.  The counters in the record, and what a change  *)
(* of the nominal capacity does to them, are left out.                     *)
(***************************************************************************)
EXTENDS BatConf, Sequences

CONSTANTS
  Type, NumCells, CapacityAh,   \* CONFIG_BAT_TYPE, CONFIG_BAT_NUM_CELLS, CONFIG_BAT_CAPACITY_AH
  Threads,                      \* the communication threads
  Outranks(_, _),               \* the first has a higher priority than the second
  Requests,                     \* what clients may ask for: functions from settings to values
  PageOf(_)                     \* the page of the EEPROM that holds an item

Settings == DOMAIN Blank
Items == Settings \ {"absolute_max_voltage"}
Factory == battery_conf_init(Type, NumCells, CapacityAh)

ASSUME ConfigurationAssumption ==
  /\ Type \in BatType
  /\ NumCells \in 3 .. 16
  /\ CapacityAh \in 10 .. 1000
  /\ Threads \cap {"main", "free"} = {}
  /\ \A request \in Requests : DOMAIN request \subseteq Items
  /\ \A item \in Items : PageOf(item) \in Nat \ {0}

VARIABLES
  bat_conf,           \* in force
  bat_conf_user,      \* where clients write and read
  load_limits,        \* of the load output
  pc,                 \* of each communication thread, with what it still has to do
  main_pc,            \* of the main thread
  data_buf_lock,      \* the thread that owns the buffer, or "free"
  buf,                \* the buffer of data_storage.cpp
  page,               \* pages of it already written
  record,             \* the storage: header and data
  layout              \* the pages of a record

(***************************************************************************)
(* History, read by the properties only.                                   *)
(***************************************************************************)
VARIABLES
  previous,           \* the configuration in force before the latest change
  kept,               \* what has last been written as a whole
  spoiled             \* the latest access to the record has failed

conf == <<bat_conf, bat_conf_user, load_limits>>
store == <<data_buf_lock, buf, page, record>>
history == <<previous, kept, spoiled>>
vars == <<conf, pc, main_pc, store, layout, history>>

Idle == [at |-> "idle"]
Limits(c) ==
  [disconnect |-> c.load_disconnect_voltage, reconnect |-> c.load_reconnect_voltage,
   over |-> c.absolute_max_voltage]

-------------------------------------------------------------------------------
(***************************************************************************)
(* The record.  An EEPROM is written page by page, the header with the     *)
(* checksum before the data; flash (NVS) takes the record as a whole or    *)
(* not at all.                                                             *)
(***************************************************************************)
EepromPages == {PageOf(item) : item \in Items}
NvsPages == {1}

PageHolding(item) == IF layout = NvsPages THEN 1 ELSE PageOf(item)

Exported == [item \in Items |-> bat_conf_user[item]]

Nothing == [item \in Items |-> Blank[item]]
Empty == [crc |-> [Nothing EXCEPT !.nominal_capacity = -1], data |-> Nothing]
Valid(r) == r.crc = r.data

(***************************************************************************)
(* What start-up makes of a record: data_storage_read() followed by the    *)
(* rest of data_objects_init().                                            *)
(***************************************************************************)
Restored(r) ==
  LET initial == battery_conf_overwrite(Factory, Blank)
      user == IF Valid(r) THEN [s \in Settings |-> IF s \in Items THEN r.data[s] ELSE initial[s]]
              ELSE initial
      accepted == battery_conf_check(user)
      active == IF accepted THEN battery_conf_overwrite(user, Factory) ELSE Factory
  IN  [active   |-> active,
       user     |-> IF accepted THEN user ELSE battery_conf_overwrite(Factory, user)]

Started(r) ==
  /\ bat_conf' = Restored(r).active
  /\ bat_conf_user' = Restored(r).user
  /\ load_limits' = Limits(Restored(r).active)

Init ==
  /\ layout \in {EepromPages, NvsPages}
  /\ record = Empty
  /\ bat_conf = Restored(Empty).active
  /\ bat_conf_user = Restored(Empty).user
  /\ load_limits = Limits(Restored(Empty).active)
  /\ pc = [t \in Threads |-> Idle]
  /\ main_pc = "idle"
  /\ data_buf_lock = "free"
  /\ buf = Nothing
  /\ page = 0
  /\ previous = bat_conf
  /\ kept = Nothing
  /\ spoiled = FALSE

-------------------------------------------------------------------------------
(***************************************************************************)
(* Storing.  data_storage_write() waits for the buffer, fills it, writes   *)
(* the record and releases the buffer, also after an error.                *)
(***************************************************************************)
BeginStore(t) ==
  /\ data_buf_lock = "free"
  /\ data_buf_lock' = t
  /\ buf' = Exported
  /\ page' = 0
  /\ UNCHANGED record

\* (The checksum of what has been stored so far goes into the header.)
StaleHeader(t) ==
  /\ data_buf_lock = t
  /\ \E next \in layout :
       /\ \A p \in layout : p < next <=> p <= page
       /\ record' = [crc  |-> [item \in Items |-> IF PageHolding(item) <= next THEN buf[item]
                                                   ELSE record.data[item]],
                     data |-> [item \in Items |-> IF PageHolding(item) = next THEN buf[item]
                                                  ELSE record.data[item]]]
       /\ page' = next
  /\ UNCHANGED <<data_buf_lock, buf>>

WritePage(t) ==
  /\ data_buf_lock = t
  /\ \E next \in layout :
       /\ \A p \in layout : p < next <=> p <= page
       /\ record' = [crc  |-> buf,
                     data |-> [item \in Items |-> IF PageHolding(item) = next THEN buf[item]
                                                  ELSE record.data[item]]]
       /\ page' = next
  /\ UNCHANGED <<data_buf_lock, buf>>

\* The buffer is released; what it holds is not read again.
Release(failed) ==
  /\ data_buf_lock' = "free"
  /\ buf' = Nothing
  /\ page' = 0
  /\ kept' = IF record.data = buf THEN buf ELSE kept
  /\ spoiled' = failed

EndStore(t) ==
  /\ data_buf_lock = t
  /\ \A p \in layout : p <= page
  /\ Release(FALSE)
  /\ UNCHANGED record

\* (After an error the function returns at once and keeps the buffer.)
FailLocked(t) ==
  /\ data_buf_lock = t
  /\ \E p \in layout : p > page
  /\ spoiled' = TRUE
  /\ UNCHANGED <<store, kept>>

\* The memory reports an error, or is not ready; the driver gives up the rest.
FailStore(t) ==
  /\ data_buf_lock = t
  /\ \E p \in layout : p > page
  /\ Release(TRUE)
  /\ UNCHANGED record

-------------------------------------------------------------------------------
(***************************************************************************)
(* A communication thread runs while nobody of higher priority does.  A    *)
(* thread of higher priority leaves it the processor while it has nothing  *)
(* to do, waits for the memory or waits for the buffer.                    *)
(***************************************************************************)
Scheduled(t) ==
  /\ main_pc = "wait" => data_buf_lock # "free"
  /\ \A other \in Threads :
       Outranks(other, t) => \/ pc[other].at \in {"idle", "eeprom"}
                             \/ pc[other].at = "store" /\ data_buf_lock # "free"

Step(t, from) == Scheduled(t) /\ pc[t].at = from
Goto(t, state) == pc' = [pc EXCEPT ![t] = state]

\* A request arrives; its values are written one at a time.
Receive(t) ==
  /\ Step(t, "idle")
  /\ \E request \in Requests : Goto(t, [at |-> "write", left |-> request])
  /\ UNCHANGED <<conf, main_pc, store, layout, history>>

WriteValue(t) ==
  /\ Step(t, "write")
  /\ \E s \in DOMAIN pc[t].left :
       LET rest == DOMAIN pc[t].left \ {s}
       IN  /\ bat_conf_user' = [bat_conf_user EXCEPT ![s] = pc[t].left[s]]
           /\ Goto(t, IF rest = {} THEN [at |-> "check"]
                      ELSE [at |-> "write", left |-> [r \in rest |-> pc[t].left[r]]])
  /\ UNCHANGED <<bat_conf, load_limits, main_pc, store, layout,
                 history>>

\* (The outcome of the check is only logged.)
CheckLogged(t) ==
  /\ Step(t, "check")
  /\ Goto(t, [at |-> "accept", next |-> 1])
  /\ previous' = bat_conf
  /\ UNCHANGED <<conf, main_pc, store, layout, kept, spoiled>>

Check(t) ==
  /\ Step(t, "check")
  /\ Goto(t, [at |-> IF battery_conf_check(bat_conf_user) THEN "accept" ELSE "reject",
              next |-> 1])
  /\ previous' = bat_conf
  /\ UNCHANGED <<conf, main_pc, store, layout, kept, spoiled>>

(***************************************************************************)
(* battery_conf_overwrite(), one assignment after the other; those that    *)
(* change nothing are part of the step that follows them.                  *)
(***************************************************************************)
Assigns(t, i, source, destination) ==
  /\ i \in pc[t].next .. Len(CopyOrder)
  /\ \A j \in pc[t].next .. i - 1 : source[CopyOrder[j]] = destination[CopyOrder[j]]
  /\ i = Len(CopyOrder) \/ source[CopyOrder[i]] # destination[CopyOrder[i]]

After(t, i, done) ==
  Goto(t, IF i < Len(CopyOrder) THEN [at |-> pc[t].at, next |-> i + 1] ELSE [at |-> done])

Accept(t) ==
  /\ Step(t, "accept")
  /\ \E i \in DOMAIN CopyOrder :
       LET s == CopyOrder[i]
       IN  /\ Assigns(t, i, bat_conf_user, bat_conf)
           /\ bat_conf' = [bat_conf EXCEPT ![s] = bat_conf_user[s]]
           /\ After(t, i, "limits")
  /\ UNCHANGED <<bat_conf_user, load_limits, main_pc, store, layout, history>>

\* (The requested voltages are taken back, the rest stays.)
RejectVoltages(t) ==
  /\ Step(t, "reject")
  /\ \E i \in DOMAIN CopyOrder :
       LET s == CopyOrder[i]
       IN  /\ Assigns(t, i, bat_conf, bat_conf_user)
           /\ bat_conf_user' = IF i <= 6 THEN [bat_conf_user EXCEPT ![s] = bat_conf[s]]
                               ELSE bat_conf_user
           /\ After(t, i, "store")
  /\ UNCHANGED <<bat_conf, load_limits, main_pc, store, layout, history>>

Reject(t) ==
  /\ Step(t, "reject")
  /\ \E i \in DOMAIN CopyOrder :
       LET s == CopyOrder[i]
       IN  /\ Assigns(t, i, bat_conf, bat_conf_user)
           /\ bat_conf_user' = [bat_conf_user EXCEPT ![s] = bat_conf[s]]
           /\ After(t, i, "store")
  /\ UNCHANGED <<bat_conf, load_limits, main_pc, store, layout, history>>

SetLimits(t) ==
  /\ Step(t, "limits")
  /\ load_limits' = Limits(bat_conf)
  /\ previous' = bat_conf
  /\ Goto(t, [at |-> "store"])
  /\ UNCHANGED <<bat_conf, bat_conf_user, main_pc, store, layout, kept, spoiled>>

ThreadStore(t) ==
  /\ Step(t, "store")
  /\ BeginStore(t)
  /\ Goto(t, [at |-> "eeprom"])
  /\ UNCHANGED <<conf, main_pc, layout, history>>

ThreadWritePage(t) ==
  /\ Step(t, "eeprom")
  /\ WritePage(t)
  /\ UNCHANGED <<conf, pc, main_pc, layout, history>>

ThreadStored(t) ==
  /\ Step(t, "eeprom")
  /\ EndStore(t) \/ FailStore(t)
  /\ Goto(t, Idle)
  /\ UNCHANGED <<conf, main_pc, layout, previous>>

-------------------------------------------------------------------------------
data_storage_update ==
  /\ main_pc = "idle"
  /\ main_pc' = "wait"
  /\ UNCHANGED <<conf, pc, store, layout, history>>

MainStore ==
  /\ main_pc = "wait"
  /\ BeginStore("main")
  /\ main_pc' = "eeprom"
  /\ UNCHANGED <<conf, pc, layout, history>>

MainWritePage ==
  /\ main_pc = "eeprom"
  /\ WritePage("main")
  /\ UNCHANGED <<conf, pc, main_pc, layout, history>>

MainStored ==
  /\ main_pc = "eeprom"
  /\ EndStore("main") \/ FailStore("main")
  /\ main_pc' = "idle"
  /\ UNCHANGED <<conf, pc, layout, previous>>

(***************************************************************************)
(* Nothing but the record survives a power failure, or a reset.  Start-up  *)
(* is over before another thread starts.  A memory that cannot be read, or *)
(* is not ready, is taken for an empty one; what it holds stays.           *)
(***************************************************************************)
PowerFailure ==
  /\ \E unread \in BOOLEAN :
       /\ Started(IF unread THEN Empty ELSE record)
       /\ Release(unread)
  /\ pc' = [t \in Threads |-> Idle]
  /\ main_pc' = "idle"
  /\ previous' = bat_conf'
  /\ UNCHANGED <<record, layout>>

ThreadStep(t) ==
  WriteValue(t) \/ Check(t) \/ Accept(t) \/ Reject(t) \/ SetLimits(t)
  \/ ThreadStore(t) \/ ThreadWritePage(t) \/ ThreadStored(t)
MainStep == MainStore \/ MainWritePage \/ MainStored

Next ==
  \/ \E t \in Threads : Receive(t) \/ ThreadStep(t)
  \/ data_storage_update \/ MainStep
  \/ PowerFailure

Spec == Init /\ [][Next]_vars

(***************************************************************************)
(* A thread that can run again and again does run: the main thread is busy *)
(* for a moment of every second and stores once in six hours.              *)
(***************************************************************************)
FairSpec ==
  /\ Spec
  /\ \A t \in Threads : SF_vars(ThreadStep(t))
  /\ SF_vars(MainStep)

-------------------------------------------------------------------------------
\* The buffer belongs to whoever is storing; program counters keep to their steps.
TypeOK ==
  /\ DOMAIN bat_conf = Settings
  /\ DOMAIN bat_conf_user = Settings
  /\ \A t \in Threads :
       /\ pc[t].at \in {"idle", "write", "check", "accept", "reject", "limits", "store", "eeprom"}
       /\ pc[t].at = "write" => DOMAIN pc[t].left \subseteq Settings
       /\ pc[t].at \in {"accept", "reject"} => pc[t].next \in DOMAIN CopyOrder
       /\ pc[t].at = "eeprom" <=> data_buf_lock = t
  /\ main_pc \in {"idle", "wait", "eeprom"}
  /\ main_pc = "eeprom" <=> data_buf_lock = "main"
  /\ data_buf_lock \in Threads \cup {"main", "free"}
  /\ page \in layout \cup {0}

(***************************************************************************)
(* Whatever clients ask for, in whatever pieces it arrives and whenever    *)
(* the supply fails: unless a change is being made, the configuration in   *)
(* force passes the plausibility check (the check before the copy in       *)
(* data_objects_update_conf() and again in data_objects_init()).           *)
(***************************************************************************)
ConfInForceValid ==
  (\A t \in Threads : pc[t].at # "accept") => battery_conf_check(bat_conf)

(***************************************************************************)
(* While a change is being made, the control thread reads a configuration  *)
(* that begins with the new settings and goes on with the old ones, all of *)
(* them settings of two configurations that passed the check: it never     *)
(* sees a value that was going to be rejected.                             *)
(***************************************************************************)
OldOrNew ==
  \A t \in Threads : pc[t].at = "accept" =>
    /\ battery_conf_check(bat_conf_user)
    /\ battery_conf_check(previous)
    /\ \A i \in DOMAIN CopyOrder :
         bat_conf[CopyOrder[i]] = IF i < pc[t].next THEN bat_conf_user[CopyOrder[i]]
                                  ELSE previous[CopyOrder[i]]

(***************************************************************************)
(* A record that start-up will take for valid is one snapshot, exported as *)
(* a whole: never pages of two, although the only copy is overwritten in   *)
(* place and the write may stop at any page (data_storage_write()).  The   *)
(* run checks the stronger StoresSnapshots.                                *)
(***************************************************************************)
WholeOrNothing == Valid(record) => record.data \in {kept, buf}

(***************************************************************************)
(* The storage, with its buffer, its pages and whoever writes them, is a   *)
(* store of snapshots of the user's configuration (data_storage_write(),   *)
(* data_storage_read()): every step is one of SnapshotStore, or a stutter. *)
(***************************************************************************)
Storage == INSTANCE SnapshotStore WITH
  source  <- Exported,
  memory  <- IF Valid(record) THEN {record.data} ELSE {},
  pending <- IF data_buf_lock = "free" THEN {} ELSE {buf},
  failed  <- spoiled
StoresSnapshots == Storage!Spec

(***************************************************************************)
(* At rest there is one configuration: what clients read back, what the    *)
(* load output obeys and, unless the latest write or read of the record    *)
(* has failed, what a restart would bring back is the configuration in     *)
(* force; the equalization settings excepted, which the code stores and    *)
(* never puts in force.                                                    *)
(***************************************************************************)
InForce == Settings \ {"equalization_enabled", "equalization_voltage"}
AtRestAgreed ==
  (\A t \in Threads : pc[t] = Idle) =>
    /\ \A s \in InForce : bat_conf_user[s] = bat_conf[s]
    /\ load_limits = Limits(bat_conf)
    /\ data_buf_lock = "free" /\ ~spoiled => Restored(record).active = bat_conf

(***************************************************************************)
(* The factory sets the cut-off current of a lithium battery to C/10, and  *)
(* the check wants less.  So clients that ask for neither another current  *)
(* nor another capacity change nothing, however many of them write at the  *)
(* same time, and no record they leave behind does (battery_conf_init(),   *)
(* battery_conf_check()).  A C/10 that is not exact in floating point may  *)
(* be rounded to less: the capacity is a multiple of 5 Ah.                 *)
(***************************************************************************)
Lithium == Type \in {"LFP", "NMC", "NMC_HV"} /\ CapacityAh % 5 = 0
CutoffSettings == {"topping_cutoff_current", "nominal_capacity"}
FactoryPrevails ==
  Lithium /\ (\A request \in Requests : DOMAIN request \cap CutoffSettings = {})
  => bat_conf = Factory

(***************************************************************************)
(* Every request is dealt with to the end, however the threads contend for *)
(* the buffer and whatever the memory answers.                             *)
(***************************************************************************)
Answered == \A t \in Threads : pc[t] # Idle ~> pc[t] = Idle
===============================================================================
