------------------------------- MODULE CanControl -------------------------------
(***************************************************************************)
(* Several charge controllers at one battery, on one CAN bus               *)
(* (app/src/ext/can.cpp, Charger::charge_control() in                      *)
(* app/src/bat_charger.cpp): each publishes its current every 100 ms, and  *)
(* one that hears a controller with a lower address makes that current its *)
(* own limit.                                                              *)
(*                                                                         *)
(* Actors of each controller: can_pubsub_thread(), and the main loop,      *)
(* which preempts it anywhere.  Time goes on in periods of 100 ms, in each *)
(* of which the thread publishes once and then empties its queue; the      *)
(* seconds of all controllers begin together.  A frame is lost where a     *)
(* queue is full: each second begins with reports of other data, which     *)
(* pass the same filter, or where it is not sent in time.  Controllers are *)
(* switched on, fail, restart and are told to publish or not; addresses    *)
(* stay as they are, though can_node_addr is a data object that may be     *)
(* written at run time.                                                    *)
(*                                                                         *)
(* Of the charging state only FOLLOWER is told from the others; alerts,    *)
(* which end it until the next round of the main loop, are in module       *)
(* Charger.  The CAN driver delivers a frame to all or none, and the       *)
(* ThingSet library imports exactly the objects of the table.              *)
(***************************************************************************)
EXTENDS Integers, Sequences, FiniteSets

CONSTANTS
  Controllers,
  Addresses,         \* what can_node_addr may be: functions from controllers to addresses
  ControlObject,     \* the data object in SUBSET_CTRL
  QueueSize,         \* of sub_msgq
  Periods,           \* in a second
  Currents,
  Settled,           \* periods after which the controllers must agree; cap of those counted
  MaxEvents          \* bound on failures, restarts, commands and changes of a current
                     \* (a frame that is not sent is a failure)

ASSUME CanAssumption ==
  /\ IsFiniteSet(Controllers)
  /\ \A address \in Addresses : address \in [Controllers -> 0 .. 255]
  /\ ControlObject \in 0 .. 65535
  /\ QueueSize \in Nat \ {0} /\ Periods \in Nat \ {0}
  /\ Currents \subseteq Nat /\ 0 \in Currents
  /\ MaxEvents \in Nat /\ Settled \in Nat

VARIABLES
  can_node_addr,
  up,                \* has power
  pub_can_enable,
  sub_msgq,          \* frames received and not processed
  pc,                \* of can_pubsub_thread()
  round_due,         \* of the main loop, in this second
  following,         \* charger.state is FOLLOWER
  target,            \* charger.target_current_control
  silence,           \* uptime() - time_last_ctrl_msg, up to 2
  period             \* of the second

(***************************************************************************)
(* History, read by the properties, the bound and Restart only: for how    *)
(* many whole periods a controller has been on the bus without losing a    *)
(* frame of its own, or off it, and for how many it has led with the same  *)
(* target.                                                                 *)
(***************************************************************************)
VARIABLES lasting, steady, events

bus == <<can_node_addr, up, pub_can_enable>>
thread == <<sub_msgq, pc>>
charger == <<round_due, following, target, silence>>
time == <<period, lasting, steady>>
vars == <<bus, thread, charger, time, events>>

Publishes(n) == up[n] /\ pub_can_enable[n]
Below(m, n) == can_node_addr[m] < can_node_addr[n]

\* The one whose address is lower than that of any other that publishes.
Leader(l) ==
  /\ Publishes(l)
  /\ \A m \in Controllers : m # l => Below(l, m) \/ ~Publishes(m)

Capped(k, cap) == IF k < cap THEN k + 1 ELSE cap

Init ==
  /\ can_node_addr \in Addresses
  /\ up \in [Controllers -> BOOLEAN]
  /\ pub_can_enable = [n \in Controllers |-> TRUE]
  /\ sub_msgq = [n \in Controllers |-> <<>>]
  /\ pc = [n \in Controllers |-> "publish"]
  /\ round_due = up
  /\ following = [n \in Controllers |-> FALSE]
  /\ target = [n \in Controllers |-> 0]
  /\ silence = [n \in Controllers |-> 2]
  /\ period = 0
  /\ lasting = [n \in Controllers |-> 0]
  /\ steady = [n \in Controllers |-> 0]
  /\ events = 0

-------------------------------------------------------------------------------
Goto(n, at) == pc' = [pc EXCEPT ![n] = at]

Report == [data_id |-> 0, sender |-> 0, value |-> 0]
Control(n) == [data_id |-> ControlObject, sender |-> can_node_addr[n], value |-> target[n]]

\* A frame goes to all others; a full queue does not take it.
Send(n, frame) ==
  sub_msgq' = [m \in Controllers |->
                 IF m # n /\ up[m] /\ Len(sub_msgq[m]) < QueueSize
                 THEN Append(sub_msgq[m], frame) ELSE sub_msgq[m]]

PublishReports(n) ==
  /\ up[n] /\ pc[n] = "publish"
  /\ Publishes(n) /\ period = 0
  /\ Send(n, Report)
  /\ Goto(n, "control")
  /\ UNCHANGED <<bus, charger, time, events>>

PublishControl(n) ==
  /\ Publishes(n)
  /\ pc[n] = "control" \/ (pc[n] = "publish" /\ period # 0)
  /\ Send(n, Control(n))
  /\ Goto(n, "receive")
  /\ UNCHANGED <<bus, charger, time, events>>

PublishNothing(n) ==
  /\ up[n] /\ pc[n] \in {"publish", "control"}
  /\ ~pub_can_enable[n]
  /\ Goto(n, "receive")
  /\ UNCHANGED <<bus, sub_msgq, charger, time, events>>

\* (the address of the sender is not compared)
ImportedFromAny(frame, n) ==
  frame.data_id > 32768 /\ frame.data_id = ControlObject

\* The comparison is the code's, the table that of the object.
Imported(frame, n) ==
  /\ frame.data_id > 32768 /\ frame.sender < can_node_addr[n]
  /\ frame.data_id = ControlObject

\* Frames without effect are taken together with the one that follows them.
Take(n, k) == sub_msgq' = [sub_msgq EXCEPT ![n] = SubSeq(@, k + 1, Len(@))]

Receive(n) ==
  /\ up[n] /\ pc[n] = "receive"
  /\ \E k \in DOMAIN sub_msgq[n] :
       LET frame == sub_msgq[n][k]
       IN  /\ Imported(frame, n)
           /\ \A j \in 1 .. k - 1 : ~Imported(sub_msgq[n][j], n)
           /\ Take(n, k)
           /\ target' = [target EXCEPT ![n] = frame.value]
           /\ steady' = [steady EXCEPT ![n] = IF frame.value = target[n] THEN @ ELSE 0]
  /\ Goto(n, "stamp")
  /\ UNCHANGED <<bus, round_due, following, silence, period, lasting, events>>

Ignore(n) ==
  /\ up[n] /\ pc[n] = "receive" /\ sub_msgq[n] # <<>>
  /\ \A k \in DOMAIN sub_msgq[n] : ~Imported(sub_msgq[n][k], n)
  /\ Take(n, Len(sub_msgq[n]))
  /\ UNCHANGED <<bus, pc, charger, time, events>>

\* (the time of the message is not noted)
StampNever(n) ==
  /\ up[n] /\ pc[n] = "stamp"
  /\ Goto(n, "receive")
  /\ UNCHANGED <<bus, sub_msgq, charger, time, events>>

Stamp(n) ==
  /\ up[n] /\ pc[n] = "stamp"
  /\ silence' = [silence EXCEPT ![n] = 0]
  /\ Goto(n, "receive")
  /\ UNCHANGED <<bus, sub_msgq, round_due, following, target, time, events>>

-------------------------------------------------------------------------------
(***************************************************************************)
(* charge_control(): while it follows, the controller keeps its target;    *)
(* otherwise its own state machine may set it.                             *)
(***************************************************************************)
Follow(n) ==
  /\ silence[n] <= 1
  /\ following' = [following EXCEPT ![n] = TRUE]
  /\ UNCHANGED <<target, steady, events>>

Resume(n) ==
  /\ silence[n] > 1 /\ following[n]
  /\ following' = [following EXCEPT ![n] = FALSE]
  /\ UNCHANGED <<target, steady, events>>

\* (its own state machine sets the target of a follower, too)
ChargeAlways(n) ==
  /\ \E current \in Currents :
       /\ target' = [target EXCEPT ![n] = current]
       /\ IF current = target[n] THEN UNCHANGED <<steady, events>>
          ELSE /\ events < MaxEvents
               /\ events' = events + 1
               /\ steady' = [steady EXCEPT ![n] = 0]
  /\ UNCHANGED following

Charge(n) ==
  /\ silence[n] > 1 /\ ~following[n]
  /\ \E current \in Currents :
       /\ target' = [target EXCEPT ![n] = current]
       /\ IF current = target[n] THEN UNCHANGED <<steady, events>>
          ELSE /\ events < MaxEvents
               /\ events' = events + 1
               /\ steady' = [steady EXCEPT ![n] = 0]
  /\ UNCHANGED following

Round(n) ==
  /\ up[n] /\ round_due[n]
  /\ round_due' = [round_due EXCEPT ![n] = FALSE]
  /\ Follow(n) \/ Resume(n) \/ Charge(n)
  /\ UNCHANGED <<bus, thread, silence, period, lasting>>

-------------------------------------------------------------------------------
(***************************************************************************)
(* The threads of a controller get their work done in time.                *)
(***************************************************************************)
Period ==
  /\ \A n \in Controllers : up[n] => pc[n] = "receive" /\ sub_msgq[n] = <<>>
  /\ LET next == (period + 1) % Periods
         NewSecond(n) == up[n] /\ next = 0
     IN  /\ \A n \in Controllers : NewSecond(n) => ~round_due[n]
         /\ period' = next
         /\ round_due' = [n \in Controllers |-> round_due[n] \/ NewSecond(n)]
         /\ silence' = [n \in Controllers |-> IF NewSecond(n) THEN Capped(silence[n], 2)
                                              ELSE silence[n]]
  /\ pc' = [n \in Controllers |-> "publish"]
  /\ lasting' = [n \in Controllers |-> Capped(lasting[n], Settled)]
  /\ steady' = [n \in Controllers |-> IF Leader(n) THEN Capped(steady[n], Settled) ELSE 0]
  /\ UNCHANGED <<bus, sub_msgq, following, target, events>>

Event(n) ==
  /\ events < MaxEvents
  /\ events' = events + 1
  /\ lasting' = [lasting EXCEPT ![n] = 0]

Fail(n) ==
  /\ up[n]
  /\ Event(n)
  /\ up' = [up EXCEPT ![n] = FALSE]
  /\ sub_msgq' = [sub_msgq EXCEPT ![n] = <<>>]
  /\ following' = [following EXCEPT ![n] = FALSE]
  /\ round_due' = [round_due EXCEPT ![n] = FALSE]
  /\ silence' = [silence EXCEPT ![n] = 2]
  /\ pc' = [pc EXCEPT ![n] = "publish"]
  /\ UNCHANGED <<can_node_addr, pub_can_enable, target, period, steady>>

(***************************************************************************)
(* The thread starts a second after a reset, never in the period of the    *)
(* failure.                                                                *)
(***************************************************************************)
Restart(n) ==
  /\ ~up[n] /\ lasting[n] > 0
  /\ Event(n)
  /\ up' = [up EXCEPT ![n] = TRUE]
  /\ pub_can_enable' = [pub_can_enable EXCEPT ![n] = TRUE]
  /\ round_due' = [round_due EXCEPT ![n] = TRUE]
  /\ target' = [target EXCEPT ![n] = 0]
  /\ steady' = [steady EXCEPT ![n] = 0]
  /\ pc' = [pc EXCEPT ![n] = "publish"]
  /\ UNCHANGED <<can_node_addr, sub_msgq, following, silence, period>>

Command(n) ==
  /\ up[n]
  /\ Event(n)
  /\ pub_can_enable' = [pub_can_enable EXCEPT ![n] = ~@]
  /\ UNCHANGED <<can_node_addr, up, thread, charger, period, steady>>

\* can_send() gives up, after 10 ms or at once; the frame is not sent again.
SendFails(n) ==
  /\ Publishes(n) /\ pc[n] \in {"publish", "control"}
  /\ Event(n)
  /\ Goto(n, IF pc[n] = "publish" /\ period = 0 THEN "control" ELSE "receive")
  /\ UNCHANGED <<bus, sub_msgq, charger, period, steady>>

Pubsub(n) ==
  PublishReports(n) \/ PublishControl(n) \/ PublishNothing(n)
  \/ Receive(n) \/ Ignore(n) \/ Stamp(n)

Next ==
  \/ \E n \in Controllers :
       Pubsub(n) \/ Round(n) \/ Fail(n) \/ Restart(n) \/ Command(n) \/ SendFails(n)
  \/ Period

Spec == Init /\ [][Next]_vars

-------------------------------------------------------------------------------
\* No queue takes more than its places; times and states keep to their ranges.
TypeOK ==
  /\ \A n \in Controllers : Len(sub_msgq[n]) <= QueueSize
  /\ pc \in [Controllers -> {"publish", "control", "receive", "stamp"}]
  /\ target \in [Controllers -> Currents]
  /\ silence \in [Controllers -> 0 .. 2]
  /\ period \in 0 .. Periods - 1

(***************************************************************************)
(* A controller follows ("This mode is enabled if the device receives      *)
(* commands from an external controller with higher priority on the CAN    *)
(* bus", bat_charger.h): when it and one with a lower address that         *)
(* publishes have both been there for a while, and got their frames out,   *)
(* its charging state is FOLLOWER, and does not fall back although frames  *)
(* are lost at full queues and the main loop looks at the time of the last *)
(* one once a second.                                                      *)
(***************************************************************************)
Follows ==
  \A n \in Controllers :
    /\ up[n] /\ lasting[n] >= Settled
    /\ \E m \in Controllers : Below(m, n) /\ Publishes(m) /\ lasting[m] >= Settled
    => following[n]

(***************************************************************************)
(* A controller is released: it follows none once all those of lower       *)
(* address have been off the bus, failed or told not to publish, for a     *)
(* while; so those of equal address never follow each other, and the one   *)
(* of the lowest never follows.                                            *)
(***************************************************************************)
Released ==
  \A n \in Controllers :
    (\A m \in Controllers : Below(m, n) => ~Publishes(m) /\ lasting[m] >= Settled)
    => ~following[n]

(***************************************************************************)
(* Load sharing: with the bus and the leader's target unchanged for a      *)
(* while, all that follow have the leader's target, however the frames of  *)
(* the others that it outranks were mixed with its own.                    *)
(***************************************************************************)
SameCurrent ==
  \A l, n \in Controllers :
    /\ Leader(l) /\ steady[l] >= Settled
    /\ \A m \in Controllers : lasting[m] >= Settled
    /\ up[n] /\ Below(l, n)
    => target[n] = target[l]
===============================================================================
