---------------------------- MODULE CanControlProofs ----------------------------
(***************************************************************************)
(* Proofs about CanControl, for any number of controllers: queues and      *)
(* states keep to their ranges, a follower is released, a controller that  *)
(* can hear one of lower address follows, and all followers end up with    *)
(* the leader's current; and nobody follows where the filter refuses the   *)
(* control object.                                                         *)
(***************************************************************************)
EXTENDS CanControl, FiniteSetTheorems, TLAPS

Frame == [data_id : {0, ControlObject}, sender : 0 .. 255, value : Currents]

BusTypes ==
  /\ can_node_addr \in [Controllers -> 0 .. 255]
  /\ up \in [Controllers -> BOOLEAN]
  /\ pub_can_enable \in [Controllers -> BOOLEAN]

ThreadTypes ==
  /\ sub_msgq \in [Controllers -> Seq(Frame)]
  /\ pc \in [Controllers -> {"publish", "control", "receive", "stamp"}]

ChargerTypes ==
  /\ round_due \in [Controllers -> BOOLEAN]
  /\ following \in [Controllers -> BOOLEAN]
  /\ target \in [Controllers -> Currents]
  /\ silence \in [Controllers -> 0 .. 2]

TimeTypes ==
  /\ period \in 0 .. Periods - 1
  /\ lasting \in [Controllers -> 0 .. Settled]
  /\ steady \in [Controllers -> 0 .. Settled]

Types == BusTypes /\ ThreadTypes /\ ChargerTypes /\ TimeTypes

\* A controller without power has nothing to do, nothing to read and follows nobody.
Dark ==
  \A n \in Controllers : ~up[n] =>
    /\ sub_msgq[n] = <<>> /\ pc[n] = "publish"
    /\ ~round_due[n] /\ ~following[n] /\ silence[n] = 2

\* Who has put a frame into the queues in this period, as far as it can be told.
Spoken(n) ==
  {m \in Controllers \ {n} : pc[m] \in {"receive", "stamp"} \/ (~up[m] /\ lasting[m] = 0)}

(***************************************************************************)
(* A queue takes no more than its places, and in a period without reports  *)
(* one frame of each controller.                                           *)
(***************************************************************************)
Room ==
  \A n \in Controllers :
    /\ Len(sub_msgq[n]) <= QueueSize
    /\ period # 0 => Len(sub_msgq[n]) <= Cardinality(Spoken(n))

Basic == Types /\ Dark /\ Room

\* What has been appended, and what is left after the first k have been taken.
LEMMA Appended ==
  ASSUME NEW S, NEW q \in Seq(S), NEW e \in S
  PROVE  /\ Append(q, e) \in Seq(S) /\ Len(Append(q, e)) = Len(q) + 1
         /\ \A j \in DOMAIN Append(q, e) :
              (j \in DOMAIN q /\ Append(q, e)[j] = q[j]) \/ Append(q, e)[j] = e
         /\ \A j \in DOMAIN q : j \in DOMAIN Append(q, e) /\ Append(q, e)[j] = q[j]
         /\ Len(q) + 1 \in DOMAIN Append(q, e) /\ Append(q, e)[Len(q) + 1] = e
  OBVIOUS

LEMMA Taken ==
  ASSUME NEW S, NEW q \in Seq(S), NEW k \in DOMAIN q \cup {Len(q)}
  PROVE  /\ SubSeq(q, k + 1, Len(q)) \in Seq(S) /\ Len(SubSeq(q, k + 1, Len(q))) <= Len(q)
         /\ \A j \in DOMAIN SubSeq(q, k + 1, Len(q)) :
              j + k \in DOMAIN q /\ SubSeq(q, k + 1, Len(q))[j] = q[j + k]
  OBVIOUS

\* What a controller sends, and where it arrives.
LEMMA FramesSent ==
  ASSUME Types, NEW n \in Controllers
  PROVE  Report \in Frame /\ Control(n) \in Frame
<1>1. 0 \in Currents /\ 0 \in 0 .. 255
  BY CanAssumption
<1>2. can_node_addr[n] \in 0 .. 255 /\ target[n] \in Currents
  BY DEF Types, BusTypes, ChargerTypes
<1> QED
  BY <1>1, <1>2 DEF Frame, Report, Control

LEMMA Sent ==
  ASSUME ThreadTypes, NEW s \in Controllers, NEW frame \in Frame, Send(s, frame)
  PROVE  /\ sub_msgq' \in [Controllers -> Seq(Frame)]
         /\ \A n \in Controllers :
              \/ sub_msgq'[n] = sub_msgq[n] /\ (n = s \/ ~up[n] \/ ~(Len(sub_msgq[n]) < QueueSize))
              \/ /\ n # s /\ up[n] /\ Len(sub_msgq[n]) < QueueSize
                 /\ sub_msgq'[n] = Append(sub_msgq[n], frame)
<1>1. \A n \in Controllers : sub_msgq[n] \in Seq(Frame) /\ Append(sub_msgq[n], frame) \in Seq(Frame)
  BY Appended DEF ThreadTypes
<1> QED
  BY <1>1 DEF Send

LEMMA Took ==
  ASSUME ThreadTypes, NEW n \in Controllers,
         NEW k \in DOMAIN sub_msgq[n] \cup {Len(sub_msgq[n])}, Take(n, k)
  PROVE  /\ sub_msgq' \in [Controllers -> Seq(Frame)]
         /\ \A m \in Controllers \ {n} : sub_msgq'[m] = sub_msgq[m]
         /\ sub_msgq'[n] = SubSeq(sub_msgq[n], k + 1, Len(sub_msgq[n]))
<1>1. SubSeq(sub_msgq[n], k + 1, Len(sub_msgq[n])) \in Seq(Frame)
  BY Taken DEF ThreadTypes
<1> QED
  BY <1>1 DEF ThreadTypes, Take

LEMMA TypesInit == Init => Types
<1>1. Init => BusTypes
  BY CanAssumption DEF Init, BusTypes
<1>2. Init => ThreadTypes
  BY DEF Init, ThreadTypes
<1>3. 0 \in Currents /\ Periods \in Nat \ {0} /\ Settled \in Nat
  BY CanAssumption
<1>4. Init => ChargerTypes
  BY <1>3 DEF Init, ChargerTypes
<1>5. Init => TimeTypes
  BY <1>3 DEF Init, TimeTypes
<1> QED
  BY <1>1, <1>2, <1>4, <1>5 DEF Types

LEMMA TypesStep ==
  ASSUME Types, [Next]_vars
  PROVE  Types'
<1>c. 0 \in Currents /\ Periods \in Nat \ {0} /\ Settled \in Nat
  BY CanAssumption
<1>b. UNCHANGED bus => BusTypes'
  BY DEF Types, BusTypes, bus
<1>t. UNCHANGED thread => ThreadTypes'
  BY DEF Types, ThreadTypes, thread
<1>h. UNCHANGED charger => ChargerTypes'
  BY DEF Types, ChargerTypes, charger
<1>s. UNCHANGED time => TimeTypes'
  BY DEF Types, TimeTypes, time
<1>1. ASSUME NEW n \in Controllers, NEW frame \in Frame, NEW at \in {"control", "receive"},
             Send(n, frame), Goto(n, at)
      PROVE  ThreadTypes'
  BY <1>1, Sent DEF Goto, Types, ThreadTypes
<1>2. ASSUME NEW n \in Controllers, PublishReports(n) \/ PublishControl(n)
      PROVE  Types'
  BY <1>2, <1>1, <1>b, <1>h, <1>s, FramesSent DEF PublishReports, PublishControl, Types
<1>3. ASSUME NEW n \in Controllers, PublishNothing(n)
      PROVE  Types'
  <2>1. ThreadTypes'
    BY <1>3 DEF PublishNothing, Goto, Types, ThreadTypes
  <2> QED
    BY <1>3, <2>1, <1>b, <1>h, <1>s DEF PublishNothing, Types
<1>4. ASSUME NEW n \in Controllers, Receive(n)
      PROVE  Types'
  <2>1. PICK k \in DOMAIN sub_msgq[n] :
          /\ Take(n, k)
          /\ target' = [target EXCEPT ![n] = sub_msgq[n][k].value]
          /\ steady' = [steady EXCEPT ![n] = IF sub_msgq[n][k].value = target[n] THEN @ ELSE 0]
    BY <1>4 DEF Receive
  <2>2. sub_msgq[n][k].value \in Currents
    <3>1. sub_msgq[n][k] \in Frame
      BY DEF Types, ThreadTypes
    <3> QED
      BY <3>1 DEF Frame
  <2>3. ThreadTypes'
    BY <1>4, <2>1, Took DEF Receive, Goto, Types, ThreadTypes
  <2>4. ChargerTypes'
    BY <1>4, <2>1, <2>2 DEF Receive, Types, ChargerTypes
  <2>5. TimeTypes'
    BY <1>4, <2>1, <1>c DEF Receive, Types, TimeTypes
  <2> QED
    BY <1>4, <2>3, <2>4, <2>5, <1>b DEF Receive, Types
<1>5. ASSUME NEW n \in Controllers, Ignore(n)
      PROVE  Types'
  <2>1. ThreadTypes'
    BY <1>5, Took DEF Ignore, Types, ThreadTypes
  <2> QED
    BY <1>5, <2>1, <1>b, <1>h, <1>s DEF Ignore, Types
<1>6. ASSUME NEW n \in Controllers, Stamp(n)
      PROVE  Types'
  <2>1. ThreadTypes'
    BY <1>6 DEF Stamp, Goto, Types, ThreadTypes
  <2>2. ChargerTypes'
    BY <1>6 DEF Stamp, Types, ChargerTypes
  <2> QED
    BY <1>6, <2>1, <2>2, <1>b, <1>s DEF Stamp, Types
<1>7. ASSUME NEW n \in Controllers, Round(n)
      PROVE  Types'
  <2>1. following' \in [Controllers -> BOOLEAN] /\ target' \in [Controllers -> Currents]
    BY <1>7 DEF Round, Follow, Resume, Charge, Types, ChargerTypes
  <2>2. round_due' \in [Controllers -> BOOLEAN] /\ silence' \in [Controllers -> 0 .. 2]
    BY <1>7 DEF Round, Types, ChargerTypes
  <2>3. steady' \in [Controllers -> 0 .. Settled]
    BY <1>7, <1>c DEF Round, Follow, Resume, Charge, Types, TimeTypes
  <2> QED
    BY <1>7, <2>1, <2>2, <2>3, <1>b, <1>t DEF Round, Types, ChargerTypes, TimeTypes
<1>8. ASSUME NEW n \in Controllers, Fail(n)
      PROVE  Types'
  <2>1. BusTypes'
    BY <1>8 DEF Fail, Types, BusTypes
  <2>2. ThreadTypes'
    BY <1>8 DEF Fail, Types, ThreadTypes
  <2>3. ChargerTypes'
    BY <1>8 DEF Fail, Types, ChargerTypes
  <2>4. TimeTypes'
    BY <1>8, <1>c DEF Fail, Event, Types, TimeTypes
  <2> QED
    BY <2>1, <2>2, <2>3, <2>4 DEF Types
<1>9. ASSUME NEW n \in Controllers, Restart(n)
      PROVE  Types'
  <2>1. BusTypes'
    BY <1>9 DEF Restart, Types, BusTypes
  <2>2. ThreadTypes'
    BY <1>9 DEF Restart, Types, ThreadTypes
  <2>3. ChargerTypes'
    BY <1>9, <1>c DEF Restart, Types, ChargerTypes
  <2>4. TimeTypes'
    BY <1>9, <1>c DEF Restart, Event, Types, TimeTypes
  <2> QED
    BY <2>1, <2>2, <2>3, <2>4 DEF Types
<1>10. ASSUME NEW n \in Controllers, Command(n)
       PROVE  Types'
  <2>1. BusTypes'
    BY <1>10 DEF Command, Types, BusTypes
  <2>2. TimeTypes'
    BY <1>10, <1>c DEF Command, Event, Types, TimeTypes
  <2> QED
    BY <1>10, <2>1, <2>2, <1>t, <1>h DEF Command, Types
<1>11. ASSUME NEW n \in Controllers, SendFails(n)
       PROVE  Types'
  <2>1. ThreadTypes'
    BY <1>11 DEF SendFails, Goto, Types, ThreadTypes
  <2>2. TimeTypes'
    BY <1>11, <1>c DEF SendFails, Event, Types, TimeTypes
  <2> QED
    BY <1>11, <2>1, <2>2, <1>b, <1>h DEF SendFails, Types
<1>12. CASE Period
  <2>1. ThreadTypes'
    BY <1>12 DEF Period, Types, ThreadTypes
  <2>2. ChargerTypes'
    BY <1>12 DEF Period, Capped, Types, ChargerTypes
  <2>3. TimeTypes'
    BY <1>12, <1>c DEF Period, Capped, Types, TimeTypes
  <2> QED
    BY <1>12, <2>1, <2>2, <2>3, <1>b DEF Period, Types
<1>13. CASE UNCHANGED vars
  BY <1>13, <1>b, <1>t, <1>h, <1>s DEF vars, Types
<1> QED
  BY <1>2, <1>3, <1>4, <1>5, <1>6, <1>7, <1>8, <1>9, <1>10, <1>11, <1>12, <1>13 DEF Next, Pubsub

-------------------------------------------------------------------------------
\* Everything that is not a step of a controller n leaves its darkness alone.
LEMMA DarkStep ==
  ASSUME Types, Dark, [Next]_vars
  PROVE  Dark'
<1> USE DEF Dark
<1>1. ASSUME NEW s \in Controllers, NEW frame \in Frame, NEW at, Send(s, frame), Goto(s, at),
             up[s], UNCHANGED <<bus, charger>>
      PROVE  Dark'
  <2>1. \A n \in Controllers : ~up[n] => sub_msgq'[n] = sub_msgq[n] /\ pc'[n] = pc[n]
    BY <1>1, Sent DEF Goto, Types, ThreadTypes
  <2> QED
    BY <1>1, <2>1 DEF bus, charger
<1>2. ASSUME NEW s \in Controllers, PublishReports(s) \/ PublishControl(s)
      PROVE  Dark'
  BY <1>2, <1>1, FramesSent DEF PublishReports, PublishControl, Publishes
<1>3. ASSUME NEW s \in Controllers, PublishNothing(s)
      PROVE  Dark'
  BY <1>3 DEF PublishNothing, Goto, bus, charger, Types, ThreadTypes
<1>4. ASSUME NEW s \in Controllers, NEW k \in DOMAIN sub_msgq[s] \cup {Len(sub_msgq[s])},
             Take(s, k), up[s]
      PROVE  \A n \in Controllers : ~up[n] => sub_msgq'[n] = sub_msgq[n]
  BY <1>4, Took DEF Types
<1>5. ASSUME NEW s \in Controllers, Receive(s)
      PROVE  Dark'
  BY <1>5, <1>4 DEF Receive, Goto, bus, Types, ThreadTypes
<1>6. ASSUME NEW s \in Controllers, Ignore(s)
      PROVE  Dark'
  BY <1>6, <1>4 DEF Ignore, bus, charger
<1>7. ASSUME NEW s \in Controllers, Stamp(s)
      PROVE  Dark'
  BY <1>7 DEF Stamp, Goto, bus, Types, ThreadTypes, ChargerTypes
<1>8. ASSUME NEW s \in Controllers, Round(s)
      PROVE  Dark'
  <2>1. \A n \in Controllers : ~up[n] =>
          round_due'[n] = round_due[n] /\ following'[n] = following[n]
    BY <1>8 DEF Round, Follow, Resume, Charge, Types, ChargerTypes
  <2> QED
    BY <1>8, <2>1 DEF Round, bus, thread
<1>9. ASSUME NEW s \in Controllers, Fail(s)
      PROVE  Dark'
  <2> DEFINE Blackout(n) == /\ sub_msgq'[n] = <<>> /\ pc'[n] = "publish"
                            /\ ~round_due'[n] /\ ~following'[n] /\ silence'[n] = 2
  <2>1. Blackout(s)
    BY <1>9 DEF Fail, Types, ThreadTypes, ChargerTypes
  <2>2. \A n \in Controllers \ {s} : ~up'[n] => ~up[n] /\ Blackout(n)
    BY <1>9 DEF Fail, Types, BusTypes, ThreadTypes, ChargerTypes
  <2> QED
    BY <2>1, <2>2
<1>10. ASSUME NEW s \in Controllers, Restart(s)
       PROVE  Dark'
  <2>1. up'[s]
    BY <1>10 DEF Restart, Types, BusTypes
  <2>2. \A n \in Controllers \ {s} :
          up'[n] = up[n] /\ pc'[n] = pc[n] /\ round_due'[n] = round_due[n]
    BY <1>10 DEF Restart, Types, BusTypes, ThreadTypes, ChargerTypes
  <2> QED
    BY <1>10, <2>1, <2>2 DEF Restart
<1>11. ASSUME NEW s \in Controllers, Command(s)
       PROVE  Dark'
  BY <1>11 DEF Command, thread, charger
<1>12. ASSUME NEW s \in Controllers, SendFails(s)
       PROVE  Dark'
  BY <1>12 DEF SendFails, Publishes, Goto, bus, charger, Types, ThreadTypes
<1>13. CASE Period
  BY <1>13 DEF Period, bus
<1>14. CASE UNCHANGED vars
  BY <1>14 DEF vars, bus, thread, charger
<1> QED
  BY <1>2, <1>3, <1>5, <1>6, <1>7, <1>8, <1>9, <1>10, <1>11, <1>12, <1>13, <1>14
     DEF Next, Pubsub

-------------------------------------------------------------------------------
LEMMA Others ==
  ASSUME NEW n \in Controllers, NEW S \in SUBSET (Controllers \ {n})
  PROVE  /\ IsFiniteSet(S) /\ Cardinality(S) \in Nat /\ Cardinality(Controllers) \in Nat
         /\ Cardinality(S) <= Cardinality(Controllers) - 1
         /\ \A m \in Controllers \ {n} : m \notin S => Cardinality(S) <= Cardinality(Controllers) - 2
<1>1. IsFiniteSet(Controllers) /\ Cardinality(Controllers) \in Nat
  BY CanAssumption, FS_CardinalityType
<1>2. ASSUME NEW T \in SUBSET Controllers
      PROVE  IsFiniteSet(T) /\ Cardinality(T) \in Nat /\ Cardinality(T) <= Cardinality(Controllers)
  BY <1>1, FS_Subset, FS_CardinalityType
<1>3. ASSUME NEW T \in SUBSET Controllers, NEW m \in Controllers, m \notin T
      PROVE  T \cup {m} \in SUBSET Controllers /\ Cardinality(T \cup {m}) = Cardinality(T) + 1
  BY <1>2, <1>3, FS_AddElement
<1>4. S \in SUBSET Controllers /\ n \notin S
  OBVIOUS
<1>5. Cardinality(S) + 1 <= Cardinality(Controllers)
  BY <1>2, <1>3, <1>4
<1>6. ASSUME NEW m \in Controllers \ {n}, m \notin S
      PROVE  Cardinality(S) + 2 <= Cardinality(Controllers)
  <2>1. S \cup {n} \in SUBSET Controllers /\ m \notin S \cup {n}
    BY <1>6
  <2>2. Cardinality(S \cup {n}) = Cardinality(S) + 1
    BY <1>3, <1>4
  <2>3. Cardinality((S \cup {n}) \cup {m}) = Cardinality(S \cup {n}) + 1
    BY <1>3, <1>6, <2>1
  <2>4. Cardinality((S \cup {n}) \cup {m}) <= Cardinality(Controllers)
    BY <1>2, <1>6, <2>1
  <2> QED
    BY <1>1, <1>2, <1>4, <2>2, <2>3, <2>4
<1> QED
  BY <1>1, <1>2, <1>4, <1>5, <1>6

\* A queue has room as long as not all of the others have spoken.
LEMMA RoomStep ==
  ASSUME Types, Dark, Room, [Next]_vars
  PROVE  Room'
<1> DEFINE Enough(n) == /\ Len(sub_msgq[n]) <= QueueSize
                        /\ period # 0 => Len(sub_msgq[n]) <= Cardinality(Spoken(n))
<1> SUFFICES ASSUME NEW n \in Controllers
             PROVE  Enough(n)'
  BY DEF Room
<1>q. QueueSize \in Nat \ {0} /\ sub_msgq[n] \in Seq(Frame) /\ Enough(n)
  BY CanAssumption DEF Types, ThreadTypes, Room
<1>a. ASSUME sub_msgq'[n] = sub_msgq[n] \/ sub_msgq'[n] = <<>>
             \/ (sub_msgq'[n] \in Seq(Frame) /\ Len(sub_msgq'[n]) <= Len(sub_msgq[n])),
             period' = period, Spoken(n) \subseteq Spoken(n)'
      PROVE  Enough(n)'
  <2>1. Len(sub_msgq'[n]) \in Nat /\ Len(sub_msgq[n]) \in Nat /\ Len(sub_msgq'[n]) <= Len(sub_msgq[n])
    BY <1>a, <1>q
  <2>2. Spoken(n) \in SUBSET (Controllers \ {n}) /\ Spoken(n)' \in SUBSET (Controllers \ {n})
    BY DEF Spoken
  <2>3. Cardinality(Spoken(n)) \in Nat /\ Cardinality(Spoken(n)') \in Nat
        /\ Cardinality(Spoken(n)) <= Cardinality(Spoken(n)')
    <3>1. IsFiniteSet(Spoken(n)') /\ Cardinality(Spoken(n)') \in Nat /\ Cardinality(Spoken(n)) \in Nat
      BY <2>2, Others
    <3> QED
      BY <3>1, <1>a, FS_Subset
  <2> QED
    BY <1>a, <1>q, <2>1, <2>3
<1>1. ASSUME NEW s \in Controllers, NEW frame \in Frame, NEW at, Send(s, frame), Goto(s, at),
             up[s], pc[s] \in {"publish", "control"}, at = "receive" \/ period = 0,
             UNCHANGED <<bus, time>>
      PROVE  Enough(n)'
  <2>1. s \notin Spoken(n)
    BY <1>1 DEF Spoken
  <2>2. \A m \in Controllers \ {s} : pc'[m] = pc[m]
    BY <1>1 DEF Goto, Types, ThreadTypes
  <2>3. pc'[s] = at
    BY <1>1 DEF Goto, Types, ThreadTypes
  <2>4. Spoken(n) \subseteq Spoken(n)'
    BY <1>1, <2>1, <2>2 DEF Spoken, bus, time
  <2>5. CASE sub_msgq'[n] = sub_msgq[n]
    BY <1>a, <1>1, <2>4, <2>5 DEF time
  <2>6. CASE /\ n # s /\ Len(sub_msgq[n]) < QueueSize
             /\ sub_msgq'[n] = Append(sub_msgq[n], frame)
    <3>1. Len(sub_msgq'[n]) = Len(sub_msgq[n]) + 1 /\ Len(sub_msgq[n]) \in Nat
      BY <1>q, <2>6, Appended
    <3>2. Spoken(n) \in SUBSET (Controllers \ {n}) /\ Spoken(n)' \in SUBSET (Controllers \ {n})
      BY DEF Spoken
    <3>3. ASSUME period' # 0
          PROVE  Cardinality(Spoken(n)) + 1 <= Cardinality(Spoken(n)')
      <4>1. period = period' /\ at = "receive"
        BY <1>1, <3>3 DEF time
      <4>2. s \in Spoken(n)'
        BY <4>1, <2>3, <2>6 DEF Spoken
      <4>3. (Spoken(n) \cup {s}) \subseteq Spoken(n)'
        BY <2>4, <4>2
      <4>4. IsFiniteSet(Spoken(n)) /\ IsFiniteSet(Spoken(n)')
        BY <3>2, Others
      <4>5. Cardinality(Spoken(n) \cup {s}) = Cardinality(Spoken(n)) + 1
        BY <2>1, <4>4, FS_AddElement
      <4> QED
        BY <4>3, <4>4, <4>5, FS_Subset
    <3>4. Cardinality(Spoken(n)) \in Nat /\ Cardinality(Spoken(n)') \in Nat
      BY <3>2, Others
    <3>5. period' = period
      BY <1>1 DEF time
    <3> QED
      BY <1>q, <2>6, <3>1, <3>3, <3>4, <3>5
  <2>7. \/ sub_msgq'[n] = sub_msgq[n]
        \/ /\ n # s /\ Len(sub_msgq[n]) < QueueSize
           /\ sub_msgq'[n] = Append(sub_msgq[n], frame)
    BY <1>1, Sent DEF Types
  <2> QED
    BY <2>5, <2>6, <2>7
<1>2. ASSUME NEW s \in Controllers, PublishReports(s) \/ PublishControl(s)
      PROVE  Enough(n)'
  <2>1. \/ Send(s, Report) /\ Goto(s, "control") /\ period = 0 /\ pc[s] = "publish"
        \/ Send(s, Control(s)) /\ Goto(s, "receive") /\ pc[s] \in {"publish", "control"}
    BY <1>2 DEF PublishReports, PublishControl
  <2>2. up[s] /\ UNCHANGED <<bus, time>>
    BY <1>2 DEF PublishReports, PublishControl, Publishes
  <2> HIDE DEF Enough
  <2> QED
    BY <1>1, <2>1, <2>2, FramesSent
<1>3. ASSUME NEW s \in Controllers, PublishNothing(s)
      PROVE  Enough(n)'
  <2>1. Spoken(n) \subseteq Spoken(n)'
    BY <1>3 DEF PublishNothing, Goto, Spoken, bus, time, Types, ThreadTypes
  <2> QED
    BY <1>3, <1>a, <2>1 DEF PublishNothing, time
<1>4. ASSUME NEW s \in Controllers, NEW k \in DOMAIN sub_msgq[s] \cup {Len(sub_msgq[s])}, Take(s, k)
      PROVE  sub_msgq'[n] \in Seq(Frame) /\ Len(sub_msgq'[n]) <= Len(sub_msgq[n])
  <2>1. CASE n = s
    BY <1>q, <1>4, <2>1, Took, Taken DEF Types
  <2>2. CASE n # s
    BY <1>q, <1>4, <2>2, Took DEF Types
  <2> QED
    BY <2>1, <2>2
<1>5. ASSUME NEW s \in Controllers, Receive(s)
      PROVE  Enough(n)'
  <2>1. Spoken(n) \subseteq Spoken(n)'
    BY <1>5 DEF Receive, Goto, Spoken, bus, Types, ThreadTypes
  <2>2. sub_msgq'[n] \in Seq(Frame) /\ Len(sub_msgq'[n]) <= Len(sub_msgq[n]) /\ period' = period
    BY <1>5, <1>4 DEF Receive
  <2> QED
    BY <1>a, <2>1, <2>2
<1>6. ASSUME NEW s \in Controllers, Ignore(s)
      PROVE  Enough(n)'
  <2>1. Spoken(n) \subseteq Spoken(n)'
    BY <1>6 DEF Ignore, Spoken, bus, time
  <2>2. sub_msgq'[n] \in Seq(Frame) /\ Len(sub_msgq'[n]) <= Len(sub_msgq[n]) /\ period' = period
    BY <1>6, <1>4 DEF Ignore, time
  <2> QED
    BY <1>a, <2>1, <2>2
<1>7. ASSUME NEW s \in Controllers, Stamp(s)
      PROVE  Enough(n)'
  <2>1. Spoken(n) \subseteq Spoken(n)'
    BY <1>7 DEF Stamp, Goto, Spoken, bus, time, Types, ThreadTypes
  <2> QED
    BY <1>7, <1>a, <2>1 DEF Stamp, time
<1>8. ASSUME NEW s \in Controllers, Round(s)
      PROVE  Enough(n)'
  <2>1. UNCHANGED <<pc, up, lasting, sub_msgq, period>>
    BY <1>8 DEF Round, thread, bus
  <2>2. Spoken(n) \subseteq Spoken(n)'
    BY <2>1 DEF Spoken
  <2> QED
    BY <1>a, <2>1, <2>2
<1>9. ASSUME NEW s \in Controllers, Fail(s)
      PROVE  Enough(n)'
  <2>1. \A m \in Controllers \ {s} :
          pc'[m] = pc[m] /\ up'[m] = up[m] /\ lasting'[m] = lasting[m] /\ sub_msgq'[m] = sub_msgq[m]
    BY <1>9 DEF Fail, Event, Types, BusTypes, ThreadTypes, TimeTypes
  <2>2. ~up'[s] /\ lasting'[s] = 0 /\ sub_msgq'[s] = <<>>
    BY <1>9 DEF Fail, Event, Types, BusTypes, ThreadTypes, TimeTypes
  <2>3. Spoken(n) \subseteq Spoken(n)'
    BY <2>1, <2>2 DEF Spoken
  <2>4. sub_msgq'[n] = sub_msgq[n] \/ sub_msgq'[n] = <<>>
    BY <2>1, <2>2
  <2> QED
    BY <1>9, <1>a, <2>3, <2>4 DEF Fail
<1>10. ASSUME NEW s \in Controllers, Restart(s)
       PROVE  Enough(n)'
  <2>1. s \notin Spoken(n)
    <3>1. ~up[s] /\ lasting[s] > 0 /\ lasting[s] \in Nat
      BY <1>10 DEF Restart, Types, TimeTypes
    <3> QED
      BY <3>1 DEF Dark, Spoken
  <2>2. \A m \in Controllers \ {s} :
          pc'[m] = pc[m] /\ up'[m] = up[m] /\ lasting'[m] = lasting[m]
    BY <1>10 DEF Restart, Event, Types, BusTypes, ThreadTypes, TimeTypes
  <2>3. Spoken(n) \subseteq Spoken(n)'
    BY <2>1, <2>2 DEF Spoken
  <2> QED
    BY <1>10, <1>a, <2>3 DEF Restart
<1>11. ASSUME NEW s \in Controllers, Command(s)
       PROVE  Enough(n)'
  <2>1. UNCHANGED <<pc, up, sub_msgq, period>> /\ up[s]
    BY <1>11 DEF Command, thread
  <2>2. \A m \in Controllers \ {s} : lasting'[m] = lasting[m]
    BY <1>11 DEF Command, Event, Types, TimeTypes
  <2>3. Spoken(n) \subseteq Spoken(n)'
    BY <2>1, <2>2 DEF Spoken
  <2> QED
    BY <1>a, <2>1, <2>3
<1>12. ASSUME NEW s \in Controllers, SendFails(s)
       PROVE  Enough(n)'
  <2>1. UNCHANGED <<up, sub_msgq, period>> /\ up[s]
    BY <1>12 DEF SendFails, Publishes, bus
  <2>2. \A m \in Controllers \ {s} : lasting'[m] = lasting[m] /\ pc'[m] = pc[m]
    BY <1>12 DEF SendFails, Goto, Event, Types, ThreadTypes, TimeTypes
  <2>3. Spoken(n) \subseteq Spoken(n)'
    BY <1>12, <2>1, <2>2 DEF SendFails, Spoken
  <2> QED
    BY <1>a, <2>1, <2>3
<1>13. CASE Period
  <2>1. sub_msgq'[n] = <<>>
    BY <1>13 DEF Period, Dark
  <2>2. Spoken(n)' \in SUBSET (Controllers \ {n})
    BY DEF Spoken
  <2>3. Cardinality(Spoken(n)') \in Nat
    BY <2>2, Others
  <2> QED
    BY <1>q, <2>1, <2>3
<1>14. CASE UNCHANGED vars
  <2>1. UNCHANGED <<pc, up, lasting, sub_msgq, period>>
    BY <1>14 DEF vars, bus, thread, time
  <2>2. Spoken(n) \subseteq Spoken(n)'
    BY <2>1 DEF Spoken
  <2> QED
    BY <1>a, <2>1, <2>2
<1> HIDE DEF Enough
<1> QED
  BY <1>2, <1>3, <1>5, <1>6, <1>7, <1>8, <1>9, <1>10, <1>11, <1>12, <1>13, <1>14
     DEF Next, Pubsub

LEMMA BasicInit == Init => Basic
<1>1. ASSUME Init
      PROVE  Dark /\ Room
  <2>1. Dark
    BY <1>1 DEF Init, Dark
  <2>2. \A n \in Controllers : sub_msgq[n] = <<>>
    BY <1>1 DEF Init
  <2>3. period = 0 /\ QueueSize \in Nat
    BY <1>1, CanAssumption DEF Init
  <2> QED
    BY <2>1, <2>2, <2>3 DEF Room
<1> QED
  BY <1>1, TypesInit DEF Basic

LEMMA BasicStep == Basic /\ [Next]_vars => Basic'
  BY TypesStep, DarkStep, RoomStep DEF Basic

LEMMA BasicAlways == Spec => []Basic
  BY BasicInit, BasicStep, PTL DEF Spec

(***************************************************************************)
(* No queue takes more than its places, and program counters, targets,     *)
(* times and periods keep to their ranges, for any number of controllers   *)
(* (sub_msgq and the states of can_pubsub_thread()).                       *)
(***************************************************************************)
THEOREM CanTypes == Spec => []TypeOK
<1>1. Basic => TypeOK
  BY DEF Basic, Room, Types, ThreadTypes, ChargerTypes, TimeTypes, TypeOK
<1> QED
  BY <1>1, BasicAlways, PTL

-------------------------------------------------------------------------------
\* Every step but that of time.
Quick ==
  \/ \E n \in Controllers :
       Pubsub(n) \/ Round(n) \/ Fail(n) \/ Restart(n) \/ Command(n) \/ SendFails(n)
  \/ UNCHANGED vars

LEMMA StepKinds == [Next]_vars => Quick \/ Period
  BY DEF Next, Quick

\* A step that changes who is on the bus starts the count of its controller again.
LEMMA BusEvents ==
  ASSUME Types, Quick
  PROVE  /\ can_node_addr' = can_node_addr /\ period' = period
         /\ \A m \in Controllers :
              \/ /\ up'[m] = up[m] /\ pub_can_enable'[m] = pub_can_enable[m]
                 /\ lasting'[m] = lasting[m]
              \/ lasting'[m] = 0
<1>1. ASSUME NEW n \in Controllers, Pubsub(n) \/ Round(n)
      PROVE  UNCHANGED <<bus, period, lasting>>
  <2>1. CASE Pubsub(n)
    BY <2>1 DEF Pubsub, PublishReports, PublishControl, PublishNothing, Receive, Ignore, Stamp, time
  <2>2. CASE Round(n)
    BY <2>2 DEF Round
  <2> QED
    BY <1>1, <2>1, <2>2
<1>2. ASSUME NEW n \in Controllers, Fail(n) \/ Restart(n) \/ Command(n) \/ SendFails(n)
      PROVE  /\ lasting'[n] = 0
             /\ \A m \in Controllers \ {n} :
                  /\ up'[m] = up[m] /\ pub_can_enable'[m] = pub_can_enable[m]
                  /\ lasting'[m] = lasting[m]
             /\ can_node_addr' = can_node_addr /\ period' = period
  <2> USE DEF Event, Types, BusTypes, TimeTypes
  <2>1. CASE Fail(n)
    BY <2>1 DEF Fail
  <2>2. CASE Restart(n)
    BY <2>2 DEF Restart
  <2>3. CASE Command(n)
    BY <2>3 DEF Command
  <2>4. CASE SendFails(n)
    BY <2>4 DEF SendFails, bus
  <2> QED
    BY <1>2, <2>1, <2>2, <2>3, <2>4
<1>3. UNCHANGED vars => UNCHANGED <<bus, period, lasting>>
  BY DEF vars, time
<1>4. UNCHANGED <<bus, period, lasting>>
      => /\ can_node_addr' = can_node_addr /\ period' = period
         /\ \A m \in Controllers : /\ up'[m] = up[m] /\ pub_can_enable'[m] = pub_can_enable[m]
                                   /\ lasting'[m] = lasting[m]
  BY DEF bus
<1> QED
  BY <1>1, <1>2, <1>3, <1>4 DEF Quick

\* With time the counts grow by one, and nothing else about the bus changes.
LEMMA TimeStep ==
  ASSUME Types, Period
  PROVE  /\ UNCHANGED bus
         /\ period' = IF period = Periods - 1 THEN 0 ELSE period + 1
         /\ \A n \in Controllers :
              /\ lasting'[n] <= lasting[n] + 1 /\ steady'[n] <= steady[n] + 1
              /\ silence'[n] = IF up[n] /\ period = Periods - 1
                               THEN (IF silence[n] < 2 THEN silence[n] + 1 ELSE 2) ELSE silence[n]
              /\ round_due'[n] = (round_due[n] \/ (up[n] /\ period = Periods - 1))
              /\ up[n] /\ period = Periods - 1 => ~round_due[n]
<1>1. Periods \in Nat \ {0} /\ period \in 0 .. Periods - 1
  BY CanAssumption DEF Types, TimeTypes
<1>2. (period + 1) % Periods = IF period = Periods - 1 THEN 0 ELSE period + 1
  <2>1. CASE period = Periods - 1
    BY <1>1, <2>1
  <2>2. CASE period # Periods - 1
    BY <1>1, <2>2
  <2> QED
    BY <2>1, <2>2
<1>3. \A n \in Controllers : lasting[n] \in 0 .. Settled /\ steady[n] \in 0 .. Settled /\ Settled \in Nat
  BY CanAssumption DEF Types, TimeTypes
<1>4. UNCHANGED bus /\ period' = (period + 1) % Periods
  BY DEF Period
<1>5. \A n \in Controllers : lasting'[n] <= lasting[n] + 1 /\ steady'[n] <= steady[n] + 1
  BY <1>3 DEF Period, Capped
<1>6. (period + 1) % Periods = 0 <=> period = Periods - 1
  BY <1>1, <1>2
<1>7. \A n \in Controllers :
        /\ silence'[n] = IF up[n] /\ period = Periods - 1
                         THEN (IF silence[n] < 2 THEN silence[n] + 1 ELSE 2) ELSE silence[n]
        /\ round_due'[n] = (round_due[n] \/ (up[n] /\ period = Periods - 1))
        /\ up[n] /\ period = Periods - 1 => ~round_due[n]
  BY <1>6 DEF Period, Capped
<1> QED
  BY <1>2, <1>4, <1>5, <1>7

-------------------------------------------------------------------------------
\* A frame that counts waits for controller n.
Importable(n) == \E j \in DOMAIN sub_msgq[n] : Imported(sub_msgq[n][j], n)

\* What waits after a step waited before, or has been sent by it.
LEMMA WaitingSent ==
  ASSUME Types, NEW s \in Controllers, NEW frame \in Frame, Send(s, frame),
         can_node_addr' = can_node_addr, NEW n \in Controllers
  PROVE  /\ Importable(n) => Importable(n)'
         /\ Importable(n)' => Importable(n) \/ Imported(frame, n)
         /\ n # s /\ up[n] /\ Len(sub_msgq[n]) < QueueSize /\ Imported(frame, n) => Importable(n)'
<1>1. \A f : Imported(f, n) <=> Imported(f, n)'
  BY DEF Imported
<1>2. \/ sub_msgq'[n] = sub_msgq[n] /\ (n = s \/ ~up[n] \/ ~(Len(sub_msgq[n]) < QueueSize))
      \/ /\ n # s /\ up[n] /\ Len(sub_msgq[n]) < QueueSize
         /\ sub_msgq'[n] = Append(sub_msgq[n], frame)
  BY Sent DEF Types
<1>3. sub_msgq[n] \in Seq(Frame)
  BY DEF Types, ThreadTypes
<1>4. Importable(n)' <=> \E j \in DOMAIN sub_msgq'[n] : Imported(sub_msgq'[n][j], n)
  BY DEF Importable, Imported
<1>5. CASE sub_msgq'[n] = sub_msgq[n]
           /\ (n = s \/ ~up[n] \/ ~(Len(sub_msgq[n]) < QueueSize))
  BY <1>4, <1>5 DEF Importable
<1>6. CASE sub_msgq'[n] = Append(sub_msgq[n], frame)
  BY <1>3, <1>4, <1>6, Appended DEF Importable
<1> QED
  BY <1>2, <1>5, <1>6

LEMMA WaitingTaken ==
  ASSUME Types, NEW s \in Controllers, NEW k \in DOMAIN sub_msgq[s] \cup {Len(sub_msgq[s])}, Take(s, k),
         can_node_addr' = can_node_addr, NEW n \in Controllers
  PROVE  /\ Importable(n)' => Importable(n)
         /\ n # s => sub_msgq'[n] = sub_msgq[n] /\ (Importable(n) => Importable(n)')
<1>1. Importable(n)' <=> \E j \in DOMAIN sub_msgq'[n] : Imported(sub_msgq'[n][j], n)
  BY DEF Importable, Imported
<1>2. CASE n # s
  BY <1>1, <1>2, Took DEF Types, Importable
<1>3. CASE n = s
  <2>1. sub_msgq[n] \in Seq(Frame) /\ sub_msgq'[n] = SubSeq(sub_msgq[n], k + 1, Len(sub_msgq[n]))
    BY <1>3, Took DEF Types, ThreadTypes
  <2>2. k \in DOMAIN sub_msgq[n] \cup {Len(sub_msgq[n])}
    BY <1>3
  <2>3. \A j \in DOMAIN sub_msgq'[n] :
          j + k \in DOMAIN sub_msgq[n] /\ sub_msgq'[n][j] = sub_msgq[n][j + k]
    BY <2>1, <2>2, Taken
  <2> QED
    BY <1>1, <1>3, <2>3 DEF Importable
<1> QED
  BY <1>2, <1>3

\* A frame that counts is a control frame, of a controller with a lower address.
LEMMA CountsForBelow ==
  ASSUME NEW s \in Controllers, NEW n \in Controllers
  PROVE  /\ ~Imported(Report, n)
         /\ Imported(Control(s), n) => Below(s, n)
         /\ ControlObject > 32768 /\ Below(s, n) => Imported(Control(s), n)
  BY CanAssumption DEF Imported, Report, Control, Below

-------------------------------------------------------------------------------
\* Those of lower address have been off the bus for k periods.
Quiet(n, k) == \A m \in Controllers : Below(m, n) => ~Publishes(m) /\ lasting[m] >= k

(***************************************************************************)
(* What a silence of so many periods, counted back from period p of the    *)
(* second, has led to.                                                     *)
(***************************************************************************)
Led(n, p) ==
  /\ Quiet(n, 1) => ~Importable(n) /\ pc[n] # "stamp"
  /\ Quiet(n, p + 1) => silence[n] >= 1
  /\ Quiet(n, p + Periods + 1) => silence[n] = 2 /\ (following[n] => round_due[n])
  /\ Quiet(n, p + 2 * Periods + 1) => ~following[n]

Releasing == \A n \in Controllers : Led(n, period)

LEMMA QuietWeaker ==
  ASSUME Types, NEW n \in Controllers, NEW j \in Nat, NEW k \in Nat, j <= k, Quiet(n, k)
  PROVE  Quiet(n, j)
<1>1. \A m \in Controllers : lasting[m] \in Nat
  BY DEF Types, TimeTypes
<1> QED
  BY <1>1 DEF Quiet

LEMMA QuietBefore ==
  ASSUME Types, Types', NEW n \in Controllers, NEW k \in Nat
  PROVE  /\ Quick /\ k > 0 /\ Quiet(n, k)' => Quiet(n, k)
         /\ Period /\ Quiet(n, k + 1)' => Quiet(n, k)
<1>t. \A m \in Controllers : lasting[m] \in Nat /\ lasting'[m] \in Nat
  BY DEF Types, TimeTypes
<1>1. ASSUME Quick, k > 0, Quiet(n, k)'
      PROVE  Quiet(n, k)
  <2> SUFFICES ASSUME NEW m \in Controllers, Below(m, n)
               PROVE  ~Publishes(m) /\ lasting[m] >= k
    BY DEF Quiet
  <2>1. Below(m, n)'
    BY <1>1, BusEvents DEF Below
  <2>2. ~Publishes(m)' /\ lasting'[m] >= k
    BY <1>1, <2>1 DEF Quiet
  <2>3. lasting'[m] # 0
    BY <1>1, <1>t, <2>2
  <2> QED
    BY <1>1, <2>2, <2>3, BusEvents DEF Publishes
<1>2. ASSUME Period, Quiet(n, k + 1)'
      PROVE  Quiet(n, k)
  <2> SUFFICES ASSUME NEW m \in Controllers, Below(m, n)
               PROVE  ~Publishes(m) /\ lasting[m] >= k
    BY DEF Quiet
  <2>1. Below(m, n)' /\ (Publishes(m)' <=> Publishes(m))
    BY <1>2, TimeStep DEF Below, Publishes, bus
  <2>2. ~Publishes(m)' /\ lasting'[m] >= k + 1
    BY <1>2, <2>1 DEF Quiet
  <2>3. lasting'[m] <= lasting[m] + 1
    BY <1>2, TimeStep
  <2> QED
    BY <1>t, <2>1, <2>2, <2>3
<1> QED
  BY <1>1, <1>2

LEMMA ReleasingInit == Init => Releasing
<1> SUFFICES ASSUME Init
             PROVE  Releasing
  OBVIOUS
<1>1. \A n \in Controllers : ~Importable(n) /\ pc[n] # "stamp" /\ silence[n] = 2 /\ ~following[n]
  BY DEF Init, Importable
<1> QED
  BY <1>1 DEF Releasing, Led

\* What a step between two periods may do to a controller that hears nobody.
LeavesQuiet(n) ==
  /\ ~Importable(n)' /\ pc'[n] # "stamp"
  /\ silence'[n] = silence[n] \/ silence'[n] = 2
  /\ silence[n] = 2 =>
       /\ following'[n] => following[n]
       /\ (following[n] => round_due[n]) => (following'[n] => round_due'[n])

LEMMA QuickLeavesQuiet ==
  ASSUME Types, Releasing, Quick, NEW n \in Controllers, Quiet(n, 1)
  PROVE  LeavesQuiet(n)
<1>q. ~Importable(n) /\ pc[n] # "stamp"
  BY DEF Releasing, Led
<1>d. can_node_addr' = can_node_addr
  BY BusEvents
<1>t. silence[n] \in 0 .. 2
  BY DEF Types, ChargerTypes
<1>0. ASSUME ~Importable(n)', pc'[n] # "stamp", UNCHANGED charger
      PROVE  LeavesQuiet(n)
  BY <1>0, <1>t DEF LeavesQuiet, charger
<1>1. ASSUME NEW s \in Controllers, PublishReports(s) \/ PublishControl(s)
      PROVE  LeavesQuiet(n)
  <2>1. PICK frame \in Frame, at \in {"control", "receive"} :
          /\ Send(s, frame) /\ Goto(s, at) /\ UNCHANGED charger
          /\ frame = Report \/ (frame = Control(s) /\ Publishes(s))
    BY <1>1, FramesSent DEF PublishReports, PublishControl
  <2>2. ~Imported(frame, n)
    BY <2>1, CountsForBelow DEF Quiet
  <2>3. ~Importable(n)'
    BY <1>q, <1>d, <2>1, <2>2, WaitingSent
  <2>4. pc'[n] # "stamp"
    BY <1>q, <2>1 DEF Goto, Types, ThreadTypes
  <2> QED
    BY <1>0, <2>1, <2>3, <2>4
<1>2. ASSUME NEW s \in Controllers, PublishNothing(s)
      PROVE  LeavesQuiet(n)
  <2>1. ~Importable(n)'
    BY <1>2, <1>q, <1>d DEF PublishNothing, Importable, Imported
  <2>2. pc'[n] # "stamp" /\ UNCHANGED charger
    BY <1>2, <1>q DEF PublishNothing, Goto, Types, ThreadTypes
  <2> QED
    BY <1>0, <2>1, <2>2
<1>3. ASSUME NEW s \in Controllers, Receive(s)
      PROVE  LeavesQuiet(n)
  <2>1. PICK k \in DOMAIN sub_msgq[s] : Imported(sub_msgq[s][k], s) /\ Take(s, k)
    BY <1>3 DEF Receive
  <2>2. n # s
    BY <1>q, <2>1 DEF Importable
  <2>3. ~Importable(n)'
    BY <1>q, <1>d, <2>1, WaitingTaken
  <2>4. pc'[n] # "stamp"
    BY <1>3, <1>q, <2>2 DEF Receive, Goto, Types, ThreadTypes
  <2> QED
    BY <1>3, <1>t, <2>3, <2>4 DEF Receive, LeavesQuiet
<1>4. ASSUME NEW s \in Controllers, Ignore(s)
      PROVE  LeavesQuiet(n)
  <2>1. Take(s, Len(sub_msgq[s])) /\ UNCHANGED charger /\ pc' = pc
    BY <1>4 DEF Ignore
  <2> QED
    BY <1>0, <1>q, <1>d, <2>1, WaitingTaken
<1>5. ASSUME NEW s \in Controllers, Stamp(s)
      PROVE  LeavesQuiet(n)
  <2>1. n # s
    BY <1>5, <1>q DEF Stamp
  <2>2. ~Importable(n)'
    BY <1>5, <1>q, <1>d DEF Stamp, Importable, Imported
  <2>3. pc'[n] # "stamp" /\ silence'[n] = silence[n]
    BY <1>5, <1>q, <2>1 DEF Stamp, Goto, Types, ThreadTypes, ChargerTypes
  <2> QED
    BY <1>5, <2>2, <2>3 DEF Stamp, LeavesQuiet
<1>6. ASSUME NEW s \in Controllers, Round(s)
      PROVE  LeavesQuiet(n)
  <2>1. ~Importable(n)' /\ pc'[n] # "stamp"
    BY <1>6, <1>q, <1>d DEF Round, thread, Importable, Imported
  <2>2. ASSUME silence[n] = 2
        PROVE  /\ following'[n] => following[n]
               /\ (following[n] => round_due[n]) => (following'[n] => round_due'[n])
    <3>1. CASE n = s
      BY <1>6, <2>2, <3>1 DEF Round, Follow, Resume, Charge, Types, ChargerTypes
    <3>2. CASE n # s
      BY <1>6, <3>2 DEF Round, Follow, Resume, Charge, Types, ChargerTypes
    <3> QED
      BY <3>1, <3>2
  <2> QED
    BY <1>6, <2>1, <2>2 DEF Round, LeavesQuiet
<1>7. ASSUME NEW s \in Controllers, Fail(s)
      PROVE  LeavesQuiet(n)
  <2>1. CASE n = s
    <3>1. sub_msgq'[n] = <<>>
      BY <1>7, <2>1 DEF Fail, Types, ThreadTypes
    <3>2. ~Importable(n)'
      BY <3>1 DEF Importable
    <3>3. pc'[n] = "publish" /\ silence'[n] = 2 /\ ~following'[n]
      BY <1>7, <2>1 DEF Fail, Types, ThreadTypes, ChargerTypes
    <3> QED
      BY <3>2, <3>3 DEF LeavesQuiet
  <2>2. CASE n # s
    <3>1. sub_msgq'[n] = sub_msgq[n] /\ pc'[n] = pc[n]
      BY <1>7, <2>2 DEF Fail, Types, ThreadTypes
    <3>2. ~Importable(n)'
      BY <1>q, <1>d, <3>1 DEF Importable, Imported
    <3>3. silence'[n] = silence[n] /\ following'[n] = following[n] /\ round_due'[n] = round_due[n]
      BY <1>7, <2>2 DEF Fail, Types, ChargerTypes
    <3> QED
      BY <1>q, <3>1, <3>2, <3>3 DEF LeavesQuiet
  <2> QED
    BY <2>1, <2>2
<1>8. ASSUME NEW s \in Controllers, Restart(s)
      PROVE  LeavesQuiet(n)
  <2>1. ~Importable(n)'
    BY <1>8, <1>q, <1>d DEF Restart, Importable, Imported
  <2>2. pc'[n] # "stamp" /\ (round_due[n] => round_due'[n])
    BY <1>8, <1>q DEF Restart, Types, ThreadTypes, ChargerTypes
  <2> QED
    BY <1>8, <2>1, <2>2 DEF Restart, LeavesQuiet
<1>9. ASSUME NEW s \in Controllers, Command(s)
      PROVE  LeavesQuiet(n)
  <2>1. ~Importable(n)' /\ pc'[n] # "stamp" /\ UNCHANGED charger
    BY <1>9, <1>q, <1>d DEF Command, thread, Importable, Imported
  <2> QED
    BY <1>0, <2>1
<1>10. ASSUME NEW s \in Controllers, SendFails(s)
       PROVE  LeavesQuiet(n)
  <2>1. ~Importable(n)' /\ UNCHANGED charger
    BY <1>10, <1>q, <1>d DEF SendFails, Importable, Imported
  <2>2. pc'[n] # "stamp"
    BY <1>10, <1>q DEF SendFails, Goto, Types, ThreadTypes
  <2> QED
    BY <1>0, <2>1, <2>2
<1>11. CASE UNCHANGED vars
  <2>1. ~Importable(n)' /\ pc'[n] # "stamp" /\ UNCHANGED charger
    BY <1>11, <1>q, <1>d DEF vars, thread, Importable, Imported
  <2> QED
    BY <1>0, <2>1
<1> QED
  BY <1>1, <1>2, <1>3, <1>4, <1>5, <1>6, <1>7, <1>8, <1>9, <1>10, <1>11 DEF Quick, Pubsub

LEMMA ReleasingQuick ==
  ASSUME Types, Types', Releasing, Quick
  PROVE  Releasing'
<1> PICK p \in Nat : p = period
  BY DEF Types, TimeTypes
<1> SUFFICES ASSUME NEW n \in Controllers
             PROVE  Led(n, p)'
  BY BusEvents DEF Releasing
<1>1. Led(n, p)
  BY DEF Releasing
<1>2. Periods \in Nat /\ silence[n] \in 0 .. 2
  BY CanAssumption DEF Types, ChargerTypes
<1>3. ASSUME NEW k \in Nat, k > 0, Quiet(n, k)'
      PROVE  Quiet(n, k) /\ LeavesQuiet(n)
  <2>1. Quiet(n, k)
    BY <1>3, QuietBefore
  <2> QED
    BY <1>3, <2>1, QuietWeaker, QuickLeavesQuiet
<1>4. /\ Quiet(n, 1)' => LeavesQuiet(n)
      /\ Quiet(n, p + 1)' => Quiet(n, p + 1) /\ LeavesQuiet(n)
      /\ Quiet(n, p + Periods + 1)' => Quiet(n, p + Periods + 1) /\ LeavesQuiet(n)
      /\ Quiet(n, p + 2 * Periods + 1)' =>
           Quiet(n, p + 2 * Periods + 1) /\ Quiet(n, p + Periods + 1) /\ LeavesQuiet(n)
  BY <1>2, <1>3, QuietWeaker
<1> QED
  BY <1>1, <1>2, <1>4 DEF Led, LeavesQuiet

\* From one period to the next the silence is counted, once a second.
LEMMA ReleasingTime ==
  ASSUME Types, Types', Dark, Releasing, Period
  PROVE  Releasing'
<1> PICK p \in Nat : p = period
  BY DEF Types, TimeTypes
<1> PICK q \in Nat : q = period'
  BY DEF Types, TimeTypes
<1> SUFFICES ASSUME NEW n \in Controllers
             PROVE  Led(n, q)'
  BY DEF Releasing
<1>1. Led(n, p)
  BY DEF Releasing
<1>2. Periods \in Nat \ {0} /\ silence[n] \in 0 .. 2 /\ p < Periods
  BY CanAssumption DEF Types, TimeTypes, ChargerTypes
<1>3. q = IF p = Periods - 1 THEN 0 ELSE p + 1
  BY TimeStep
<1>4. /\ silence'[n] = IF up[n] /\ p = Periods - 1
                       THEN (IF silence[n] < 2 THEN silence[n] + 1 ELSE 2) ELSE silence[n]
      /\ round_due'[n] = (round_due[n] \/ (up[n] /\ p = Periods - 1))
      /\ up[n] /\ p = Periods - 1 => ~round_due[n]
      /\ following'[n] = following[n]
  BY TimeStep DEF Period
<1>5. ~up[n] => silence[n] = 2 /\ ~following[n]
  BY DEF Dark
<1>6. ~Importable(n)' /\ pc'[n] = "publish"
  <2>1. sub_msgq'[n] = <<>>
    BY DEF Period, Dark
  <2> QED
    BY <2>1 DEF Importable, Period
<1>7. \A j, k \in Nat : j = k + 1 /\ Quiet(n, j)' => Quiet(n, k)
  BY QuietBefore
<1>8. CASE p = Periods - 1
  <2>1. q = 0 /\ Periods - 1 + 1 = p + 1 /\ 2 * Periods = p + Periods + 1
    BY <1>2, <1>3, <1>8
  <2>2. /\ Quiet(n, q + Periods + 1)' => Quiet(n, p + 1)
        /\ Quiet(n, q + 2 * Periods + 1)' => Quiet(n, p + Periods + 1)
    BY <1>2, <1>7, <2>1
  <2>3. Quiet(n, q + 1)' => silence'[n] >= 1
    BY <1>2, <1>4, <1>5, <1>8
  <2>4. Quiet(n, q + Periods + 1)' => silence'[n] = 2 /\ (following'[n] => round_due'[n])
    <3>1. Quiet(n, q + Periods + 1)' => silence[n] >= 1
      BY <1>1, <2>2 DEF Led
    <3>2. CASE up[n]
      <4>1. round_due'[n]
        BY <3>2, <1>4, <1>8
      <4>2. silence[n] >= 1 => silence'[n] = 2
        BY <3>2, <1>2, <1>4, <1>8
      <4> QED
        BY <3>1, <4>1, <4>2
    <3>3. CASE ~up[n]
      BY <3>3, <1>4, <1>5
    <3> QED
      BY <3>2, <3>3
  <2>5. Quiet(n, q + 2 * Periods + 1)' => ~following'[n]
    BY <1>1, <1>4, <1>5, <1>8, <2>2 DEF Led
  <2> QED
    BY <1>6, <2>3, <2>4, <2>5 DEF Led
<1>9. CASE p # Periods - 1
  <2>1. q = p + 1
    BY <1>3, <1>9
  <2>2. /\ Quiet(n, q + 1)' => Quiet(n, p + 1)
        /\ Quiet(n, q + Periods + 1)' => Quiet(n, p + Periods + 1)
        /\ Quiet(n, q + 2 * Periods + 1)' => Quiet(n, p + 2 * Periods + 1)
    <3>1. /\ q + 1 = (p + 1) + 1 /\ q + Periods + 1 = (p + Periods + 1) + 1
          /\ q + 2 * Periods + 1 = (p + 2 * Periods + 1) + 1
          /\ {p + 1, p + Periods + 1, p + 2 * Periods + 1,
              q + 1, q + Periods + 1, q + 2 * Periods + 1} \subseteq Nat
      BY <1>2, <2>1
    <3> QED
      BY <1>7, <3>1
  <2>3. silence'[n] = silence[n] /\ (round_due[n] => round_due'[n]) /\ following'[n] = following[n]
    BY <1>4, <1>9
  <2> QED
    BY <1>1, <1>6, <2>2, <2>3 DEF Led
<1> QED
  BY <1>8, <1>9

ReleaseInv == Basic /\ Releasing

LEMMA ReleaseAlways == Spec => []ReleaseInv
<1>1. Init => ReleaseInv
  BY BasicInit, ReleasingInit DEF ReleaseInv
<1>2. ReleaseInv /\ [Next]_vars => ReleaseInv'
  BY BasicStep, StepKinds, ReleasingQuick, ReleasingTime DEF ReleaseInv, Basic
<1> QED
  BY <1>1, <1>2, PTL DEF Spec

(***************************************************************************)
(* A follower is released three seconds after those of lower address have  *)
(* left the bus, whichever frames were still on their way and wherever the *)
(* main loops were in their second; a controller that nobody outranks      *)
(* never follows (uptime() - time_last_ctrl_msg in charge_control()).      *)
(***************************************************************************)
THEOREM FollowersReleased == Settled >= 3 * Periods => (Spec => []Released)
<1>1. ASSUME Settled >= 3 * Periods, ReleaseInv
      PROVE  Released
  <2> SUFFICES ASSUME NEW n \in Controllers,
                      \A m \in Controllers : Below(m, n) => ~Publishes(m) /\ lasting[m] >= Settled
               PROVE  ~following[n]
    BY DEF Released
  <2>1. Types /\ Led(n, period)
    BY <1>1 DEF ReleaseInv, Basic, Releasing
  <2>2. Periods \in Nat \ {0} /\ Settled \in Nat /\ period \in 0 .. Periods - 1
    BY <2>1, CanAssumption DEF Types, TimeTypes
  <2>3. Quiet(n, Settled) /\ period + 2 * Periods + 1 <= Settled /\ period + 2 * Periods + 1 \in Nat
    BY <1>1, <2>2 DEF Quiet
  <2>4. Quiet(n, period + 2 * Periods + 1)
    BY <2>1, <2>2, <2>3, QuietWeaker
  <2> QED
    BY <2>1, <2>4 DEF Led
<1>2. (Settled >= 3 * Periods) => (ReleaseInv => Released)
  BY <1>1
<1>3. (Settled >= 3 * Periods) => (Settled >= 3 * Periods)'
  OBVIOUS
<1> QED
  BY <1>2, <1>3, ReleaseAlways, PTL

-------------------------------------------------------------------------------
\* The controllers that the queue of each has room for.
RoomForAll == QueueSize >= Cardinality(Controllers) - 1

\* The control object is among those the comparison of the code lets pass.
Passes == ControlObject > 32768

LEMMA RoomToSpeak ==
  ASSUME Basic, RoomForAll, NEW n \in Controllers, NEW s \in Controllers, s # n,
         up[s], pc[s] \in {"publish", "control"}, period # 0
  PROVE  Len(sub_msgq[n]) < QueueSize
<1>1. Spoken(n) \in SUBSET (Controllers \ {n}) /\ s \notin Spoken(n)
  BY DEF Spoken
<1>2. /\ Cardinality(Spoken(n)) \in Nat /\ Cardinality(Controllers) \in Nat
      /\ Cardinality(Spoken(n)) <= Cardinality(Controllers) - 2
  BY <1>1, Others
<1>3. Len(sub_msgq[n]) <= Cardinality(Spoken(n))
  BY DEF Basic, Room
<1>4. Len(sub_msgq[n]) \in Nat /\ QueueSize \in Nat
  BY CanAssumption DEF Basic, Types, ThreadTypes
<1> QED
  BY <1>2, <1>3, <1>4 DEF RoomForAll

\* For k periods both have been there, and n can hear m.
Heard(m, n, k) ==
  Below(m, n) /\ Publishes(m) /\ up[n] /\ lasting[m] >= k /\ lasting[n] >= k

(***************************************************************************)
(* What has been heard by period p of the second: in a period without      *)
(* reports the frame waits to be read or has been; the last period of a    *)
(* second ends with a fresh time stamp, which the round of the next second *)
(* finds.                                                                  *)
(***************************************************************************)
Hears(m, n, p) ==
  /\ Heard(m, n, 1) /\ p # 0 /\ pc[m] \in {"receive", "stamp"}
     => Importable(n) \/ pc[n] = "stamp" \/ silence[n] = 0
  /\ Heard(m, n, p + 2) => silence[n] <= 1 /\ (round_due[n] \/ following[n])
  /\ Heard(m, n, p + Periods + 2) => following[n]

Hearing == \A m, n \in Controllers : Hears(m, n, period)

LEMMA HeardWeaker ==
  ASSUME Types, NEW m \in Controllers, NEW n \in Controllers, NEW j \in Nat, NEW k \in Nat, j <= k,
         Heard(m, n, k)
  PROVE  Heard(m, n, j)
<1>1. lasting[m] \in Nat /\ lasting[n] \in Nat
  BY DEF Types, TimeTypes
<1> QED
  BY <1>1 DEF Heard

LEMMA HeardBefore ==
  ASSUME Types, Types', NEW m \in Controllers, NEW n \in Controllers, NEW k \in Nat
  PROVE  /\ Quick /\ k > 0 /\ Heard(m, n, k)' =>
              Heard(m, n, k) /\ lasting'[m] # 0 /\ lasting'[n] # 0
         /\ Period /\ Heard(m, n, k + 1)' => Heard(m, n, k)
<1>t. /\ lasting[m] \in Nat /\ lasting[n] \in Nat
      /\ lasting'[m] \in Nat /\ lasting'[n] \in Nat
  BY DEF Types, TimeTypes
<1>1. ASSUME Quick, k > 0, Heard(m, n, k)'
      PROVE  Heard(m, n, k) /\ lasting'[m] # 0 /\ lasting'[n] # 0
  <2>1. lasting'[m] # 0 /\ lasting'[n] # 0
    BY <1>1, <1>t DEF Heard
  <2> QED
    BY <1>1, <2>1, BusEvents DEF Heard, Below, Publishes
<1>2. ASSUME Period, Heard(m, n, k + 1)'
      PROVE  Heard(m, n, k)
  <2>1. lasting'[m] <= lasting[m] + 1 /\ lasting'[n] <= lasting[n] + 1 /\ UNCHANGED bus
    BY <1>2, TimeStep
  <2>2. lasting'[m] >= k + 1 /\ lasting'[n] >= k + 1
    BY <1>2 DEF Heard
  <2>3. Below(m, n) /\ Publishes(m) /\ up[n]
    BY <1>2, <2>1 DEF Heard, Below, Publishes, bus
  <2> QED
    BY <1>t, <2>1, <2>2, <2>3 DEF Heard
<1> QED
  BY <1>1, <1>2

\* What a step between two periods may do to controller n, which can hear m.
LeavesHeard(m, n) ==
  /\ period # 0 /\ pc'[m] \in {"receive", "stamp"}
     => Importable(n)' \/ pc'[n] = "stamp" \/ silence'[n] = 0
  /\ silence[n] <= 1 =>
       /\ silence'[n] <= 1
       /\ round_due[n] \/ following[n] => round_due'[n] \/ following'[n]
       /\ following[n] => following'[n]

LEMMA QuickLeavesHeard ==
  ASSUME RoomForAll, Passes, Basic, Hearing, Quick, NEW m \in Controllers, NEW n \in Controllers,
         Heard(m, n, 1), lasting'[m] # 0, lasting'[n] # 0
  PROVE  LeavesHeard(m, n)
<1>h. period # 0 /\ pc[m] \in {"receive", "stamp"}
      => Importable(n) \/ pc[n] = "stamp" \/ silence[n] = 0
  BY DEF Hearing, Hears
<1>d. can_node_addr' = can_node_addr
  BY BusEvents DEF Basic
<1>t. Types /\ silence[n] \in 0 .. 2 /\ can_node_addr[m] \in Int /\ m # n /\ up[m]
  BY DEF Basic, Types, BusTypes, ChargerTypes, Heard, Below, Publishes
\* Nothing of the charger happens, and the frame stays where it was.
<1>0. ASSUME pc'[m] = pc[m] \/ pc'[m] \notin {"receive", "stamp"} \/ pc[m] \in {"receive", "stamp"},
             pc'[n] = pc[n] \/ pc[n] # "stamp",
             Importable(n) => Importable(n)', UNCHANGED charger
      PROVE  LeavesHeard(m, n)
  BY <1>0, <1>h DEF LeavesHeard, charger
<1>1. ASSUME NEW s \in Controllers, PublishReports(s)
      PROVE  LeavesHeard(m, n)
  BY <1>1 DEF PublishReports, LeavesHeard, charger
<1>2. ASSUME NEW s \in Controllers, PublishControl(s)
      PROVE  LeavesHeard(m, n)
  <2>1. /\ up[s] /\ pc[s] \in {"publish", "control"} /\ Send(s, Control(s))
        /\ pc' = [pc EXCEPT ![s] = "receive"] /\ UNCHANGED charger
    BY <1>2 DEF PublishControl, Publishes, Goto
  <2>2. /\ Importable(n) => Importable(n)'
        /\ n # s /\ up[n] /\ Len(sub_msgq[n]) < QueueSize /\ Imported(Control(s), n) => Importable(n)'
    BY <1>d, <1>t, <2>1, FramesSent, WaitingSent
  <2>3. CASE s = m
    <3>1. period # 0 => Len(sub_msgq[n]) < QueueSize
      BY <1>t, <2>1, <2>3, RoomToSpeak
    <3>2. Imported(Control(m), n) /\ up[n]
      BY CountsForBelow DEF Passes, Heard
    <3> QED
      BY <1>t, <2>1, <2>2, <2>3, <3>1, <3>2 DEF LeavesHeard, charger
  <2>4. CASE s # m
    BY <1>0, <1>t, <2>1, <2>2, <2>4 DEF Types, ThreadTypes
  <2> QED
    BY <2>3, <2>4
<1>3. ASSUME NEW s \in Controllers, PublishNothing(s)
      PROVE  LeavesHeard(m, n)
  <2>1. /\ s # m /\ pc[s] # "stamp" /\ pc' = [pc EXCEPT ![s] = "receive"]
        /\ UNCHANGED charger /\ sub_msgq' = sub_msgq
    BY <1>3 DEF PublishNothing, Goto, Heard, Publishes
  <2>2. Importable(n) => Importable(n)'
    BY <1>d, <2>1 DEF Importable, Imported
  <2> QED
    BY <1>0, <1>t, <2>1, <2>2 DEF Types, ThreadTypes
<1>4. ASSUME NEW s \in Controllers, Receive(s)
      PROVE  LeavesHeard(m, n)
  <2>1. PICK k \in DOMAIN sub_msgq[s] : Take(s, k)
    BY <1>4 DEF Receive
  <2>2. /\ pc[s] = "receive" /\ pc' = [pc EXCEPT ![s] = "stamp"]
        /\ UNCHANGED <<round_due, following, silence>>
    BY <1>4 DEF Receive, Goto
  <2>3. CASE s = n
    BY <1>t, <2>2, <2>3 DEF LeavesHeard, Types, ThreadTypes
  <2>4. CASE s # n
    <3>1. Importable(n) => Importable(n)'
      BY <1>d, <1>t, <2>1, <2>4, WaitingTaken
    <3>2. pc'[n] = pc[n] /\ (pc'[m] = pc[m] \/ pc[m] = "receive")
      BY <1>t, <2>2, <2>4 DEF Types, ThreadTypes
    <3> QED
      BY <1>h, <2>2, <3>1, <3>2 DEF LeavesHeard
  <2> QED
    BY <2>3, <2>4
<1>5. ASSUME NEW s \in Controllers, Ignore(s)
      PROVE  LeavesHeard(m, n)
  <2>1. Take(s, Len(sub_msgq[s])) /\ pc[s] = "receive" /\ UNCHANGED <<pc, charger>>
    BY <1>5 DEF Ignore
  <2>2. CASE s = n
    <3>1. ~Importable(n) /\ pc[n] # "stamp"
      BY <1>5, <2>2 DEF Ignore, Importable
    <3> QED
      BY <1>h, <2>1, <3>1 DEF LeavesHeard, charger
  <2>3. CASE s # n
    <3>1. Importable(n) => Importable(n)'
      BY <1>d, <1>t, <2>1, <2>3, WaitingTaken
    <3> QED
      BY <1>0, <2>1, <3>1
  <2> QED
    BY <2>2, <2>3
<1>6. ASSUME NEW s \in Controllers, Stamp(s)
      PROVE  LeavesHeard(m, n)
  <2>1. /\ pc[s] = "stamp" /\ pc' = [pc EXCEPT ![s] = "receive"] /\ sub_msgq' = sub_msgq
        /\ silence' = [silence EXCEPT ![s] = 0] /\ UNCHANGED <<round_due, following>>
    BY <1>6 DEF Stamp, Goto
  <2>2. CASE s = n
    BY <1>t, <2>1, <2>2 DEF LeavesHeard, Types, ChargerTypes
  <2>3. CASE s # n
    <3>1. Importable(n) => Importable(n)'
      BY <1>d, <2>1 DEF Importable, Imported
    <3>2. pc'[n] = pc[n] /\ silence'[n] = silence[n] /\ (pc'[m] = pc[m] \/ pc[m] = "stamp")
      BY <1>t, <2>1, <2>3 DEF Types, ThreadTypes, ChargerTypes
    <3> QED
      BY <1>h, <2>1, <3>1, <3>2 DEF LeavesHeard
  <2> QED
    BY <2>2, <2>3
<1>7. ASSUME NEW s \in Controllers, Round(s)
      PROVE  LeavesHeard(m, n)
  <2>1. UNCHANGED <<pc, sub_msgq, silence>>
    BY <1>7 DEF Round, thread
  <2>2. Importable(n) => Importable(n)'
    BY <1>d, <2>1 DEF Importable, Imported
  <2>3. ASSUME silence[n] <= 1
        PROVE  /\ round_due[n] \/ following[n] => round_due'[n] \/ following'[n]
               /\ following[n] => following'[n]
    <3>1. CASE n = s
      <4>1. ~(silence[s] > 1)
        BY <1>t, <2>3, <3>1
      <4>2. following' = [following EXCEPT ![s] = TRUE]
        BY <1>7, <4>1 DEF Round, Follow, Resume, Charge
      <4>3. following'[n]
        BY <1>t, <3>1, <4>2 DEF Types, ChargerTypes
      <4> QED
        BY <4>3
    <3>2. CASE n # s
      BY <1>7, <1>t, <3>2 DEF Round, Follow, Resume, Charge, Types, ChargerTypes
    <3> QED
      BY <3>1, <3>2
  <2> QED
    BY <1>h, <2>1, <2>2, <2>3 DEF LeavesHeard
<1>8. ASSUME NEW s \in Controllers, Fail(s) \/ Restart(s) \/ Command(s) \/ SendFails(s)
      PROVE  LeavesHeard(m, n)
  <2>1. lasting'[s] = 0
    BY <1>8, <1>t DEF Fail, Restart, Command, SendFails, Goto, Event, Types, TimeTypes
  <2>2. s # m /\ s # n
    BY <2>1
  <2>3. sub_msgq'[n] = sub_msgq[n] /\ pc'[n] = pc[n] /\ pc'[m] = pc[m]
    BY <1>8, <1>t, <2>2 DEF Fail, Restart, Command, SendFails, Goto, thread, Types, ThreadTypes
  <2>4. silence'[n] = silence[n] /\ following'[n] = following[n] /\ round_due'[n] = round_due[n]
    BY <1>8, <1>t, <2>2 DEF Fail, Restart, Command, SendFails, Goto, charger, Types, ChargerTypes
  <2>5. Importable(n) => Importable(n)'
    BY <1>d, <2>3 DEF Importable, Imported
  <2> QED
    BY <1>h, <2>3, <2>4, <2>5 DEF LeavesHeard
<1>9. CASE UNCHANGED vars
  <2>1. UNCHANGED <<pc, sub_msgq, charger>>
    BY <1>9 DEF vars, thread
  <2>2. Importable(n) => Importable(n)'
    BY <1>d, <2>1 DEF Importable, Imported
  <2> QED
    BY <1>0, <2>1, <2>2
<1> QED
  BY <1>1, <1>2, <1>3, <1>4, <1>5, <1>6, <1>7, <1>8, <1>9 DEF Quick, Pubsub

LEMMA HearingInit == Init => Hearing
<1> SUFFICES ASSUME Init, NEW m \in Controllers, NEW n \in Controllers
             PROVE  Hears(m, n, period)
  BY DEF Hearing
<1>1. lasting[m] = 0 /\ period = 0 /\ Periods \in Nat
  BY CanAssumption DEF Init
<1>2. ~Heard(m, n, 1) /\ ~Heard(m, n, period + 2) /\ ~Heard(m, n, period + Periods + 2)
  BY <1>1 DEF Heard
<1> QED
  BY <1>2 DEF Hears

LEMMA HearingQuick ==
  ASSUME RoomForAll, Passes, Basic, Types', Hearing, Quick
  PROVE  Hearing'
<1> PICK p \in Nat : p = period
  BY DEF Basic, Types, TimeTypes
<1> SUFFICES ASSUME NEW m \in Controllers, NEW n \in Controllers
             PROVE  Hears(m, n, p)'
  BY BusEvents DEF Basic, Hearing
<1>1. Hears(m, n, p) /\ Types
  BY DEF Basic, Hearing
<1>2. Periods \in Nat
  BY CanAssumption
<1>3. ASSUME NEW k \in Nat, k > 0, Heard(m, n, k)'
      PROVE  Heard(m, n, k) /\ LeavesHeard(m, n)
  <2>1. Heard(m, n, k) /\ lasting'[m] # 0 /\ lasting'[n] # 0
    BY <1>1, <1>3, HeardBefore
  <2> QED
    BY <1>1, <1>3, <2>1, HeardWeaker, QuickLeavesHeard
<1>4. /\ Heard(m, n, 1)' => LeavesHeard(m, n)
      /\ Heard(m, n, p + 2)' => Heard(m, n, p + 2) /\ LeavesHeard(m, n)
      /\ Heard(m, n, p + Periods + 2)' =>
           Heard(m, n, p + 2) /\ Heard(m, n, p + Periods + 2) /\ LeavesHeard(m, n)
  BY <1>1, <1>2, <1>3, HeardWeaker
<1> QED
  BY <1>1, <1>4 DEF Hears, LeavesHeard

\* The last period of a second is one without reports, so the second ends with a time stamp.
LEMMA HearingTime ==
  ASSUME Periods >= 2, Basic, Types', Hearing, Period
  PROVE  Hearing'
<1> PICK p \in Nat : p = period
  BY DEF Basic, Types, TimeTypes
<1> PICK q \in Nat : q = period'
  BY DEF Types, TimeTypes
<1> SUFFICES ASSUME NEW m \in Controllers, NEW n \in Controllers
             PROVE  Hears(m, n, q)'
  BY DEF Hearing
<1>1. Hears(m, n, p) /\ Types
  BY DEF Basic, Hearing
<1>2. Periods \in Nat /\ silence[n] \in 0 .. 2 /\ p < Periods
  BY <1>1, CanAssumption DEF Types, TimeTypes, ChargerTypes
<1>3. q = IF p = Periods - 1 THEN 0 ELSE p + 1
  BY <1>1, TimeStep
<1>4. /\ silence'[n] = IF up[n] /\ p = Periods - 1
                       THEN (IF silence[n] < 2 THEN silence[n] + 1 ELSE 2) ELSE silence[n]
      /\ round_due'[n] = (round_due[n] \/ (up[n] /\ p = Periods - 1))
      /\ up[n] /\ p = Periods - 1 => ~round_due[n]
      /\ following'[n] = following[n]
  BY <1>1, TimeStep DEF Period
<1>5. pc'[m] = "publish"
  BY DEF Period
<1>6. \A j, k \in Nat : j = k + 1 /\ Heard(m, n, j)' => Heard(m, n, k)
  BY <1>1, HeardBefore
<1>7. CASE p = Periods - 1
  <2>1. q = 0 /\ q + 2 = 1 + 1 /\ q + Periods + 2 = (p + 2) + 1 /\ p # 0 /\ Periods + 2 \in Nat
        /\ q + Periods + 2 \in Nat /\ q + 2 \in Nat /\ p + 2 \in Nat
    BY <1>2, <1>3, <1>7
  <2>2. /\ Heard(m, n, q + 2)' => Heard(m, n, 1)
        /\ Heard(m, n, q + Periods + 2)' => Heard(m, n, p + 2)
    BY <1>6, <2>1
  <2>3. ASSUME Heard(m, n, 1)
        PROVE  silence'[n] <= 1 /\ round_due'[n]
    <3>1. up[n] /\ up[m]
      BY <2>3 DEF Heard, Publishes
    <3>2. pc[m] = "receive" /\ pc[n] = "receive" /\ ~Importable(n)
      BY <3>1 DEF Period, Importable
    <3>3. silence[n] = 0
      BY <1>1, <2>1, <2>3, <3>2 DEF Hears
    <3>4. round_due'[n]
      BY <1>4, <1>7, <3>1
    <3>5. silence'[n] = 1
      BY <1>4, <1>7, <3>1, <3>3
    <3> QED
      BY <3>4, <3>5
  <2>4. ASSUME Heard(m, n, p + 2)
        PROVE  following'[n]
    <3>1. up[n]
      BY <2>4 DEF Heard
    <3> QED
      BY <1>1, <1>4, <1>7, <2>4, <3>1 DEF Hears
  <2> QED
    BY <1>5, <2>2, <2>3, <2>4 DEF Hears
<1>8. CASE p # Periods - 1
  <2>1. q = p + 1
    BY <1>3, <1>8
  <2>2. /\ Heard(m, n, q + 2)' => Heard(m, n, p + 2)
        /\ Heard(m, n, q + Periods + 2)' => Heard(m, n, p + Periods + 2)
    <3>1. /\ q + 2 = (p + 2) + 1 /\ q + Periods + 2 = (p + Periods + 2) + 1
          /\ {p + 2, p + Periods + 2, q + 2, q + Periods + 2} \subseteq Nat
      BY <1>2, <2>1
    <3> QED
      BY <1>6, <3>1
  <2>3. silence'[n] = silence[n] /\ (round_due[n] => round_due'[n]) /\ following'[n] = following[n]
    BY <1>4, <1>8
  <2> QED
    BY <1>1, <1>5, <2>2, <2>3 DEF Hears
<1> QED
  BY <1>7, <1>8

FollowInv == Basic /\ Hearing

\* The conditions under which frames get through.
GetsThrough == Periods >= 2 /\ RoomForAll /\ Passes

LEMMA FollowStep ==
  ASSUME GetsThrough, FollowInv, [Next]_vars
  PROVE  FollowInv'
<1>1. Basic' /\ Types'
  BY BasicStep DEF FollowInv, Basic
<1> QED
  BY <1>1, StepKinds, HearingQuick, HearingTime DEF FollowInv, GetsThrough

LEMMA FollowAlways == GetsThrough => (Spec => []FollowInv)
<1>1. Init => FollowInv
  BY BasicInit, HearingInit DEF FollowInv
<1>2. GetsThrough => (FollowInv /\ [Next]_vars => FollowInv')
  BY FollowStep
<1>3. GetsThrough => GetsThrough'
  BY DEF GetsThrough, RoomForAll, Passes
<1> QED
  BY <1>1, <1>2, <1>3, PTL DEF Spec

(***************************************************************************)
(* A controller follows two seconds after one of lower address began to    *)
(* publish, and does not fall back, for every number of controllers that   *)
(* the queue has room for, although each second begins with reports that   *)
(* fill the queue (sub_msgq, time_last_ctrl_msg): the frames of the        *)
(* periods without reports are enough.  The object must be one that the    *)
(* comparison lets pass; the one of the default table is not.              *)
(***************************************************************************)
THEOREM CanFollows == GetsThrough /\ Settled >= 2 * Periods + 1 => (Spec => []Follows)
<1>1. ASSUME Settled >= 2 * Periods + 1, FollowInv
      PROVE  Follows
  <2> SUFFICES ASSUME NEW n \in Controllers, up[n], lasting[n] >= Settled,
                      NEW m \in Controllers, Below(m, n), Publishes(m), lasting[m] >= Settled
               PROVE  following[n]
    BY DEF Follows
  <2>1. Types /\ Hears(m, n, period)
    BY <1>1 DEF FollowInv, Basic, Hearing
  <2>2. Periods \in Nat /\ Settled \in Nat /\ period \in 0 .. Periods - 1
    BY <2>1, CanAssumption DEF Types, TimeTypes
  <2>3. Heard(m, n, Settled) /\ period + Periods + 2 <= Settled /\ period + Periods + 2 \in Nat
    BY <1>1, <2>2 DEF Heard
  <2>4. Heard(m, n, period + Periods + 2)
    BY <2>1, <2>2, <2>3, HeardWeaker
  <2> QED
    BY <2>1, <2>4 DEF Hears
<1> DEFINE Long == Settled >= 2 * Periods + 1
<1>2. Long => (FollowInv => Follows)
  BY <1>1
<1>3. Long => Long'
  OBVIOUS
<1> QED
  BY <1>2, <1>3, FollowAlways, PTL


-------------------------------------------------------------------------------
\* The leader, its target and the bus have been what they are for k periods.
Calm(l, k) ==
  Leader(l) /\ steady[l] >= k /\ \A m \in Controllers : lasting[m] >= k

\* How many controllers one may hear, and how long their news take to reach it.
Rank(n) == Cardinality({m \in Controllers : Below(m, n)})
Delay(n) == Periods + 1 + 2 * Rank(n)

\* All that controller n has still to import is v.
Agreeing(n, v) ==
  \A j \in DOMAIN sub_msgq[n] : Imported(sub_msgq[n][j], n) => sub_msgq[n][j].value = v

(***************************************************************************)
(* The leader's current spreads from address to address: once all between  *)
(* have it, nothing else arrives, and what the leader sends in a period p  *)
(* without reports arrives and is there by the end of it.  d is the delay  *)
(* of controller n.                                                        *)
(***************************************************************************)
Spread(l, n, p, d) ==
  /\ Calm(l, d - 2) =>
       /\ Agreeing(n, target[l])
       /\ p # 0 /\ pc[l] \in {"receive", "stamp"} => Importable(n) \/ target[n] = target[l]
  /\ Calm(l, d - 1) /\ p # 1 => target[n] = target[l]
  /\ Calm(l, d) => target[n] = target[l]

Spreading ==
  \A l, n \in Controllers : up[n] /\ Below(l, n) => Spread(l, n, period, Delay(n))

\* Each address that is heard from costs two periods.
LEMMA RankGrows ==
  ASSUME Types, NEW m \in Controllers, NEW n \in Controllers
  PROVE  /\ Rank(m) \in Nat /\ Delay(m) \in Nat
         /\ Delay(m) <= Periods + 2 * Cardinality(Controllers) - 1
         /\ Below(m, n) => Delay(m) + 2 <= Delay(n) /\ Delay(m) > Periods
<1> DEFINE Lower(c) == {x \in Controllers : Below(x, c)}
<1>1. /\ can_node_addr \in [Controllers -> 0 .. 255] /\ Periods \in Nat
  BY CanAssumption DEF Types, BusTypes
<1>2. ASSUME NEW c \in Controllers
      PROVE  /\ Lower(c) \in SUBSET (Controllers \ {c}) /\ IsFiniteSet(Lower(c))
             /\ Cardinality(Lower(c)) \in Nat /\ Cardinality(Controllers) \in Nat
             /\ Cardinality(Lower(c)) <= Cardinality(Controllers) - 1
  <2>1. Lower(c) \in SUBSET (Controllers \ {c})
    BY <1>1 DEF Below
  <2> QED
    BY <2>1, Others
<1>3. \A c \in Controllers : Rank(c) = Cardinality(Lower(c))
  BY DEF Rank
<1>4. ASSUME Below(m, n)
      PROVE  Rank(m) + 1 <= Rank(n)
  <2>1. /\ \A x \in Controllers : Below(x, m) => Below(x, n)
        /\ ~Below(m, m)
    <3>1. \A x \in Controllers : can_node_addr[x] \in Int
      BY <1>1
    <3>2. can_node_addr[m] < can_node_addr[n]
      BY <1>4 DEF Below
    <3> QED
      BY <3>1, <3>2 DEF Below
  <2>4. Lower(m) \cup {m} \subseteq Lower(n) /\ m \notin Lower(m)
    BY <1>4, <2>1
  <2>2. Cardinality(Lower(m) \cup {m}) = Cardinality(Lower(m)) + 1
    BY <1>2, <2>4, FS_AddElement
  <2>3. Cardinality(Lower(m) \cup {m}) <= Cardinality(Lower(n))
    BY <1>2, <2>4, FS_Subset
  <2> QED
    BY <1>3, <2>2, <2>3
<1> HIDE DEF Lower
<1>5. Rank(m) \in Nat /\ Rank(n) \in Nat /\ Rank(m) <= Cardinality(Controllers) - 1
      /\ Cardinality(Controllers) \in Nat
  BY <1>2, <1>3
<1>6. Delay(m) = Periods + 1 + 2 * Rank(m) /\ Delay(n) = Periods + 1 + 2 * Rank(n)
  BY DEF Delay
<1>7. Delay(m) \in Nat /\ Delay(m) <= Periods + 2 * Cardinality(Controllers) - 1
  BY <1>1, <1>5, <1>6
<1>8. Below(m, n) => Delay(m) + 2 <= Delay(n) /\ Delay(m) > Periods
  BY <1>1, <1>4, <1>5, <1>6
<1> QED
  BY <1>5, <1>7, <1>8

LEMMA CalmWeaker ==
  ASSUME Types, NEW l \in Controllers, NEW j \in Int, NEW k \in Int, j <= k, Calm(l, k)
  PROVE  Calm(l, j)
<1>1. steady[l] \in Nat /\ \A m \in Controllers : lasting[m] \in Nat
  BY DEF Types, TimeTypes
<1> QED
  BY <1>1 DEF Calm

\* A target changes with a count that starts again.
LEMMA TargetEvents ==
  ASSUME Types, Quick, NEW m \in Controllers
  PROVE  \/ target'[m] = target[m] /\ steady'[m] = steady[m]
         \/ steady'[m] = 0
<1>1. target \in [Controllers -> Currents] /\ steady \in [Controllers -> 0 .. Settled]
  BY DEF Types, ChargerTypes, TimeTypes
<1>2. ASSUME NEW n \in Controllers, Pubsub(n)
      PROVE  \/ target'[m] = target[m] /\ steady'[m] = steady[m]
             \/ steady'[m] = 0
  <2>1. CASE Receive(n)
    <3>1. PICK k \in DOMAIN sub_msgq[n] :
            /\ target' = [target EXCEPT ![n] = sub_msgq[n][k].value]
            /\ steady' = [steady EXCEPT ![n] = IF sub_msgq[n][k].value = target[n] THEN @ ELSE 0]
      BY <2>1 DEF Receive
    <3> QED
      BY <1>1, <3>1
  <2>2. CASE ~Receive(n)
    BY <1>2, <2>2 DEF Pubsub, PublishReports, PublishControl, PublishNothing, Ignore, Stamp,
                      charger, time
  <2> QED
    BY <2>1, <2>2
<1>3. ASSUME NEW n \in Controllers, Round(n)
      PROVE  \/ target'[m] = target[m] /\ steady'[m] = steady[m]
             \/ steady'[m] = 0
  BY <1>1, <1>3 DEF Round, Follow, Resume, Charge
<1>4. ASSUME NEW n \in Controllers, Fail(n) \/ Restart(n) \/ Command(n) \/ SendFails(n)
      PROVE  \/ target'[m] = target[m] /\ steady'[m] = steady[m]
             \/ steady'[m] = 0
  BY <1>1, <1>4 DEF Fail, Restart, Command, SendFails, Goto, charger
<1>5. UNCHANGED vars => target'[m] = target[m] /\ steady'[m] = steady[m]
  BY DEF vars, charger, time
<1> QED
  BY <1>2, <1>3, <1>4, <1>5 DEF Quick

LEMMA CalmBefore ==
  ASSUME Types, Types', NEW l \in Controllers, NEW k \in Nat
  PROVE  /\ Quick /\ k > 0 /\ Calm(l, k)' =>
              /\ Calm(l, k) /\ target'[l] = target[l] /\ pub_can_enable' = pub_can_enable /\ up' = up
              /\ \A m \in Controllers : lasting'[m] # 0
         /\ Period /\ Calm(l, k + 1)' => Calm(l, k)
<1>t. /\ steady[l] \in Nat /\ steady'[l] \in Nat
      /\ \A m \in Controllers : lasting[m] \in Nat /\ lasting'[m] \in Nat
  BY DEF Types, TimeTypes
<1>1. ASSUME Quick, k > 0, Calm(l, k)'
      PROVE  /\ Calm(l, k) /\ target'[l] = target[l] /\ pub_can_enable' = pub_can_enable /\ up' = up
             /\ \A m \in Controllers : lasting'[m] # 0
  <2>1. steady'[l] >= k /\ \A m \in Controllers : lasting'[m] >= k
    BY <1>1 DEF Calm
  <2>2. steady'[l] # 0 /\ \A m \in Controllers : lasting'[m] # 0
    BY <1>t, <1>1, <2>1
  <2>3. /\ can_node_addr' = can_node_addr
        /\ \A m \in Controllers : /\ up'[m] = up[m] /\ pub_can_enable'[m] = pub_can_enable[m]
                                  /\ lasting'[m] = lasting[m]
    BY <1>1, <2>2, BusEvents
  <2>4. up' = up /\ pub_can_enable' = pub_can_enable
    BY <2>3 DEF Types, BusTypes
  <2>5. Leader(l)
    BY <1>1, <2>3, <2>4 DEF Calm, Leader, Publishes, Below
  <2>6. target'[l] = target[l] /\ steady'[l] = steady[l]
    BY <1>1, <2>2, TargetEvents
  <2> QED
    BY <2>1, <2>2, <2>3, <2>4, <2>5, <2>6 DEF Calm
<1>2. ASSUME Period, Calm(l, k + 1)'
      PROVE  Calm(l, k)
  <2>1. UNCHANGED bus
    BY <1>2, TimeStep
  <2>2. Leader(l)
    BY <1>2, <2>1 DEF Calm, Leader, Publishes, Below, bus
  <2>3. steady'[l] >= k + 1 /\ \A m \in Controllers : lasting'[m] >= k + 1
    BY <1>2 DEF Calm
  <2>4. steady'[l] <= steady[l] + 1 /\ \A m \in Controllers : lasting'[m] <= lasting[m] + 1
    BY <1>2, TimeStep
  <2>5. steady[l] >= k /\ \A m \in Controllers : lasting[m] >= k
    BY <1>t, <2>3, <2>4
  <2> QED
    BY <2>2, <2>5 DEF Calm
<1> QED
  BY <1>1, <1>2

-------------------------------------------------------------------------------
\* What a sent frame, or a taken one, does to what waits.
LEMMA AgreeingSent ==
  ASSUME Types, NEW s \in Controllers, NEW frame \in Frame, Send(s, frame),
         can_node_addr' = can_node_addr, NEW n \in Controllers, NEW v,
         Agreeing(n, v), n # s /\ Imported(frame, n) => frame.value = v
  PROVE  Agreeing(n, v)'
<1>1. \/ sub_msgq'[n] = sub_msgq[n]
      \/ n # s /\ sub_msgq'[n] = Append(sub_msgq[n], frame)
  BY Sent DEF Types
<1>2. sub_msgq[n] \in Seq(Frame)
  BY DEF Types, ThreadTypes
<1>3. Agreeing(n, v)' <=>
        \A j \in DOMAIN sub_msgq'[n] : Imported(sub_msgq'[n][j], n) => sub_msgq'[n][j].value = v
  BY DEF Agreeing, Imported
<1>4. CASE sub_msgq'[n] = sub_msgq[n]
  BY <1>3, <1>4 DEF Agreeing
<1>5. CASE n # s /\ sub_msgq'[n] = Append(sub_msgq[n], frame)
  BY <1>2, <1>3, <1>5, Appended DEF Agreeing
<1> QED
  BY <1>1, <1>4, <1>5

LEMMA AgreeingTaken ==
  ASSUME Types, NEW s \in Controllers, NEW k \in DOMAIN sub_msgq[s] \cup {Len(sub_msgq[s])}, Take(s, k),
         can_node_addr' = can_node_addr, NEW n \in Controllers, NEW v, Agreeing(n, v)
  PROVE  Agreeing(n, v)'
<1>1. Agreeing(n, v)' <=>
        \A j \in DOMAIN sub_msgq'[n] : Imported(sub_msgq'[n][j], n) => sub_msgq'[n][j].value = v
  BY DEF Agreeing, Imported
<1>2. CASE n # s
  BY <1>1, <1>2, Took DEF Types, Agreeing
<1>3. CASE n = s
  <2>1. sub_msgq[n] \in Seq(Frame) /\ sub_msgq'[n] = SubSeq(sub_msgq[n], k + 1, Len(sub_msgq[n]))
    BY <1>3, Took DEF Types, ThreadTypes
  <2>2. k \in DOMAIN sub_msgq[n] \cup {Len(sub_msgq[n])}
    BY <1>3
  <2>3. \A j \in DOMAIN sub_msgq'[n] :
          j + k \in DOMAIN sub_msgq[n] /\ sub_msgq'[n][j] = sub_msgq[n][j + k]
    BY <2>1, <2>2, Taken
  <2> QED
    BY <1>1, <1>3, <2>3 DEF Agreeing
<1> QED
  BY <1>2, <1>3

(***************************************************************************)
(* What a step between two periods may do to controller n, below which l   *)
(* leads with target v.                                                    *)
(***************************************************************************)
LeavesCalm(l, n, v) ==
  /\ Agreeing(n, v)'
  /\ period # 0 /\ pc'[l] \in {"receive", "stamp"} => Importable(n)' \/ target'[n] = v
  /\ target[n] = v => target'[n] = v

ShareInv == FollowInv /\ Spreading

LEMMA QuickLeavesCalm ==
  ASSUME RoomForAll, Passes, ShareInv, Quick, NEW l \in Controllers, NEW n \in Controllers,
         up[n], Below(l, n), Calm(l, Delay(n) - 2), up' = up, pub_can_enable' = pub_can_enable,
         \A m \in Controllers : lasting'[m] # 0, NEW v, v = target[l]
  PROVE  LeavesCalm(l, n, v)
<1>t. Basic /\ Types /\ Hearing /\ Spreading
  BY DEF ShareInv, FollowInv, Basic
<1>d. can_node_addr' = can_node_addr
  BY <1>t, BusEvents
<1>p. /\ period \in 0 .. Periods - 1 /\ Periods \in Nat /\ Delay(n) \in Nat /\ Delay(l) \in Nat
      /\ Delay(l) + 2 <= Delay(n) /\ Delay(l) > Periods
  BY <1>t, CanAssumption, RankGrows DEF Types, TimeTypes
<1>l. Leader(l) /\ Publishes(l) /\ up[l] /\ l # n
  BY <1>t DEF Calm, Leader, Publishes, Below, Types, BusTypes
\* It hears the leader, so it does not charge by itself.
<1>s. silence[n] <= 1 /\ silence[n] \in 0 .. 2
  <2>1. Calm(l, period + 2)
    BY <1>p, <1>t, CalmWeaker
  <2>2. Heard(l, n, period + 2)
    BY <1>l, <2>1 DEF Calm, Heard
  <2> QED
    BY <1>t, <2>2 DEF Hearing, Hears, Types, ChargerTypes
<1>h. /\ Agreeing(n, v)
      /\ period # 0 /\ pc[l] \in {"receive", "stamp"} => Importable(n) \/ target[n] = v
  BY <1>t DEF Spreading, Spread
\* Nothing new waits, nothing is taken, and the target stays.
<1>0. ASSUME pc'[l] = pc[l] \/ pc'[l] \notin {"receive", "stamp"} \/ pc[l] \in {"receive", "stamp"},
             sub_msgq'[n] = sub_msgq[n], target'[n] = target[n]
      PROVE  LeavesCalm(l, n, v)
  <2>1. (Importable(n)' <=> Importable(n)) /\ (Agreeing(n, v)' <=> Agreeing(n, v))
    BY <1>0, <1>d DEF Importable, Agreeing, Imported
  <2> QED
    BY <1>0, <1>h, <2>1 DEF LeavesCalm
<1>1. ASSUME NEW s \in Controllers, PublishReports(s)
      PROVE  LeavesCalm(l, n, v)
  <2>1. Send(s, Report) /\ period = 0 /\ UNCHANGED target
    BY <1>1 DEF PublishReports, charger
  <2>2. Agreeing(n, v)'
    BY <1>d, <1>h, <1>t, <2>1, AgreeingSent, FramesSent, CountsForBelow
  <2> QED
    BY <2>1, <2>2 DEF LeavesCalm
<1>2. ASSUME NEW s \in Controllers, PublishControl(s)
      PROVE  LeavesCalm(l, n, v)
  <2>1. /\ Publishes(s) /\ up[s] /\ pc[s] \in {"publish", "control"} /\ Send(s, Control(s))
        /\ pc' = [pc EXCEPT ![s] = "receive"] /\ UNCHANGED target
    BY <1>2 DEF PublishControl, Publishes, Goto, charger
  \* Whoever is heard by n has the target already.
  <2>2. n # s /\ Imported(Control(s), n) => target[s] = v
    <3> SUFFICES ASSUME Below(s, n), s # l
                 PROVE  target[s] = v
      BY CountsForBelow
    <3>1. Below(l, s)
      BY <1>l, <2>1 DEF Leader
    <3>2. Delay(s) \in Nat /\ Delay(s) <= Delay(n) - 2
      BY <1>p, <1>t, RankGrows
    <3>3. Calm(l, Delay(s))
      BY <1>p, <1>t, <3>2, CalmWeaker
    <3> QED
      BY <1>t, <2>1, <3>1, <3>3 DEF Spreading, Spread
  <2>3. Control(s) \in Frame /\ Control(s).value = target[s]
    BY <1>t, FramesSent DEF Control
  <2>4. Agreeing(n, v)'
    BY <1>d, <1>h, <1>t, <2>1, <2>2, <2>3, AgreeingSent
  <2>5. /\ Importable(n) => Importable(n)'
        /\ n # s /\ Len(sub_msgq[n]) < QueueSize /\ Imported(Control(s), n) => Importable(n)'
    BY <1>d, <1>t, <2>1, <2>3, WaitingSent
  <2>6. CASE s = l
    <3>1. period # 0 => Len(sub_msgq[n]) < QueueSize
      BY <1>l, <1>t, <2>1, <2>6, RoomToSpeak
    <3>2. Imported(Control(l), n)
      BY CountsForBelow DEF Passes
    <3> QED
      BY <1>l, <2>1, <2>4, <2>5, <2>6, <3>1, <3>2 DEF LeavesCalm
  <2>7. CASE s # l
    <3>1. pc'[l] = pc[l]
      BY <1>t, <2>1, <2>7 DEF Types, ThreadTypes
    <3> QED
      BY <1>h, <2>1, <2>4, <2>5, <3>1 DEF LeavesCalm
  <2> QED
    BY <2>6, <2>7
<1>3. ASSUME NEW s \in Controllers, PublishNothing(s)
      PROVE  LeavesCalm(l, n, v)
  <2>1. /\ s # l /\ pc' = [pc EXCEPT ![s] = "receive"]
        /\ UNCHANGED target /\ sub_msgq' = sub_msgq
    BY <1>3, <1>l DEF PublishNothing, Goto, Publishes, charger
  <2> QED
    BY <1>0, <1>t, <2>1 DEF Types, ThreadTypes
<1>4. ASSUME NEW s \in Controllers, Receive(s)
      PROVE  LeavesCalm(l, n, v)
  <2>1. PICK k \in DOMAIN sub_msgq[s] :
          /\ Imported(sub_msgq[s][k], s)
          /\ Take(s, k)
          /\ target' = [target EXCEPT ![s] = sub_msgq[s][k].value]
    BY <1>4 DEF Receive
  <2>2. pc[s] = "receive" /\ pc' = [pc EXCEPT ![s] = "stamp"]
    BY <1>4 DEF Receive, Goto
  <2>3. Agreeing(n, v)'
    BY <1>d, <1>h, <1>t, <2>1, AgreeingTaken
  <2>4. target \in [Controllers -> Currents]
    BY <1>t DEF Types, ChargerTypes
  <2>5. CASE s = n
    <3>1. target'[n] = v
      BY <1>h, <2>1, <2>4, <2>5 DEF Agreeing
    <3> QED
      BY <2>3, <3>1 DEF LeavesCalm
  <2>6. CASE s # n
    <3>1. Importable(n) => Importable(n)'
      BY <1>d, <1>t, <2>1, <2>6, WaitingTaken
    <3>2. pc'[l] = pc[l] \/ pc[l] = "receive"
      BY <1>t, <2>2 DEF Types, ThreadTypes
    <3>3. target'[n] = target[n]
      BY <2>1, <2>4, <2>6
    <3> QED
      BY <1>h, <2>3, <3>1, <3>2, <3>3 DEF LeavesCalm
  <2> QED
    BY <2>5, <2>6
<1>5. ASSUME NEW s \in Controllers, Ignore(s)
      PROVE  LeavesCalm(l, n, v)
  <2>1. Take(s, Len(sub_msgq[s])) /\ UNCHANGED <<pc, target>>
    BY <1>5 DEF Ignore, charger
  <2>2. Agreeing(n, v)'
    BY <1>d, <1>h, <1>t, <2>1, AgreeingTaken
  <2>3. CASE s = n
    <3>1. ~Importable(n)
      BY <1>5, <2>3 DEF Ignore, Importable
    <3> QED
      BY <1>h, <2>1, <2>2, <3>1 DEF LeavesCalm
  <2>4. CASE s # n
    <3>1. Importable(n) => Importable(n)'
      BY <1>d, <1>t, <2>1, <2>4, WaitingTaken
    <3> QED
      BY <1>h, <2>1, <2>2, <3>1 DEF LeavesCalm
  <2> QED
    BY <2>3, <2>4
<1>6. ASSUME NEW s \in Controllers, Stamp(s)
      PROVE  LeavesCalm(l, n, v)
  <2>1. /\ pc[s] = "stamp" /\ pc' = [pc EXCEPT ![s] = "receive"] /\ sub_msgq' = sub_msgq
        /\ UNCHANGED target
    BY <1>6 DEF Stamp, Goto
  <2>2. pc'[l] = pc[l] \/ pc[l] = "stamp"
    BY <1>t, <2>1 DEF Types, ThreadTypes
  <2> QED
    BY <1>0, <2>1, <2>2
<1>7. ASSUME NEW s \in Controllers, Round(s)
      PROVE  LeavesCalm(l, n, v)
  <2>1. UNCHANGED <<pc, sub_msgq>>
    BY <1>7 DEF Round, thread
  <2>2. target'[n] = target[n]
    <3>1. CASE Follow(s) \/ Resume(s)
      BY <3>1 DEF Follow, Resume
    <3>2. CASE Charge(s)
      <4>1. s # n
        BY <1>s, <3>2 DEF Charge
      <4> QED
        BY <1>t, <3>2, <4>1 DEF Charge, Types, ChargerTypes
    <3> QED
      BY <1>7, <3>1, <3>2 DEF Round
  <2> QED
    BY <1>0, <2>1, <2>2
<1>8. ASSUME NEW s \in Controllers, Fail(s) \/ Restart(s) \/ Command(s) \/ SendFails(s)
      PROVE  LeavesCalm(l, n, v)
  <2>1. lasting'[s] = 0
    BY <1>8, <1>t DEF Fail, Restart, Command, SendFails, Goto, Event, Types, TimeTypes
  <2> QED
    BY <2>1
<1>9. CASE UNCHANGED vars
  BY <1>0, <1>9 DEF vars, thread, charger
<1> QED
  BY <1>1, <1>2, <1>3, <1>4, <1>5, <1>6, <1>7, <1>8, <1>9 DEF Quick, Pubsub

LEMMA SpreadingInit == Init => Spreading
<1> SUFFICES ASSUME Init, NEW l \in Controllers, NEW n \in Controllers, Below(l, n)
             PROVE  Spread(l, n, period, Delay(n))
  BY DEF Spreading
<1>1. steady[l] = 0 /\ Periods \in Nat /\ Types
  BY CanAssumption, TypesInit DEF Init
<1>2. Delay(n) \in Nat /\ Delay(n) > 2
  BY <1>1, CanAssumption, RankGrows
<1>3. ~Calm(l, Delay(n) - 2) /\ ~Calm(l, Delay(n) - 1) /\ ~Calm(l, Delay(n))
  BY <1>1, <1>2 DEF Calm
<1> QED
  BY <1>3 DEF Spread

LEMMA SpreadingQuick ==
  ASSUME RoomForAll, Passes, ShareInv, Types', Quick
  PROVE  Spreading'
<1>t. Types /\ Spreading
  BY DEF ShareInv, FollowInv, Basic
<1> PICK p \in Nat : p = period
  BY <1>t DEF Types, TimeTypes
<1>1. period' = p /\ can_node_addr' = can_node_addr
  BY <1>t, BusEvents
<1> SUFFICES ASSUME NEW l \in Controllers, NEW n \in Controllers, up'[n], Below(l, n)'
             PROVE  Spread(l, n, period, Delay(n))'
  BY DEF Spreading
<1>2. Below(l, n)
  BY <1>1 DEF Below
<1> PICK d \in Nat : d = Delay(n) /\ d - 2 > 0
  BY <1>t, <1>2, CanAssumption, RankGrows
<1>3. Delay(n)' = d
  BY <1>1 DEF Delay, Rank, Below
<1>4. Spread(l, n, period, Delay(n))' <=> Spread(l, n, p, d)'
  BY <1>1, <1>3 DEF Spread
<1>5. ASSUME NEW k \in Nat, k > 0, k >= d - 2, Calm(l, k)'
      PROVE  /\ Calm(l, k) /\ Spread(l, n, p, d)
             /\ \E v : v = target[l] /\ v = target'[l] /\ LeavesCalm(l, n, v)
  <2>1. /\ Calm(l, k) /\ target'[l] = target[l] /\ pub_can_enable' = pub_can_enable /\ up' = up
        /\ \A m \in Controllers : lasting'[m] # 0
    BY <1>5, <1>t, CalmBefore
  <2>2. Calm(l, d - 2)
    BY <1>5, <1>t, <2>1, CalmWeaker
  <2>3. Spread(l, n, p, d)
    BY <1>2, <1>5, <1>t, <2>1 DEF Spreading
  <2>4. PICK v : v = target[l]
    OBVIOUS
  <2>5. LeavesCalm(l, n, v)
    BY <1>2, <1>5, <2>1, <2>2, <2>4, QuickLeavesCalm
  <2> QED
    BY <2>1, <2>3, <2>4, <2>5
<1>6. ASSUME NEW v, v = target'[l], LeavesCalm(l, n, v)
      PROVE  Agreeing(n, target[l])'
  BY <1>6 DEF LeavesCalm, Agreeing
<1>7. ASSUME Calm(l, d - 2)'
      PROVE  /\ Agreeing(n, target[l])'
             /\ p # 0 /\ pc'[l] \in {"receive", "stamp"} => Importable(n)' \/ target'[n] = target'[l]
  BY <1>5, <1>6, <1>7 DEF LeavesCalm
<1>8. Calm(l, d - 1)' /\ p # 1 => target'[n] = target'[l]
  BY <1>5 DEF Spread, LeavesCalm
<1>9. Calm(l, d)' => target'[n] = target'[l]
  BY <1>5 DEF Spread, LeavesCalm
<1> QED
  BY <1>4, <1>7, <1>8, <1>9 DEF Spread

\* What the leader has sent has been read when the period ends.
LEMMA SpreadingTime ==
  ASSUME Periods >= 2, ShareInv, Types', Period
  PROVE  Spreading'
<1>t. Types /\ Spreading
  BY DEF ShareInv, FollowInv, Basic
<1> PICK p \in Nat : p = period
  BY <1>t DEF Types, TimeTypes
<1> PICK q \in Nat : q = period'
  BY DEF Types, TimeTypes
<1>1. UNCHANGED bus /\ can_node_addr' = can_node_addr /\ up' = up /\ target' = target
  BY <1>t, TimeStep DEF bus, Period
<1> SUFFICES ASSUME NEW l \in Controllers, NEW n \in Controllers, up'[n], Below(l, n)'
             PROVE  Spread(l, n, period, Delay(n))'
  BY DEF Spreading
<1>2. Below(l, n) /\ up[n]
  BY <1>1 DEF Below
<1> PICK d \in Nat : d = Delay(n) /\ d - 2 > 0
  BY <1>t, <1>2, CanAssumption, RankGrows
<1>3. Delay(n)' = d
  BY <1>1 DEF Delay, Rank, Below
<1>4. Spread(l, n, period, Delay(n))' <=> Spread(l, n, q, d)'
  BY <1>3 DEF Spread
<1>5. Spread(l, n, p, d)
  BY <1>2, <1>t DEF Spreading
<1>6. q = 1 <=> p = 0
  <2>1. Periods \in Nat /\ p \in 0 .. Periods - 1
    BY <1>t, CanAssumption DEF Types, TimeTypes
  <2>2. q = IF p = Periods - 1 THEN 0 ELSE p + 1
    BY <1>t, TimeStep
  <2> QED
    BY <2>1, <2>2
<1>7. (Calm(l, d - 1)' => Calm(l, d - 2)) /\ (Calm(l, d)' => Calm(l, d - 1))
  <2>1. \A j, k \in Nat : j = k + 1 /\ Calm(l, j)' => Calm(l, k)
    BY <1>t, CalmBefore
  <2> QED
    BY <2>1
<1>8. sub_msgq[n] = <<>> /\ ~Importable(n) /\ sub_msgq'[n] = <<>> /\ pc'[l] = "publish"
  BY <1>2 DEF Period, Importable
<1>9. Agreeing(n, target[l])'
  BY <1>8 DEF Agreeing
<1>10. ASSUME Calm(l, d - 2), p # 0
       PROVE  target[n] = target[l]
  <2>1. pc[l] = "receive"
    BY <1>10 DEF Calm, Leader, Publishes, Period
  <2> QED
    BY <1>10, <1>5, <1>8, <2>1 DEF Spread
<1>11. Calm(l, d - 1)' /\ q # 1 => target'[n] = target'[l]
  BY <1>1, <1>6, <1>7, <1>10
<1>12. Calm(l, d)' => target'[n] = target'[l]
  <2>1. CASE p # 1
    BY <1>1, <1>5, <1>7, <2>1 DEF Spread
  <2>2. CASE p = 1
    <3>1. Calm(l, d)' => Calm(l, d - 2)
      BY <1>7, <1>t, CalmWeaker
    <3> QED
      BY <1>1, <1>10, <2>2, <3>1
  <2> QED
    BY <2>1, <2>2
<1> QED
  BY <1>4, <1>8, <1>9, <1>11, <1>12 DEF Spread

LEMMA ShareAlways == GetsThrough => (Spec => []ShareInv)
<1>1. Init => ShareInv
  BY BasicInit, HearingInit, SpreadingInit DEF ShareInv, FollowInv
<1>2. ASSUME GetsThrough, ShareInv, [Next]_vars
      PROVE  ShareInv'
  <2>1. FollowInv' /\ Types'
    BY <1>2, FollowStep, TypesStep DEF ShareInv, FollowInv, Basic
  <2> QED
    BY <1>2, <2>1, StepKinds, SpreadingQuick, SpreadingTime DEF ShareInv, GetsThrough
<1>3. GetsThrough => (ShareInv /\ [Next]_vars => ShareInv')
  BY <1>2
<1>4. GetsThrough => GetsThrough'
  BY DEF GetsThrough, RoomForAll, Passes
<1> QED
  BY <1>1, <1>3, <1>4, PTL DEF Spec

(***************************************************************************)
(* All followers end up with the leader's current, for any number of       *)
(* controllers: two periods for every address that may be heard between,   *)
(* after the second in which silence is noticed.  Frames of controllers    *)
(* that the leader outranks, sent before they had its current themselves,  *)
(* do no harm for longer (the comparison of addresses and the import in    *)
(* can_pubsub_thread()).                                                   *)
(***************************************************************************)
THEOREM CanSameCurrent ==
  GetsThrough /\ Settled >= Periods + 2 * Cardinality(Controllers) - 1 => (Spec => []SameCurrent)
<1> DEFINE Long == Settled >= Periods + 2 * Cardinality(Controllers) - 1
<1>1. ASSUME Long, ShareInv
      PROVE  SameCurrent
  <2> SUFFICES ASSUME NEW l \in Controllers, NEW n \in Controllers,
                      Leader(l), steady[l] >= Settled,
                      \A m \in Controllers : lasting[m] >= Settled, up[n], Below(l, n)
               PROVE  target[n] = target[l]
    BY DEF SameCurrent
  <2>1. Types /\ Spread(l, n, period, Delay(n))
    BY <1>1 DEF ShareInv, FollowInv, Basic, Spreading
  <2>2. Calm(l, Settled)
    BY DEF Calm
  <2>3. Delay(n) \in Nat /\ Delay(n) <= Settled
    <3>1. /\ Delay(n) \in Nat /\ Delay(n) <= Periods + 2 * Cardinality(Controllers) - 1
      BY <2>1, RankGrows
    <3>2. Cardinality(Controllers) \in Nat /\ Periods \in Nat /\ Settled \in Nat
      BY CanAssumption, FS_CardinalityType
    <3> QED
      BY <1>1, <3>1, <3>2
  <2>4. Calm(l, Delay(n))
    BY <2>1, <2>2, <2>3, CanAssumption, CalmWeaker
  <2> QED
    BY <2>1, <2>4 DEF Spread
<1>2. Long => (ShareInv => SameCurrent)
  BY <1>1
<1>3. Long => Long'
  OBVIOUS
<1> QED
  BY <1>2, <1>3, ShareAlways, PTL

-------------------------------------------------------------------------------
\* No message of a controller has been imported since the bus was switched on.
Deaf == \A n \in Controllers : ~following[n] /\ silence[n] = 2 /\ pc[n] # "stamp"

LEMMA DeafStep ==
  ASSUME ~Passes, Types, Deaf, [Next]_vars
  PROVE  Deaf'
<1> USE DEF Deaf
<1>1. ASSUME NEW s \in Controllers, NEW at, Goto(s, at), at # "stamp", UNCHANGED charger
      PROVE  Deaf'
  BY <1>1 DEF Goto, charger, Types, ThreadTypes
<1>2. ASSUME NEW s \in Controllers, PublishReports(s) \/ PublishControl(s) \/ PublishNothing(s)
      PROVE  Deaf'
  BY <1>1, <1>2 DEF PublishReports, PublishControl, PublishNothing
<1>3. ASSUME NEW s \in Controllers, NEW frame
      PROVE  ~Imported(frame, s)
  BY CanAssumption DEF Imported, Passes
<1>4. ASSUME NEW s \in Controllers, Receive(s)
      PROVE  FALSE
  BY <1>3, <1>4 DEF Receive
<1>5. ASSUME NEW s \in Controllers, Ignore(s)
      PROVE  Deaf'
  BY <1>5 DEF Ignore, charger
<1>6. ASSUME NEW s \in Controllers, Stamp(s)
      PROVE  FALSE
  BY <1>6 DEF Stamp
<1>7. ASSUME NEW s \in Controllers, Round(s)
      PROVE  Deaf'
  <2>1. UNCHANGED <<silence, thread>> /\ (Follow(s) \/ Resume(s) \/ Charge(s))
    BY <1>7 DEF Round
  <2>2. ~Follow(s) /\ ~Resume(s)
    BY DEF Follow, Resume
  <2>3. following' = following
    BY <2>1, <2>2 DEF Charge
  <2> QED
    BY <2>1, <2>3 DEF thread
<1>8. ASSUME NEW s \in Controllers, Fail(s)
      PROVE  Deaf'
  BY <1>8 DEF Fail, Types, ThreadTypes, ChargerTypes
<1>9. ASSUME NEW s \in Controllers, Restart(s)
      PROVE  Deaf'
  BY <1>9 DEF Restart, Types, ThreadTypes
<1>10. ASSUME NEW s \in Controllers, Command(s)
       PROVE  Deaf'
  BY <1>10 DEF Command, thread, charger
<1>11. ASSUME NEW s \in Controllers, SendFails(s)
       PROVE  Deaf'
  BY <1>1, <1>11 DEF SendFails
<1>12. CASE Period
  <2>1. \A n \in Controllers : silence'[n] = 2 /\ pc'[n] = "publish"
    BY <1>12 DEF Period, Capped
  <2> QED
    BY <1>12, <2>1 DEF Period
<1>13. CASE UNCHANGED vars
  BY <1>13 DEF vars, thread, charger
<1> QED
  BY <1>2, <1>4, <1>5, <1>6, <1>7, <1>8, <1>9, <1>10, <1>11, <1>12, <1>13 DEF Next, Pubsub

(***************************************************************************)
(* With a control object of an id up to 0x8000, as the one of the          *)
(* repository's table is, none of any number of controllers ever follows   *)
(* another (the filter of can_pubsub_thread()).                            *)
(***************************************************************************)
THEOREM NobodyFollows == ~Passes => (Spec => [](\A n \in Controllers : ~following[n]))
<1>1. Init => Deaf
  BY DEF Init, Deaf
<1>2. ~Passes => (Types /\ Deaf /\ [Next]_vars => Deaf')
  BY DeafStep
<1>3. Basic => Types
  BY DEF Basic
<1>4. Deaf => \A n \in Controllers : ~following[n]
  BY DEF Deaf
<1>5. ~Passes => ~Passes'
  BY DEF Passes
<1> QED
  BY <1>1, <1>2, <1>3, <1>4, <1>5, BasicAlways, PTL DEF Spec
===============================================================================
