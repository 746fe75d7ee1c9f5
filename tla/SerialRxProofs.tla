----------------------------- MODULE SerialRxProofs -----------------------------
(***************************************************************************)
(* Proofs about SerialRx, for every buffer size and every line length: it  *)
(* implements LineChannel, and gives up a line for a reason only.          *)
(***************************************************************************)
EXTENDS SerialRx, SequenceTheorems, TLAPS

Content == Chars \ {LF}

LEMMA FrontType ==
  ASSUME NEW s \in Seq(Content), s # <<>>
  PROVE  Front(s) \in Seq(Content) /\ Len(Front(s)) = Len(s) - 1
<1>1. Len(s) \in Nat \ {0} /\ \A i \in 1 .. Len(s) : s[i] \in Content
  BY EmptySeq, ElementOfSeq
<1>2. Len(s) - 1 \in Int /\ \A i \in 1 .. Len(s) - 1 : s[i] \in Content
  BY <1>1
<1>3. /\ SubSeq(s, 1, Len(s) - 1) \in Seq(Content)
      /\ Len(SubSeq(s, 1, Len(s) - 1)) = IF 1 <= Len(s) - 1 THEN Len(s) - 1 - 1 + 1 ELSE 0
  BY <1>2, SubSeqProperties
<1>4. Len(SubSeq(s, 1, Len(s) - 1)) = Len(s) - 1
  <2> DEFINE n == Len(s)
  <2>1. n \in Nat \ {0}
    BY <1>1
  <2>2. (IF 1 <= n - 1 THEN n - 1 - 1 + 1 ELSE 0) = n - 1
    <3> HIDE DEF n
    <3> QED
      BY <2>1
  <2> QED
    BY <1>3, <2>2
<1> QED
  BY <1>3, <1>4 DEF Front

LEMMA EditType ==
  ASSUME NEW s \in Seq(Content), NEW c \in Content
  PROVE  /\ Edit(s, c) \in Seq(Content)
         /\ Len(Edit(s, c)) \in Nat /\ Len(s) \in Nat /\ Len(Edit(s, c)) <= Len(s) + 1
         /\ c = BS /\ s # <<>> => Len(Edit(s, c)) < Len(s)
<1>1. CASE c = BS /\ s # <<>>
  BY <1>1, FrontType, LenProperties DEF Edit
<1>2. CASE ~(c = BS /\ s # <<>>)
  BY <1>2, AppendProperties DEF Edit
<1> QED
  BY <1>1, <1>2

LEMMA TextType ==
  ASSUME NEW s \in Seq(Content)
  PROVE  Text(s) \in Seq(Content) /\ Len(Text(s)) <= Len(s)
<1>1. CASE s # <<>> /\ s[Len(s)] = CR
  BY <1>1, FrontType, LenProperties DEF Text
<1>2. CASE ~(s # <<>> /\ s[Len(s)] = CR)
  BY <1>2, LenProperties DEF Text
<1> QED
  BY <1>1, <1>2

-------------------------------------------------------------------------------
\* The two halves of the type invariant.
Lines ==
  /\ rx_buf \in Seq(Content) /\ Len(rx_buf) < Size
  /\ typed \in Seq(Content)
  /\ overlong \/ Len(typed) < Size

Control ==
  /\ overlong \in BOOLEAN /\ discard_buffer \in BOOLEAN /\ met \in BOOLEAN
  /\ last \in {"none", "handed", "discarded", "dropped"}
  /\ rx_buf_mutex \in {0, 1} /\ command_flag \in {0, 1}
  /\ pc \in {"wait", "process", "reset", "give"}
  /\ rx_buf_mutex = 0 <=> (command_flag = 1 \/ pc # "wait")
  /\ command_flag = 1 => pc = "wait"

LEMMA TypeHalves == Lines /\ Control => TypeOK
  BY DEF Lines, Control, TypeOK, Content

(***************************************************************************)
(* What the buffer has to do with the line being typed: as long as nothing *)
(* is missing and it has fitted, they are the same; while the buffer is in *)
(* use and nothing is missing, nothing has been typed.                     *)
(***************************************************************************)
Agreement ==
  /\ rx_buf_mutex = 1 /\ ~discard_buffer /\ ~overlong => rx_buf = typed
  /\ rx_buf_mutex = 0 /\ ~discard_buffer => typed = <<>> /\ ~overlong
  /\ pc = "give" => rx_buf = <<>>
  /\ LostForAReason

BufferInv == Lines /\ Control /\ Agreement

LEMMA EmptyLine == <<>> \in Seq(Content) /\ Len(<<>>) = 0 /\ 0 < Size
  BY EmptySeq, LineTextAssumption

LEMMA BufferInit == Init => BufferInv
  BY EmptyLine DEF Init, BufferInv, Lines, Control, Agreement, LostForAReason

\* What the peer means leaves its line well-formed.
LEMMA MeansType ==
  ASSUME BufferInv, NEW c \in Chars, Means(c)
  PROVE  /\ typed' \in Seq(Content) /\ overlong' \in BOOLEAN
         /\ overlong' \/ Len(typed') < Size
         /\ c = LF => typed' = <<>> /\ overlong' = FALSE
         /\ c # LF => typed' = Edit(typed, c) /\ overlong' = (overlong \/ Len(typed') >= Size)
<1>1. CASE c = LF
  BY <1>1, EmptyLine DEF Means
<1>2. CASE c # LF
  <2>1. typed' = Edit(typed, c) /\ overlong' = (overlong \/ Len(typed') >= Size)
    BY <1>2 DEF Means
  <2>2. typed' \in Seq(Content) /\ Len(typed') \in Nat
    BY <1>2, <2>1, EditType DEF BufferInv, Lines, Content
  <2>3. overlong' \/ Len(typed') < Size
    <3>1. Len(typed') >= Size \/ Len(typed') < Size
      BY <2>2, LineTextAssumption
    <3> QED
      BY <2>1, <3>1, Zenon
  <2> QED
    BY <1>2, <2>1, <2>2, <2>3 DEF BufferInv, Control
<1> QED
  BY <1>1, <1>2

LEMMA BufferStep == BufferInv /\ [Next]_vars => BufferInv'
<1> SUFFICES ASSUME BufferInv, [Next]_vars
             PROVE  BufferInv'
  OBVIOUS
<1>1. ASSUME NEW c \in Chars, Drop(c)
      PROVE  BufferInv'
  <2>1. Means(c) /\ rx_buf' = rx_buf
    BY <1>1 DEF Drop
  <2>2. Lines'
    BY <2>1, MeansType DEF BufferInv, Lines
  <2>3. Control' /\ Agreement'
    BY <1>1, <2>1, MeansType
       DEF Drop, semaphores, BufferInv, Control, Agreement, LostForAReason
  <2> QED
    BY <2>2, <2>3 DEF BufferInv
<1>2. ASSUME NEW c \in Chars, Store(c)
      PROVE  BufferInv'
  <2>1. Means(c) /\ c \in Content /\ rx_buf \in Seq(Content) /\ Len(rx_buf) < Size
    BY <1>2 DEF Store, Content, BufferInv, Lines
  <2>2. rx_buf' \in Seq(Content) /\ Len(rx_buf') < Size
    <3>1. CASE rx_buf' = rx_buf
      BY <2>1, <3>1
    <3>2. CASE c = BS /\ rx_buf # <<>> /\ rx_buf' = Edit(rx_buf, c)
      BY <2>1, <3>2, EditType, LineTextAssumption
    <3>3. CASE Len(rx_buf) < Size - 1 /\ rx_buf' = Edit(rx_buf, c)
      BY <2>1, <3>3, EditType, LineTextAssumption
    <3> QED
      BY <1>2, <3>1, <3>2, <3>3 DEF Store
  <2>3. ~discard_buffer /\ ~overlong' => rx_buf' = typed'
    <3> SUFFICES ASSUME ~discard_buffer, ~overlong'
                 PROVE  rx_buf' = typed'
      OBVIOUS
    <3>1. ~overlong /\ typed' = Edit(typed, c) /\ Len(typed') < Size
      BY <1>2, <2>1, MeansType DEF Store
    <3>2. rx_buf = typed
      BY <1>2, <3>1 DEF Store, BufferInv, Agreement
    <3>3. CASE c = BS /\ rx_buf # <<>>
      BY <1>2, <3>1, <3>2, <3>3 DEF Store
    <3>4. CASE ~(c = BS /\ rx_buf # <<>>)
      <4>1. Len(typed') = Len(rx_buf) + 1 /\ Len(rx_buf) \in Nat
        BY <2>1, <3>1, <3>2, <3>4, AppendProperties, LenProperties DEF Edit
      <4>2. Len(rx_buf) < Size - 1
        BY <3>1, <4>1, LineTextAssumption
      <4> QED
        BY <1>2, <3>1, <3>2, <4>2 DEF Store
    <3> QED
      BY <3>3, <3>4
  <2>4. Lines'
    BY <2>1, <2>2, MeansType DEF Lines
  <2>5. Control'
    BY <1>2, <2>1, MeansType DEF Store, semaphores, BufferInv, Control
  <2>6. Agreement'
    <3>1. rx_buf_mutex' = 1 /\ pc' # "give"
      BY <1>2 DEF Store, semaphores, BufferInv, Control
    <3>2. LostForAReason'
      BY <1>2 DEF Store, BufferInv, Agreement, LostForAReason
    <3>3. discard_buffer' = discard_buffer
      BY <1>2 DEF Store
    <3> QED
      BY <2>3, <3>1, <3>2, <3>3 DEF Agreement
  <2> QED
    BY <2>4, <2>5, <2>6 DEF BufferInv
<1>3. CASE DiscardLine \/ SignalCommand
  <2>1. typed' = <<>> /\ overlong' = FALSE /\ rx_buf' \in {rx_buf, <<>>}
    BY <1>3 DEF DiscardLine, SignalCommand, Means
  <2>2. Lines'
    BY <2>1, EmptyLine DEF BufferInv, Lines
  <2>3. pc = "wait"
    BY <1>3 DEF DiscardLine, SignalCommand, BufferInv, Control
  <2>4. Control'
    BY <1>3, <2>1, <2>3 DEF DiscardLine, SignalCommand, semaphores, BufferInv, Control
  <2>5. Agreement'
    BY <1>3, <2>1, <2>3
       DEF DiscardLine, SignalCommand, semaphores, Agreement, LostForAReason
  <2> QED
    BY <2>2, <2>4, <2>5 DEF BufferInv
<1>4. CASE serial_thread
  <2>1. rx_buf' \in {rx_buf, <<>>} /\ UNCHANGED <<peer, discard_buffer>>
    BY <1>4 DEF serial_thread, TakeCommand, Process, ResetBuffer, GiveBuffer
  <2>2. Lines'
    BY <2>1, EmptyLine DEF BufferInv, Lines, peer
  <2>3. Control' /\ Agreement'
    BY <1>4, <2>1
       DEF serial_thread, TakeCommand, Process, ResetBuffer, GiveBuffer, semaphores, peer,
           BufferInv, Control, Agreement, LostForAReason
  <2> QED
    BY <2>2, <2>3 DEF BufferInv
<1>5. CASE UNCHANGED vars
  BY <1>5 DEF vars, semaphores, peer, BufferInv, Lines, Control, Agreement, LostForAReason
<1> QED
  BY <1>1, <1>2, <1>3, <1>4, <1>5 DEF Next, serial_cb

LEMMA BufferAlways == Spec => []BufferInv
  BY BufferInit, BufferStep, PTL DEF Spec

(***************************************************************************)
(* Nothing is written behind the end of the buffer, and buffer, semaphores *)
(* and thread agree, for every size of the buffer (serial_cb(): the last   *)
(* place is reserved for the terminator).                                  *)
(***************************************************************************)
THEOREM BufferBounded == Spec => []TypeOK
<1>1. BufferInv => TypeOK
  BY TypeHalves DEF BufferInv
<1> QED
  BY <1>1, BufferAlways, PTL

(***************************************************************************)
(* A line is given up only if one of its characters or the end of the line *)
(* before it came while the buffer was in use (discard_buffer).            *)
(***************************************************************************)
THEOREM LossesExplained == Spec => []LostForAReason
<1>1. BufferInv => LostForAReason
  BY DEF BufferInv, Agreement
<1> QED
  BY <1>1, BufferAlways, PTL

-------------------------------------------------------------------------------
\* The channel's notions are the receiver's.
LEMMA SameText ==
  /\ Channel!NoLine = NoLine
  /\ \A s : Channel!Line(s) = Line(s) /\ Channel!Text(s) = Text(s)
  /\ \A s, c : Channel!Edit(s, c) = Edit(s, c)
  BY DEF Channel!NoLine, NoLine, Channel!Line, Line, Channel!Text, Text, Channel!Edit, Edit,
         Channel!Front, Front

\* A step of the receiver is one of the channel, or changes nothing there.
LEMMA ChannelStep ==
  ASSUME BufferInv, BufferInv', [Next]_vars
  PROVE  [Channel!Next]_<<typed, overlong, Given>>
<1> USE DEF Given, HasCommand, Line, NoLine
<1>1. ASSUME NEW c \in Chars, Drop(c)
      PROVE  Channel!Next
  <2>1. Means(c) /\ Given' = Given
    BY <1>1 DEF Drop, semaphores
  <2>2. CASE c = LF
    BY <2>1, <2>2, MeansType, SameText DEF Channel!Next, Channel!Lose, Channel!NextLine
  <2>3. CASE c # LF
    BY <2>1, <2>3, MeansType, SameText DEF Channel!Next, Channel!Type
  <2> QED
    BY <2>2, <2>3
<1>2. ASSUME NEW c \in Chars, Store(c)
      PROVE  Channel!Next
  <2>1. Means(c) /\ Given' = Given /\ c # LF
    BY <1>2 DEF Store, semaphores
  <2> QED
    BY <2>1, MeansType, SameText DEF Channel!Next, Channel!Type
<1>3. CASE DiscardLine
  BY <1>3, SameText DEF DiscardLine, semaphores, Means, Channel!Next, Channel!Lose, Channel!NextLine
<1>4. CASE SignalCommand /\ ~HasCommand
  <2>1. Given' = Given /\ typed' = <<>> /\ overlong' = FALSE
    BY <1>4 DEF SignalCommand, Means, BufferInv, Control
  <2> QED
    BY <2>1, SameText DEF Channel!Next, Channel!Lose, Channel!NextLine
<1>5. CASE SignalCommand /\ HasCommand
  <2>1. /\ Given = NoLine /\ Given' = Line(Text(rx_buf))
        /\ typed' = <<>> /\ overlong' = FALSE
    BY <1>5 DEF SignalCommand, Means, BufferInv, Control
  <2>2. overlong => Len(Given'.line) < Size
    <3>1. rx_buf \in Seq(Content) /\ Len(rx_buf) < Size
      BY DEF BufferInv, Lines
    <3>2. Len(Text(rx_buf)) \in Nat /\ Len(Text(rx_buf)) <= Len(rx_buf) /\ Len(rx_buf) \in Nat
      BY <3>1, TextType, LenProperties
    <3>3. Given'.line = Text(rx_buf)
      BY <2>1
    <3> QED
      BY <3>1, <3>2, <3>3, LineTextAssumption
  <2>3. ~overlong => Given' = Line(Text(typed))
    BY <1>5, <2>1 DEF SignalCommand, BufferInv, Agreement
  <2> QED
    BY <2>1, <2>2, <2>3, SameText DEF Channel!Next, Channel!HandOver, Channel!NextLine
<1>6. CASE TakeCommand \/ Process
  BY <1>6 DEF TakeCommand, Process, peer, semaphores, BufferInv, Control
<1>7. CASE ResetBuffer
  BY <1>7, SameText DEF ResetBuffer, peer, semaphores, BufferInv, Control, Channel!Next, Channel!DealtWith
<1>8. CASE GiveBuffer
  BY <1>8 DEF GiveBuffer, peer, BufferInv, Control
<1>9. CASE UNCHANGED vars
  BY <1>9 DEF vars, semaphores, peer
<1> QED
  BY <1>1, <1>2, <1>3, <1>4, <1>5, <1>6, <1>7, <1>8, <1>9 DEF Next, serial_cb, serial_thread

(***************************************************************************)
(* The receiver implements the channel, for every size of the buffer and   *)
(* every line: commands arrive as they were typed or not at all, whatever  *)
(* the peer sends between the steps of the thread (serial_cb() against     *)
(* serial_process_command()).                                              *)
(***************************************************************************)
THEOREM ReceiverIsChannel == Spec => LinesAsTyped
<1>1. Init => Channel!Init
  BY SameText DEF Init, Channel!Init, Given
<1>2. BufferInv /\ BufferInv' /\ [Next]_vars => [Channel!Next]_<<typed, overlong, Given>>
  BY ChannelStep
<1> QED
  BY <1>1, <1>2, BufferAlways, PTL DEF Spec, LinesAsTyped, Channel!Spec
===============================================================================
