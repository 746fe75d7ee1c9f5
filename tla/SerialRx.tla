------------------------------- MODULE SerialRx -------------------------------
(***************************************************************************)
(* Reception of commands over the serial interface (app/src/ext/serial.cpp)*)
(* by two actors: the receive interrupt, serial_cb(), which cannot wait,   *)
(* and serial_thread(), which owns the buffer while it processes a line.   *)
(*                                                                         *)
(* The peer may send any character at any time; `typed' is the line it     *)
(* means.  A character is handled as a whole: the interrupt does not nest, *)
(* and the thread does not run during one.  rx_buf is what lies below      *)
(* rx_buf_pos; the terminator written at the end of a line is part of      *)
(* Text().  The zero byte, which would end a text early, is not among the  *)
(* characters.  The interpreter of commands is the ThingSet library's, and *)
(* the values the same thread publishes every second touch nothing here.   *)
(***************************************************************************)
EXTENDS LineText

CONSTANT MaxTyped     \* bound on the length of a line

ASSUME SerialRxAssumption == MaxTyped \in Nat

VARIABLES
  rx_buf,
  rx_buf_mutex,       \* 1: available
  command_flag,       \* 1: given
  discard_buffer,
  pc                  \* of serial_thread()

VARIABLES
  typed,              \* the line being typed
  overlong            \* it has not always fitted into the buffer

(***************************************************************************)
(* History, read by the properties only.                                   *)
(***************************************************************************)
VARIABLES
  met,                \* a character of this line has met a buffer in use
  last                \* what became of the line before this one

semaphores == <<rx_buf_mutex, command_flag>>
peer == <<typed, overlong, met, last>>
vars == <<rx_buf, semaphores, discard_buffer, pc, peer>>

Init ==
  /\ rx_buf = <<>>
  /\ rx_buf_mutex = 1
  /\ command_flag = 0
  /\ discard_buffer = FALSE
  /\ pc = "wait"
  /\ typed = <<>>
  /\ overlong = FALSE
  /\ met = FALSE
  /\ last = "none"

-------------------------------------------------------------------------------
\* The peer means a character; a line end begins the next line.
Means(c) ==
  IF c = LF THEN typed' = <<>> /\ overlong' = FALSE
  ELSE /\ Len(typed) < MaxTyped \/ (c = BS /\ typed # <<>>)
       /\ typed' = Edit(typed, c)
       /\ overlong' = (overlong \/ Len(typed') >= Size)

(***************************************************************************)
(* serial_cb() for one character.                                          *)
(***************************************************************************)
\* (The loss is not remembered.)
DropSilently(c) ==
  /\ rx_buf_mutex = 0
  /\ Means(c)
  /\ met' = (c # LF)
  /\ last' = IF c = LF THEN "dropped" ELSE last
  /\ UNCHANGED <<rx_buf, semaphores, discard_buffer, pc>>

Drop(c) ==
  /\ rx_buf_mutex = 0
  /\ discard_buffer' = TRUE
  /\ Means(c)
  /\ met' = (c # LF)
  /\ last' = IF c = LF THEN "dropped" ELSE last
  /\ UNCHANGED <<rx_buf, semaphores, pc>>

\* (The last place, that of the terminator, is filled.)
StoreToTheEnd(c) ==
  /\ rx_buf_mutex = 1
  /\ c # LF
  /\ rx_buf' = IF (c = BS /\ rx_buf # <<>>) \/ Len(rx_buf) < Size THEN Edit(rx_buf, c) ELSE rx_buf
  /\ Means(c)
  /\ UNCHANGED <<semaphores, discard_buffer, pc, met, last>>

Store(c) ==
  /\ rx_buf_mutex = 1
  /\ c # LF
  /\ rx_buf' = IF (c = BS /\ rx_buf # <<>>) \/ Len(rx_buf) < Size - 1 THEN Edit(rx_buf, c)
               ELSE rx_buf
  /\ Means(c)
  /\ UNCHANGED <<semaphores, discard_buffer, pc, met, last>>

\* (The flag stays set.)
DiscardAndRemember ==
  /\ rx_buf_mutex = 1 /\ discard_buffer
  /\ rx_buf' = <<>>
  /\ Means(LF)
  /\ met' = FALSE
  /\ last' = "discarded"
  /\ UNCHANGED <<semaphores, discard_buffer, pc>>

\* (The semaphore is not given back.)
DiscardAndKeep ==
  /\ rx_buf_mutex = 1 /\ discard_buffer
  /\ rx_buf' = <<>>
  /\ discard_buffer' = FALSE
  /\ rx_buf_mutex' = 0
  /\ Means(LF)
  /\ met' = FALSE
  /\ last' = "discarded"
  /\ UNCHANGED <<command_flag, pc>>

\* The end of a line some of which is missing.
DiscardLine ==
  /\ rx_buf_mutex = 1 /\ discard_buffer
  /\ rx_buf' = <<>>
  /\ discard_buffer' = FALSE
  /\ Means(LF)
  /\ met' = FALSE
  /\ last' = "discarded"
  /\ UNCHANGED <<semaphores, pc>>

\* The end of a line to be processed; the buffer stays taken.
SignalCommand ==
  /\ rx_buf_mutex = 1 /\ ~discard_buffer
  /\ rx_buf_mutex' = 0
  /\ command_flag' = 1
  /\ Means(LF)
  /\ met' = FALSE
  /\ last' = "handed"
  /\ UNCHANGED <<rx_buf, discard_buffer, pc>>

serial_cb ==
  \/ \E c \in Chars : Drop(c) \/ Store(c)
  \/ DiscardLine \/ SignalCommand

(***************************************************************************)
(* serial_thread(); serial_process_command() reads the buffer, sets        *)
(* rx_buf_pos back and gives the buffer away.                              *)
(***************************************************************************)
TakeCommand ==
  /\ pc = "wait" /\ command_flag = 1
  /\ command_flag' = 0
  /\ pc' = "process"
  /\ UNCHANGED <<rx_buf, rx_buf_mutex, discard_buffer, peer>>

\* An empty line (the terminator of \r\n, if there was one, counts) is not interpreted.
HasCommand == rx_buf # <<>>

\* The interpreter, if there is something for it, and its answer.
Process ==
  /\ pc = "process"
  /\ pc' = "reset"
  /\ UNCHANGED <<rx_buf, semaphores, discard_buffer, peer>>

ResetBuffer ==
  /\ pc = "reset"
  /\ rx_buf' = <<>>
  /\ pc' = "give"
  /\ UNCHANGED <<semaphores, discard_buffer, peer>>

GiveBuffer ==
  /\ pc = "give"
  /\ rx_buf_mutex' = 1
  /\ pc' = "wait"
  /\ UNCHANGED <<rx_buf, command_flag, discard_buffer, peer>>

serial_thread == TakeCommand \/ Process \/ ResetBuffer \/ GiveBuffer

Next == serial_cb \/ serial_thread

Spec == Init /\ [][Next]_vars

\* The thread has the lowest priority but runs: the others sleep most of the time.
FairSpec == Spec /\ WF_vars(serial_thread)

-------------------------------------------------------------------------------
(***************************************************************************)
(* The buffer always has room for the terminator, and it is taken exactly  *)
(* while the end of a line has been signalled or a line is dealt with.     *)
(***************************************************************************)
TypeOK ==
  /\ rx_buf \in Seq(Chars \ {LF}) /\ Len(rx_buf) < Size
  /\ typed \in Seq(Chars \ {LF}) /\ overlong \in BOOLEAN
  /\ discard_buffer \in BOOLEAN
  /\ met \in BOOLEAN
  /\ last \in {"none", "handed", "discarded", "dropped"}
  /\ rx_buf_mutex \in {0, 1} /\ command_flag \in {0, 1}
  /\ pc \in {"wait", "process", "reset", "give"}
  /\ rx_buf_mutex = 0 <=> (command_flag = 1 \/ pc # "wait")
  /\ command_flag = 1 => pc = "wait"

(***************************************************************************)
(* The interpreter is given lines as they were typed or not at all, and    *)
(* what it reads does not change while it reads, however the characters of *)
(* the following lines fall between its steps (serial_cb() against         *)
(* serial_process_command()).                                              *)
(***************************************************************************)
Given == IF rx_buf_mutex = 0 /\ pc # "give" /\ HasCommand THEN Line(Text(rx_buf)) ELSE NoLine
Channel == INSTANCE LineChannel WITH inbox <- Given
LinesAsTyped == Channel!Spec

(***************************************************************************)
(* A line is given up only for a reason: one of its own characters, or the *)
(* end of the line before it, came while the buffer was in use             *)
(* (discard_buffer in serial_cb()).  So of two lines in a row that find    *)
(* the buffer free, the second is processed.                               *)
(***************************************************************************)
LostForAReason == discard_buffer => met \/ last = "dropped"

(***************************************************************************)
(* Whoever has the buffer gives it back, whatever the peer sends meanwhile *)
(* (the take and give of rx_buf_mutex along every path).                   *)
(***************************************************************************)
BufferReleased == rx_buf_mutex = 0 ~> rx_buf_mutex = 1
===============================================================================
