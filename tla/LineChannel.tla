------------------------------ MODULE LineChannel ------------------------------
(***************************************************************************)
(* What the serial interface promises its peer: a line reaches the command *)
(* interpreter as it was typed, or not at all, and stays what it is until  *)
(* it has been dealt with.  Of a line that did not fit into the buffer     *)
(* nothing is promised but that the text stays within the buffer.          *)
(***************************************************************************)
EXTENDS LineText

VARIABLES
  typed,        \* the line being typed
  overlong,     \* it has not always fitted into the buffer
  inbox         \* the line handed to the interpreter, or NoLine

Init ==
  /\ typed = <<>>
  /\ overlong = FALSE
  /\ inbox = NoLine

Type(c) ==
  /\ typed' = Edit(typed, c)
  /\ overlong' = (overlong \/ Len(typed') >= Size)
  /\ UNCHANGED inbox

NextLine ==
  /\ typed' = <<>>
  /\ overlong' = FALSE

Lose == NextLine /\ UNCHANGED inbox

HandOver ==
  /\ inbox = NoLine
  /\ NextLine
  /\ inbox'.there
  /\ IF overlong THEN Len(inbox'.line) < Size ELSE inbox' = Line(Text(typed))

DealtWith ==
  /\ inbox.there
  /\ inbox' = NoLine
  /\ UNCHANGED <<typed, overlong>>

Next == (\E c \in Chars \ {LF} : Type(c)) \/ Lose \/ HandOver \/ DealtWith

Spec == Init /\ [][Next]_<<typed, overlong, inbox>>
===============================================================================
