------------------------------- MODULE LineText -------------------------------
(***************************************************************************)
(* Lines of the serial interface and how they are edited                   *)
(* (serial_cb() in app/src/ext/serial.cpp).                                *)
(***************************************************************************)
EXTENDS Integers, Sequences

CONSTANTS
  Chars,        \* what can be typed, among it the three that have a meaning
  CR, LF, BS,
  Size          \* CONFIG_THINGSET_SERIAL_RX_BUF_SIZE

ASSUME LineTextAssumption ==
  /\ {CR, LF, BS} \subseteq Chars
  /\ CR # BS /\ CR # LF /\ BS # LF
  /\ Size \in Nat \ {0}

Front(s) == SubSeq(s, 1, Len(s) - 1)

\* A character is appended; a backspace takes one away if there is one.
Edit(text, c) == IF c = BS /\ text # <<>> THEN Front(text) ELSE Append(text, c)

\* The text of a line is what precedes its end, \r\n or \n.
Text(line) == IF line # <<>> /\ line[Len(line)] = CR THEN Front(line) ELSE line

\* A line that the interpreter has been given.
Line(text) == [line |-> text, there |-> TRUE]
NoLine == [line |-> <<>>, there |-> FALSE]
===============================================================================
