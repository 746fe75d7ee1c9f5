---------------------------- MODULE SnapshotStore ----------------------------
(***************************************************************************)
(* What the persistent storage promises those who use it: what it gives    *)
(* back is what one of its writes has been given, as it was at the moment  *)
(* the write began, or nothing; it is written by one at a time, a write    *)
(* that reports no error has taken place, and one that does not get that   *)
(* far leaves what was there, its own snapshot or nothing.                 *)
(***************************************************************************)
VARIABLES
  source,       \* what there is to be stored; changes as it likes
  memory,       \* the snapshot that can be read, alone in a set, or nothing
  pending,      \* the snapshot being written, or nothing
  failed        \* the latest write, or read at a restart, has reported an error

Init ==
  /\ memory = {}
  /\ pending = {}
  /\ failed = FALSE

Begin ==
  /\ pending = {}
  /\ pending' = {source}
  /\ UNCHANGED <<memory, failed>>

\* A write either spoils the memory or completes it, and once complete it stays so.
Write ==
  /\ pending # {} /\ memory # pending
  /\ memory' \in {{}, pending}
  /\ UNCHANGED <<pending, failed>>

Complete ==
  /\ pending # {} /\ memory = pending
  /\ pending' = {}
  /\ failed' = FALSE
  /\ UNCHANGED memory

Fail ==
  /\ pending # {}
  /\ pending' = {}
  /\ failed' = TRUE
  /\ UNCHANGED memory

\* A read that fails takes nothing away.
Restart ==
  /\ pending' = {}
  /\ failed' \in BOOLEAN
  /\ UNCHANGED memory

Next == Begin \/ Write \/ Complete \/ Fail \/ Restart

Spec == Init /\ [][Next]_<<memory, pending, failed>>
===============================================================================
