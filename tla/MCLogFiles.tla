----------------------------- MODULE MCLogFiles -----------------------------
(***************************************************************************)
(* LogFiles on a small instance: the first line is longer than a file may  *)
(* be, the second as long, and the third shorter.                          *)
(***************************************************************************)
EXTENDS LogFiles

MCLength == [line \in Lines |-> 4 - line]

=============================================================================
