----------------------------- MODULE EchoChannel -----------------------------
(***************************************************************************)
(* What a circuit promises its two ends. Cells are numbered by the client  *)
(* in the order it writes them. The exit is handed them in that order,     *)
(* from the first one on, none skipped and none twice, until the circuit   *)
(* breaks; the client accepts at most one answer for each, in the same     *)
(* order, and only to cells the exit was handed. Nothing says that a cell  *)
(* arrives: the channel may stop at any point.                             *)
(***************************************************************************)
EXTENDS Naturals, Sequences

VARIABLES
  written,    \* how many cells the client numbered
  handed,     \* the cells handed to the exit
  answered    \* the cells whose answers the client accepted

vars == <<written, handed, answered>>

Init ==
  /\ written = 0
  /\ handed = <<>>
  /\ answered = <<>>

Write ==
  /\ written' = written + 1
  /\ UNCHANGED <<handed, answered>>

Hand ==
  /\ Len(handed) < written
  /\ handed' = Append(handed, Len(handed))
  /\ UNCHANGED <<written, answered>>

Answer ==
  /\ Len(answered) < Len(handed)
  /\ answered' = Append(answered, Len(answered))
  /\ UNCHANGED <<written, handed>>

Next == Write \/ Hand \/ Answer

Spec == Init /\ [][Next]_vars

=============================================================================
