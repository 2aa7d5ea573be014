---------------------------- MODULE MCEnrollment ----------------------------
(***************************************************************************)
(* Instances of Enrollment for TLC: two overlapping runs over two relays   *)
(* whose clocks are apart, and a series of runs one after another.         *)
(***************************************************************************)
EXTENDS Enrollment

\* with a skew of two and a deadline of one: a relay behind the operator, then
\* one far enough ahead to call a fresh certificate stale
OverlapClocks == {<<-1, 2>>}

\* relays ahead by less than a certificate lives
ConvergeClocks == {<<0, 1>>, <<1, 0>>}
=============================================================================
