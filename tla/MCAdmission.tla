---------------------------- MODULE MCAdmission ----------------------------
(***************************************************************************)
(* Instances of Admission for TLC: up to four connections, two of them     *)
(* from one address.                                                       *)
(***************************************************************************)
EXTENDS Admission, TLC

CONSTANTS c1, c2, c3, c4, a, b, d

MCSourceOf == [c \in Conns |-> IF c \in {c1, c2} THEN a ELSE IF c = c3 THEN b ELSE d]

=============================================================================
