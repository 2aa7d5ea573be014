------------------------------ MODULE MCChain ------------------------------
(***************************************************************************)
(* Instances of Chain for TLC and the properties its runs check.           *)
(***************************************************************************)
EXTENDS Chain

CONSTANT OffsetChoices   \* the offsets a hop may draw, per direction

\* The running sums of the offsets o, as NewCircuit adds them up.
Sums(o) ==
  LET sum[i \in 1 .. N + 1] ==
        IF i = 1 THEN [d \in Directions |-> 0]
        ELSE [d \in Directions |-> Shift(sum[i - 1][d], o[i - 1][d])]
  IN sum

MCCircuits ==
  {[offset |-> o, before |-> Sums(o)] : o \in [1 .. N -> [Directions -> OffsetChoices]]}

=============================================================================
