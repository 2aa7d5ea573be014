-------------------------------- MODULE Wire --------------------------------
(***************************************************************************)
(* The counters of the wire package: values on a link wrap at              *)
(* CounterLimit (2^62 in wire/nonce.go), a link carries at most CellLimit  *)
(* cells each way (2^60 in wire/counter.go), and a Sequence takes values   *)
(* strictly one after another (wire/replay.go).                            *)
(***************************************************************************)
EXTENDS Integers

CONSTANTS CounterLimit, CellLimit

ASSUME LimitAssumption ==
  /\ CounterLimit \in Nat \ {0}
  /\ CellLimit \in Nat \ {0}
  /\ CellLimit <= CounterLimit

Values == 0 .. CounterLimit - 1

Directions == {"fwd", "bwd"}

Shift(value, offset) == (value + offset) % CounterLimit

Unshift(value, offset) == (value - offset) % CounterLimit

-----------------------------------------------------------------------------
(* A Sequence belongs to the goroutine that reads the link.                *)

SequenceStates == [next : Values, taken : 0 .. CellLimit, seeded : BOOLEAN]

NewSequence == [next |-> 0, taken |-> 0, seeded |-> FALSE]

\* Mutant of Expect: the reader is never told the first value.
ExpectNothing(s, first) == s

Expect(s, first) == [next |-> first, taken |-> s.taken, seeded |-> TRUE]

\* Mutant of Due: nothing limits the cells a link carries.
DueWithoutLimit(s, counter) == counter \in Values /\ (s.seeded => counter = s.next)

\* The value is the one due; the first is taken as it comes.
Due(s, counter) ==
  /\ counter \in Values
  /\ s.taken < CellLimit
  /\ s.seeded => counter = s.next

\* Mutant of Take: the next value does not wrap at the limit.
TakeUnwrapped(s, counter) ==
  [next |-> counter + 1, taken |-> s.taken + 1, seeded |-> TRUE]

Take(s, counter) ==
  [next |-> Shift(counter, 1), taken |-> s.taken + 1, seeded |-> TRUE]

=============================================================================
