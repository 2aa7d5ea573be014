-------------------------------- MODULE Choose ---------------------------------
(***************************************************************************)
(* Choosing nodes (package client, choose.go): random words made into      *)
(* places, the verdict on a mirror, and the path drawn without replacement *)
(* among the nodes it holds.  The random source gives words of Bits bits,  *)
(* 64 in the code; places count from 1, not from 0.                        *)
(***************************************************************************)
EXTENDS Integers, SequencesExt

CONSTANT Bits   \* width of a word of the random source

Words == 0 .. 2 ^ Bits - 1

\* A plausible slip: every word is taken.
RejectNone(m) == 0

\* -bound % bound in unsigned arithmetic: 2^Bits mod m.
Reject(m) == (2 ^ Bits - m) % m

Usable(v, m) == v >= Reject(m)

\* Where a place stands among those served, and the places served in the listed order.
Place(served, i) == Cardinality({k \in 1 .. i : served[k]})

Held(served) ==
    LET at == {i \in DOMAIN served : served[i]}
    IN  [p \in 1 .. Cardinality(at) |-> CHOOSE i \in at : Place(served, i) = p]

Absent(served) == Cardinality({i \in DOMAIN served : ~served[i]})
MaxAbsent(n, hops, missing) == IF missing < n - hops THEN missing ELSE n - hops

\* JudgeMirror, TRUE for MirrorTaken.
JudgeMirror(served, e, hops, missing) ==
    /\ served[e]
    /\ Absent(served) <= MaxAbsent(Len(served), hops, missing)

\* ChooseRest before its first draw, from place e of n.
Begin(e, n) ==
    [others |-> [i \in 1 .. n - 1 |-> IF i < e THEN i ELSE i + 1], path |-> <<e>>]

\* The words that are left to choose among, and the step of the shuffle for one.
Bound(c) == Len(c.others) - Len(c.path) + 1

Take(c, v) ==
    LET i == Len(c.path)
        j == i + (v % Bound(c))
    IN  [others |-> [c.others EXCEPT ![i] = c.others[j], ![j] = c.others[i]],
         path   |-> Append(c.path, c.others[j])]

================================================================================
