---------------------------- MODULE MCPeerCache -----------------------------
(***************************************************************************)
(* Instances of PeerCache for TLC: two peers besides the node.             *)
(***************************************************************************)
EXTENDS PeerCache

\* the shortest lifetime InTime allows, and no own bundle to multiply the states
Lasting ==
    [ttl |-> 11, check |-> 1, fetch |-> 1, retry |-> 1, maxWait |-> 3,
     skew |-> 2, maySign |-> FALSE]

\* bundles run out between refreshes while three threads publish the mirror
Hasty ==
    [ttl |-> 4, check |-> 1, fetch |-> 1, retry |-> 1, maxWait |-> 2,
     skew |-> 1, maySign |-> TRUE]

BothSettings == {Lasting, Hasty}
=============================================================================
